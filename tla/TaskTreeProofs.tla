--------------------------- MODULE TaskTreeProofs ---------------------------
(* Theorems of TaskTree for every number of jobs, processes, threads and    *)
(* callers: the tree and its lists, the end of threads, processes and jobs, *)
(* the refinement of the abstract life cycle, and the order of the locks.   *)
EXTENDS TaskChapters, TaskTreeLife, SequenceTheorems, TLAPS

USE DEF Actors, Locks

-----------------------------------------------------------------------------
(* Batches of victims *)

LEMMA PushType ==
    ASSUME NEW S, NEW b \in SUBSET S, NEW q \in Seq(SUBSET S)
    PROVE  Push(b, q) \in Seq(SUBSET S)
<1>1. <<b>> \in Seq(SUBSET S)
  OBVIOUS
<1>2. <<b>> \o q \in Seq(SUBSET S)
  BY <1>1, ConcatProperties
<1> QED
  BY <1>2 DEF Push

LEMMA MembersEmpty == Members(<<>>) = {}
BY DEF Members

\* Pushing a batch adds its tasks to those still to kill, and no other.
LEMMA MembersPush ==
    ASSUME NEW S, NEW b \in SUBSET S, NEW q \in Seq(SUBSET S)
    PROVE  Members(Push(b, q)) = b \cup Members(q)
<1>1. CASE b = {}
  BY <1>1 DEF Push
<1>2. CASE b # {}
  <2> DEFINE s == <<b>> \o q
  <2>1. /\ Len(s) = 1 + Len(q)
        /\ s \in Seq(SUBSET S)
        /\ \A i \in 1 .. 1 + Len(q) : s[i] = IF i <= 1 THEN b ELSE q[i - 1]
    <3>1. /\ <<b>> \in Seq(SUBSET S)
          /\ Len(<<b>>) = 1
          /\ <<b>>[1] = b
      OBVIOUS
    <3> QED
      BY <3>1, ConcatProperties
  <2>2. Len(q) \in Nat /\ DOMAIN q = 1 .. Len(q) /\ DOMAIN s = 1 .. 1 + Len(q)
    BY <2>1, LenProperties
  <2>3. ASSUME NEW x PROVE x \in Members(s) <=> x \in b \cup Members(q)
    <3>1. ASSUME NEW i \in DOMAIN s, x \in s[i]
          PROVE  x \in b \cup Members(q)
      <4>1. CASE i = 1
        BY <3>1, <4>1, <2>1, <2>2
      <4>2. CASE i # 1
        <5>1. i - 1 \in DOMAIN q /\ s[i] = q[i - 1]
          BY <4>2, <2>1, <2>2
        <5> QED
          BY <3>1, <5>1 DEF Members
      <4> QED
        BY <4>1, <4>2
    <3>2. ASSUME x \in b PROVE x \in Members(s)
      <4>1. 1 \in DOMAIN s /\ s[1] = b
        BY <2>1, <2>2
      <4> QED
        BY <3>2, <4>1 DEF Members
    <3>3. ASSUME NEW k \in DOMAIN q, x \in q[k] PROVE x \in Members(s)
      <4>1. k + 1 \in DOMAIN s /\ s[k + 1] = q[k]
        BY <2>1, <2>2
      <4> QED
        BY <3>3, <4>1 DEF Members
    <3> QED
      BY <3>1, <3>2, <3>3 DEF Members
  <2> QED
    BY <1>2, <2>3 DEF Push
<1> QED
  BY <1>1, <1>2

\* The two facts for batches of jobs and processes.
LEMMA PushTasks ==
    ASSUME NEW b \in SUBSET (Jobs \cup Procs),
           NEW q \in Seq(SUBSET (Jobs \cup Procs))
    PROVE  /\ Push(b, q) \in Seq(SUBSET (Jobs \cup Procs))
           /\ Members(Push(b, q)) = b \cup Members(q)
<1> DEFINE S == Jobs \cup Procs
<1>1. b \in SUBSET S /\ q \in Seq(SUBSET S)
  OBVIOUS
<1> HIDE DEF S
<1>2. Push(b, q) \in Seq(SUBSET S) /\ Members(Push(b, q)) = b \cup Members(q)
  BY <1>1, PushType, MembersPush
<1> QED
  BY <1>2 DEF S

\* What a queue holds is its first batch and the rest.
LEMMA MembersSplit ==
    ASSUME NEW S, NEW q \in Seq(SUBSET S), q # <<>>
    PROVE  /\ Head(q) \in SUBSET S
           /\ Tail(q) \in Seq(SUBSET S)
           /\ Members(q) = Head(q) \cup Members(Tail(q))
<1>1. /\ Head(q) \in SUBSET S
      /\ Tail(q) \in Seq(SUBSET S)
      /\ Len(Tail(q)) = Len(q) - 1
      /\ \A i \in 1 .. Len(Tail(q)) : Tail(q)[i] = q[i + 1]
  BY HeadTailProperties
<1>2. /\ Len(q) \in Nat \ {0}
      /\ DOMAIN q = 1 .. Len(q)
      /\ DOMAIN Tail(q) = 1 .. Len(q) - 1
  BY <1>1, EmptySeq, LenProperties
<1>3. Head(q) = q[1]
  BY <1>2
<1>4. ASSUME NEW i \in DOMAIN q, NEW x \in q[i]
      PROVE  x \in Head(q) \cup Members(Tail(q))
  <2>1. CASE i = 1
    BY <2>1, <1>3, <1>4
  <2>2. CASE i # 1
    <3>1. i - 1 \in DOMAIN Tail(q) /\ Tail(q)[i - 1] = q[i]
      BY <2>2, <1>1, <1>2
    <3> QED
      BY <1>4, <3>1 DEF Members
  <2> QED
    BY <2>1, <2>2
<1>5. ASSUME NEW x \in Head(q) PROVE x \in Members(q)
  BY <1>2, <1>3, <1>5 DEF Members
<1>6. ASSUME NEW i \in DOMAIN Tail(q), NEW x \in Tail(q)[i]
      PROVE  x \in Members(q)
  <2>1. i + 1 \in DOMAIN q /\ q[i + 1] = Tail(q)[i]
    BY <1>1, <1>2
  <2> QED
    BY <1>6, <2>1 DEF Members
<1> QED
  BY <1>1, <1>4, <1>5, <1>6 DEF Members

-----------------------------------------------------------------------------
(* Frames *)

\* A section works on an object of the kind its label names.
LEMMA FrameKinds ==
    ASSUME TypeOK, NEW a \in Actors
    PROVE  /\ At(a, "idle") => pc[a] = Idle
           /\ At(a, "thread.start") => On(a) \in Threads
           /\ At(a, "job.kill") => On(a) \in Jobs
           /\ At(a, "job.terminate") => On(a) \in Jobs
           /\ At(a, "job.remove_child") => On(a) \in Jobs /\ Arg(a) \in Jobs
           /\ At(a, "job.remove_process") => On(a) \in Jobs /\ Arg(a) \in Procs
           /\ At(a, "proc.exit") => On(a) \in Procs /\ Arg(a) \in ExitCodes
           /\ \/ At(a, "proc.killing") \/ At(a, "proc.suspending")
              \/ At(a, "proc.resuming")
              => On(a) \in Procs /\ Left(a) \in SUBSET Threads
           /\ At(a, "proc.terminate") => On(a) \in Procs
           /\ At(a, "proc.remove_thread") => On(a) \in Procs /\ Arg(a) \in Threads
<1>1. pc[a] \in Frames
  BY DEF TypeOK
<1> QED
  BY <1>1 DEF Frames, At, On, Arg, Left, Idle, Frame

LEMMA FrameTypes ==
    /\ Idle \in Frames
    /\ \A t \in Threads : Frame("thread.start", t, None) \in Frames
    /\ \A j \in Jobs : /\ Frame("job.kill", j, None) \in Frames
                      /\ Frame("job.terminate", j, None) \in Frames
                      /\ \A c \in Jobs : Frame("job.remove_child", j, c) \in Frames
                      /\ \A p \in Procs : Frame("job.remove_process", j, p) \in Frames
    /\ \A p \in Procs :
         /\ \A c \in ExitCodes : Frame("proc.exit", p, c) \in Frames
         /\ Frame("proc.terminate", p, None) \in Frames
         /\ \A t \in Threads : Frame("proc.remove_thread", p, t) \in Frames
         /\ \A left \in SUBSET Threads :
              /\ Walk("proc.killing", p, left) \in Frames
              /\ Walk("proc.suspending", p, left) \in Frames
              /\ Walk("proc.resuming", p, left) \in Frames
BY DEF Frames, Frame, Walk, Idle

LEMMA ReturnType ==
    ASSUME TypeOK, NEW a \in Actors, Return(a)
    PROVE  /\ pc' \in [Actors -> Frames]
           /\ lock' \in [Locks -> Actors \cup {None}]
BY FrameTypes DEF TypeOK, Return

\* An actor that goes on to another section keeps the types too.
LEMMA EnterType ==
    ASSUME TypeOK, NEW a \in Actors, NEW f \in Frames, Enter(a, f)
    PROVE  pc' \in [Actors -> Frames]
BY DEF TypeOK, Enter

\* Taking an element out of one of the lists makes no list longer.
LEMMA TakenOut ==
    ASSUME NEW S, NEW T, NEW g \in [S -> SUBSET T], NEW h, NEW k, NEW c,
           h = [g EXCEPT ![k] = @ \ {c}]
    PROVE  \A j \in S : h[j] \subseteq g[j]
OBVIOUS

LEMMA TerminateIfEmptyType ==
    ASSUME TypeOK, NEW a \in Actors, NEW j \in Jobs, TerminateIfEmpty(a, j)
    PROVE  /\ pc' \in [Actors -> Frames]
           /\ lock' \in [Locks -> Actors \cup {None}]
<1>1. CASE Return(a)
  BY <1>1, ReturnType
<1>2. CASE Enter(a, Frame("job.terminate", j, None)) /\ UNCHANGED lock
  <2>1. Frame("job.terminate", j, None) \in Frames
    BY FrameTypes
  <2>2. pc' \in [Actors -> Frames]
    BY <1>2, <2>1, EnterType
  <2> QED
    BY <1>2, <2>2 DEF TypeOK
<1> QED
  BY <1>1, <1>2 DEF TerminateIfEmpty

LEMMA RemoveThreadType ==
    ASSUME TypeOK, NEW a \in Actors, RemoveThread(a)
    PROVE  /\ pc' \in [Actors -> Frames]
           /\ lock' \in [Locks -> Actors \cup {None}]
<1>1. PICK p \in Procs : p = On(a)
  BY FrameKinds DEF RemoveThread
<1>2. LastThread(a, p) \/ Return(a)
  BY <1>1 DEF RemoveThread
<1>3. CASE Return(a)
  BY <1>3, ReturnType
<1>4. CASE LastThread(a, p)
  <2>1. Frame("proc.terminate", p, None) \in Frames
    BY FrameTypes
  <2>2. pc' \in [Actors -> Frames]
    BY <1>4, <2>1, EnterType DEF LastThread
  <2> QED
    BY <1>4, <2>2 DEF LastThread, TypeOK
<1> QED
  BY <1>2, <1>3, <1>4

-----------------------------------------------------------------------------
(* Type correctness *)

LEMMA InitTypeOK == Init => TypeOK
BY RootAssumption, MaxSuspendAssumption, FrameTypes DEF Init, TypeOK

LEMMA CallTypeOK ==
    ASSUME TypeOK, TreeOK, NEW a \in Actors, Call(a)
    PROVE  TypeOK'
<1> USE FrameTypes DEF TypeOK, Loop, Enter
<1>1. ASSUME NEW j \in Jobs, NEW c \in Jobs, CreateJob(a, j, c)
      PROVE  TypeOK'
  BY <1>1 DEF CreateJob, Adopt, procVars
<1>2. ASSUME NEW j \in Jobs, NEW p \in Procs, CreateProcess(a, j, p)
      PROVE  TypeOK'
  BY <1>2 DEF CreateProcess
<1>3. ASSUME NEW j \in Jobs, KillJob(a, j)
      PROVE  TypeOK'
  BY <1>3 DEF KillJob, jobVars, procVars
<1>4. ASSUME NEW j \in Jobs, DropJob(a, j)
      PROVE  TypeOK'
  BY <1>4 DEF DropJob, procVars
<1>5. ASSUME NEW p \in Procs, NEW t \in Threads, StartProcess(a, p, t)
      PROVE  TypeOK'
  BY <1>5 DEF StartProcess, jobVars
<1>6. ASSUME NEW p \in Procs, NEW t \in Threads, CreateThread(a, p, t)
      PROVE  TypeOK'
  BY <1>6 DEF CreateThread, jobVars
<1>7. ASSUME NEW p \in Procs, ExitProcess(a, p)
      PROVE  TypeOK'
  BY <1>7 DEF ExitProcess, ExitCodes, jobVars, procVars
<1>8. ASSUME NEW p \in Procs, NEW at, WalkProcess(a, p, at),
             at \in {"proc.suspending", "proc.resuming"},
             tokens' \in [Procs -> 0 .. MaxSuspend]
      PROVE  TypeOK'
  <2>1. Walk(at, p, threads[p]) \in Frames
    BY <1>8
  <2>2. pc' \in [Actors -> Frames]
    BY <1>8, <2>1 DEF WalkProcess
  <2>3. lock' \in [Locks -> Actors \cup {None}]
    BY <1>8, ZenonT(60) DEF WalkProcess
  <2> QED
    BY <1>8, <2>2, <2>3 DEF WalkProcess, jobVars
<1>9. ASSUME NEW p \in Procs, SuspendProcess(a, p)
      PROVE  TypeOK'
  <2>1. tokens' \in [Procs -> 0 .. MaxSuspend]
    BY <1>9, MaxSuspendAssumption DEF SuspendProcess
  <2> QED
    BY <1>8, <1>9, <2>1 DEF SuspendProcess
<1>10. ASSUME NEW p \in Procs, ResumeProcess(a, p)
       PROVE  TypeOK'
  <2>1. tokens' \in [Procs -> 0 .. MaxSuspend]
    BY <1>10, MaxSuspendAssumption DEF ResumeProcess, HasToken
  <2> QED
    BY <1>8, <1>10, <2>1 DEF ResumeProcess
<1>11. ASSUME NEW t \in Threads, StartThread(a, t)
       PROVE  TypeOK'
  BY <1>11 DEF StartThread, jobVars, procVars
<1>12. ASSUME NEW t \in Threads, KillThread(a, t)
       PROVE  TypeOK'
  BY <1>12 DEF KillThread, Stop, Stopped, jobVars, procVars
<1> QED
  BY <1>1, <1>2, <1>3, <1>4, <1>5, <1>6, <1>7, <1>9, <1>10, <1>11, <1>12
     DEF Call

LEMMA ContinueTypeOK ==
    ASSUME TypeOK, TreeOK, NEW a \in Actors, Continue(a)
    PROVE  TypeOK'
<1> USE FrameKinds, FrameTypes, ReturnType
    DEF TypeOK, Enter, jobVars, procVars, threadVars
<1>1. CASE ThreadStart(a)
  BY <1>1 DEF ThreadStart
<1>2. CASE JobKill(a)
  <2> DEFINE j == On(a)
             q == Push(children[j], Push(processes[j], victims[a]))
  <2>1. j \in Jobs
    BY <1>2 DEF JobKill
  <2>2. q \in Seq(SUBSET (Jobs \cup Procs))
    <3>1. children[j] \in SUBSET (Jobs \cup Procs)
      BY <2>1
    <3>2. processes[j] \in SUBSET (Jobs \cup Procs)
      BY <2>1
    <3>3. victims[a] \in Seq(SUBSET (Jobs \cup Procs))
      OBVIOUS
    <3> QED
      BY <3>1, <3>2, <3>3, PushType
  <2>3. victims' \in [Actors -> Seq(SUBSET (Jobs \cup Procs))]
    BY <1>2, <2>2 DEF JobKill
  <2>4. pc' \in [Actors -> Frames]
    BY <1>2, <2>1 DEF JobKill
  <2> QED
    BY <1>2, <2>3, <2>4 DEF JobKill
<1>3. CASE KillLoop(a)
  <2>1. PICK v \in Head(victims[a]) :
           /\ victims' = [victims EXCEPT ![a] = Push(Head(@) \ {v}, Tail(@))]
           /\ Enter(a, IF v \in freed THEN Idle
                       ELSE IF v \in Jobs THEN Frame("job.kill", v, None)
                       ELSE Frame("proc.exit", v, "kill"))
           /\ UNCHANGED <<jobVars, procVars, threadVars, lock>>
    BY <1>3 DEF KillLoop, KillNext
  <2>2. /\ Head(victims[a]) \in SUBSET (Jobs \cup Procs)
        /\ Tail(victims[a]) \in Seq(SUBSET (Jobs \cup Procs))
    BY <1>3, MembersSplit DEF KillLoop
  <2>3. Push(Head(victims[a]) \ {v}, Tail(victims[a]))
           \in Seq(SUBSET (Jobs \cup Procs))
    <3>1. Head(victims[a]) \ {v} \in SUBSET (Jobs \cup Procs)
      BY <2>2
    <3> QED
      BY <2>2, <3>1, PushType
  <2>4. victims' \in [Actors -> Seq(SUBSET (Jobs \cup Procs))]
    BY <2>1, <2>3
  <2>5. pc' \in [Actors -> Frames]
    BY <2>1, <2>2 DEF ExitCodes
  <2> QED
    BY <2>1, <2>4, <2>5
<1>4. CASE JobTerminate(a)
  <2> DEFINE j == On(a)
  <2>1. j \in Jobs /\ (j # RootJob => parent[j] \in Jobs)
    BY <1>4 DEF JobTerminate, TreeOK, LinksOK, ActorsOK, Exists
  <2>2. pc' \in [Actors -> Frames] /\ lock' \in [Locks -> Actors \cup {None}]
    <3>1. CASE j = RootJob
      BY <1>4, <3>1 DEF JobTerminate
    <3>2. CASE j # RootJob
      <4>1. Frame("job.remove_child", parent[j], j) \in Frames
        BY <2>1, <3>2
      <4>2. /\ lock' = [lock EXCEPT ![j] = a]
            /\ pc' = [pc EXCEPT ![a] = Frame("job.remove_child", parent[j], j)]
        BY <1>4, <3>2 DEF JobTerminate
      <4> QED
        BY <4>1, <4>2
    <3> QED
      BY <3>1, <3>2
  <2> QED
    BY <1>4, <2>2 DEF JobTerminate
<1>5. CASE RemoveChild(a)
  <2>1. On(a) \in Jobs
    BY <1>5 DEF RemoveChild
  <2>0. PICK j \in Jobs : j = On(a)
    BY <2>1
  <2>3. TerminateIfEmpty(a, j)
    BY <1>5, <2>0 DEF RemoveChild
  <2>2. pc' \in [Actors -> Frames] /\ lock' \in [Locks -> Actors \cup {None}]
    BY <2>3, TerminateIfEmptyType
  <2> QED
    BY <1>5, <2>1, <2>2 DEF RemoveChild
<1>6. CASE RemoveProcess(a)
  <2>1. On(a) \in Jobs
    BY <1>6 DEF RemoveProcess
  <2>0. PICK j \in Jobs : j = On(a)
    BY <2>1
  <2>3. TerminateIfEmpty(a, j)
    BY <1>6, <2>0 DEF RemoveProcess
  <2>2. pc' \in [Actors -> Frames] /\ lock' \in [Locks -> Actors \cup {None}]
    BY <2>3, TerminateIfEmptyType
  <2> QED
    BY <1>6, <2>1, <2>2 DEF RemoveProcess
<1>7. CASE ProcExit(a)
  <2>1. On(a) \in Procs /\ Arg(a) \in ExitCodes
    BY <1>7 DEF ProcExit
  <2>2. /\ Frame("proc.terminate", On(a), None) \in Frames
        /\ Walk("proc.killing", On(a), threads[On(a)]) \in Frames
    BY <2>1
  <2>3. CASE status[On(a)] = "Exited"
    BY <1>7, <2>3 DEF ProcExit
  <2>4. CASE status[On(a)] # "Exited"
    <3>1. /\ status' = [status EXCEPT ![On(a)] = "Exited"]
          /\ retcode' = [retcode EXCEPT ![On(a)] = Arg(a)]
          /\ \/ /\ pc' = [pc EXCEPT ![a] = Frame("proc.terminate", On(a), None)]
                /\ lock' = lock
             \/ /\ pc' = [pc EXCEPT ![a] =
                              Walk("proc.killing", On(a), threads[On(a)])]
                /\ lock' = [lock EXCEPT ![On(a)] = a]
      BY <1>7, <2>4 DEF ProcExit
    <3>2. pc' \in [Actors -> Frames] /\ lock' \in [Locks -> Actors \cup {None}]
      <4> HIDE DEF On
      <4>1. pc \in [Actors -> Frames] /\ lock \in [Locks -> Actors \cup {None}]
        OBVIOUS
      <4>2. /\ Frame("proc.terminate", On(a), None) \in Frames
            /\ Walk("proc.killing", On(a), threads[On(a)]) \in Frames
        BY <2>2
      <4> HIDE FrameKinds, FrameTypes, ReturnType DEF TypeOK
      <4> QED
        BY <2>1, <4>1, <4>2, <3>1
    <3>3. status' \in [Procs -> {"absent", "Init", "Running", "Exited"}]
      BY <2>1, <3>1
    <3>5. retcode' \in [Procs -> ExitCodes \cup {None}]
      BY <2>1, <3>1
    <3>4. UNCHANGED <<jobVars, owner, threads, tokens, threadVars, victims>>
      BY <1>7 DEF ProcExit
    <3> QED
      BY <3>2, <3>3, <3>4, <3>5
  <2> QED
    BY <2>3, <2>4
<1>8. ASSUME NEW t \in Left(a), WalkOn(a, t),
             \/ At(a, "proc.killing") \/ At(a, "proc.suspending")
             \/ At(a, "proc.resuming")
      PROVE  /\ pc' \in [Actors -> Frames]
             /\ lock' \in [Locks -> Actors \cup {None}]
  <2>1. On(a) \in Procs /\ Left(a) \ {t} \in SUBSET Threads
    BY <1>8
  <2>2. Walk(pc[a].at, On(a), Left(a) \ {t}) \in Frames
    BY <1>8, <2>1 DEF At
  <2> QED
    BY <1>8, <2>2, ZenonT(60) DEF WalkOn
<1>9. CASE ProcKilling(a)
  <2>1. PICK t \in Left(a) : Stop(t, TRUE) /\ WalkOn(a, t)
    BY <1>9 DEF ProcKilling
  <2>2. /\ tstate' \in [Threads -> {"New", "Running", "Dying", "Dead"}]
        /\ tkilled' \in [Threads -> BOOLEAN]
    BY <1>9, <2>1 DEF ProcKilling, Stop, Stopped
  <2>3. /\ pc' \in [Actors -> Frames]
        /\ lock' \in [Locks -> Actors \cup {None}]
    BY <1>8, <1>9, <2>1 DEF ProcKilling
  <2> QED
    BY <1>9, <2>2, <2>3 DEF ProcKilling
<1>10. CASE ProcSuspending(a)
  <2>1. PICK t \in Left(a) : /\ suspends' = [suspends EXCEPT ![t] = @ + 1]
                             /\ WalkOn(a, t)
    BY <1>10 DEF ProcSuspending
  <2>2. t \in Threads
    BY <1>10, <2>1 DEF ProcSuspending
  <2>3. suspends' \in [Threads -> Nat]
    BY <2>1, <2>2
  <2> QED
    BY <1>8, <1>10, <2>1, <2>3 DEF ProcSuspending
<1>11. CASE ProcResuming(a)
  <2>1. PICK t \in Left(a) : /\ suspends[t] # 0
                             /\ suspends' = [suspends EXCEPT ![t] = @ - 1]
                             /\ WalkOn(a, t)
    BY <1>11 DEF ProcResuming
  <2>2. t \in Threads
    BY <1>11, <2>1 DEF ProcResuming
  <2>3. suspends' \in [Threads -> Nat]
    BY <2>1, <2>2
  <2> QED
    BY <1>8, <1>11, <2>1, <2>3 DEF ProcResuming
<1>12. CASE ProcTerminate(a)
  <2>1. On(a) \in Procs /\ owner[On(a)] \in Jobs
    BY <1>12 DEF ProcTerminate, TreeOK, LinksOK, ActorsOK, Exists
  <2> QED
    BY <1>12, <2>1 DEF ProcTerminate, TerminalCode, ExitCodes
<1>13. CASE RemoveThread(a)
  <2>1. On(a) \in Procs
    BY <1>13 DEF RemoveThread
  <2>2. pc' \in [Actors -> Frames] /\ lock' \in [Locks -> Actors \cup {None}]
    BY <1>13, RemoveThreadType
  <2> QED
    BY <1>13, <2>1, <2>2 DEF RemoveThread, LeftBehind
<1> QED
  BY <1>1, <1>2, <1>3, <1>4, <1>5, <1>6, <1>7, <1>9, <1>10, <1>11, <1>12,
     <1>13 DEF Continue

LEMMA RunTypeOK ==
    ASSUME TypeOK, TreeOK, NEW t \in Threads, Run(t)
    PROVE  TypeOK'
<1> USE FrameTypes DEF TypeOK, Loop, Enter, jobVars, procVars
<1>1. CASE ExitThread(t)
  BY <1>1 DEF ExitThread, Stop, Stopped
<1>2. CASE RunThread(t)
  BY <1>2 DEF RunThread
<1>3. CASE Trap(t)
  BY <1>3 DEF Trap
<1>4. CASE DropThread(t)
  <2>1. home[t] \in Procs
    BY <1>4 DEF DropThread, LoopEnds, TreeOK, LinksOK
  <2> QED
    BY <1>4, <2>1 DEF DropThread
<1> QED
  BY <1>1, <1>2, <1>3, <1>4 DEF Run

-----------------------------------------------------------------------------
(* The links of the tree *)

LEMMA InitTreeOK == Init => TreeOK
<1> SUFFICES ASSUME Init PROVE TreeOK
  OBVIOUS
<1>1. LinksOK
  BY RootAssumption DEF Init, LinksOK
<1>2. ActorsOK
  <2>1. ASSUME NEW a \in Actors PROVE Exists(On(a)) /\ victims[a] = <<>>
    BY <2>1, DistinctAssumption DEF Init, Exists, On, Idle, Frame
  <2> QED
    BY <2>1, MembersEmpty DEF ActorsOK
<1> QED
  BY <1>1, <1>2 DEF TreeOK

\* Nothing that exists stops to exist.
Grows == /\ born \subseteq born'
         /\ \A p \in Procs : owner[p] # None => owner'[p] # None
         /\ \A t \in Threads : home[t] # None => home'[t] # None

\* A step of actor a keeps ActorsOK if its new frame and its new batches name
\* objects that exist.
LEMMA ActorsStep ==
    ASSUME TypeOK, ActorsOK, Grows, NEW a \in Actors, NEW f, NEW q,
           pc' = [pc EXCEPT ![a] = f], victims' = [victims EXCEPT ![a] = q],
           Exists(f.on)', Members(q) \subseteq Killable'
    PROVE  ActorsOK'
<1> SUFFICES ASSUME NEW b \in Actors
             PROVE  Exists(On(b))' /\ Members(victims'[b]) \subseteq Killable'
  BY DEF ActorsOK
<1>1. CASE b = a
  BY <1>1 DEF On, TypeOK
<1>2. CASE b # a
  <2>1. pc'[b] = pc[b] /\ victims'[b] = victims[b]
    BY <1>2
  <2>2. Exists(On(b)) /\ Members(victims[b]) \subseteq Killable
    BY DEF ActorsOK
  <2>3. Killable \subseteq Killable'
    BY DEF Killable, Grows
  <2> QED
    BY <2>1, <2>2, <2>3 DEF Exists, On, Grows
<1> QED
  BY <1>1, <1>2

\* The same when the actor keeps its frame and its batches.
LEMMA ActorsStay ==
    ASSUME TypeOK, ActorsOK, Grows, UNCHANGED <<pc, victims>>
    PROVE  ActorsOK'
<1> SUFFICES ASSUME NEW b \in Actors
             PROVE  Exists(On(b))' /\ Members(victims'[b]) \subseteq Killable'
  BY DEF ActorsOK
<1>1. Exists(On(b)) /\ Members(victims[b]) \subseteq Killable
  BY DEF ActorsOK
<1>2. Killable \subseteq Killable'
  BY DEF Killable, Grows
<1> QED
  BY <1>1, <1>2 DEF Exists, On, Grows

\* The objects of different kinds differ, and None is none of them.
LEMMA Kinds ==
    /\ \A j \in Jobs : j \notin Procs /\ j \notin Threads /\ j # None
    /\ \A p \in Procs : p \notin Jobs /\ p \notin Threads /\ p # None
    /\ \A t \in Threads : t \notin Procs /\ t \notin Jobs /\ t # None
    /\ None \notin Jobs /\ None \notin Procs /\ None \notin Threads
    /\ None \notin Actors
BY DistinctAssumption

LEMMA FrameOn == \A at, on, arg : Frame(at, on, arg).on = on
BY DEF Frame

LEMMA ExistsNone == Exists(None)
BY Kinds DEF Exists

LEMMA CallTreeOK ==
    ASSUME TypeOK, TreeOK, NEW a \in Actors, Call(a)
    PROVE  TreeOK'
<1> USE DEF TreeOK, Enter
<1> DEFINE Kept == /\ UNCHANGED <<born, parent, children, processes, owner,
                                 threads, home>>
                   /\ \A t \in Threads : home[t] # None \/
                         (runner'[t] = runner[t] /\ begun'[t] = begun[t])
<1>a. ASSUME NEW call, MayCall(a, call), Loop(a), NEW t \in Threads
      PROVE  home[t] # None \/ runner'[t] = runner[t]
  <2>1. CASE a = t
    BY <1>a, <2>1, Kinds DEF MayCall, LinksOK
  <2>2. CASE a # t
    BY <1>a, <2>2 DEF Loop, TypeOK
  <2> QED
    BY <2>1, <2>2
<1>0. Kept => LinksOK' /\ Grows
  BY Kinds DEF LinksOK, Grows
<1>1. ASSUME NEW j \in Jobs, NEW c \in Jobs, CreateJob(a, j, c)
      PROVE  TreeOK'
  <2>1. Grows /\ UNCHANGED <<pc, victims>>
    BY <1>1 DEF CreateJob, Adopt, Grows, procVars
  <2>0. \A t \in Threads : home[t] # None \/ runner'[t] = runner[t]
    BY <1>1, <1>a DEF CreateJob
  <2>2. LinksOK'
    BY <1>1, <2>0 DEF CreateJob, Adopt, procVars, LinksOK, TypeOK
  <2> QED
    BY <2>1, <2>2, ActorsStay
<1>2. ASSUME NEW j \in Jobs, NEW p \in Procs, CreateProcess(a, j, p)
      PROVE  TreeOK'
  <2>1. Grows /\ UNCHANGED <<pc, victims>>
    BY <1>2, Kinds DEF CreateProcess, Grows, TypeOK
  <2>0. \A t \in Threads : home[t] # None \/ runner'[t] = runner[t]
    BY <1>2, <1>a DEF CreateProcess
  <2>2. LinksOK'
    BY <1>2, <2>0, Kinds DEF CreateProcess, LinksOK, TypeOK
  <2> QED
    BY <2>1, <2>2, ActorsStay
<1>3. ASSUME NEW f, NEW on, f.on = on, Kept, Exists(on),
             pc' = [pc EXCEPT ![a] = f], UNCHANGED victims
      PROVE  TreeOK'
  <2>1. Exists(f.on)'
    BY <1>3 DEF Exists
  <2>2. victims' = [victims EXCEPT ![a] = victims[a]]
    BY <1>3 DEF TypeOK
  <2>3. Members(victims[a]) \subseteq Killable'
    BY <1>3 DEF ActorsOK, Killable
  <2> QED
    BY <1>0, <1>3, <2>1, <2>2, <2>3, ActorsStep
<1>4. ASSUME NEW j \in Jobs, KillJob(a, j)
      PROVE  TreeOK'
  <2>1. Kept
    BY <1>4, <1>a, Kinds DEF KillJob, jobVars, procVars, TypeOK
  <2>2. Exists(j)
    BY <1>4, Kinds DEF KillJob, Exists
  <2> QED
    BY <1>3, <1>4, <2>1, <2>2 DEF KillJob, Frame
<1>5. ASSUME NEW j \in Jobs, DropJob(a, j)
      PROVE  TreeOK'
  <2>1. Kept
    BY <1>5, <1>a, Kinds DEF DropJob, procVars, TypeOK
  <2>2. Exists(j)
    BY <1>5, Kinds DEF DropJob, Exists
  <2> QED
    BY <1>3, <1>5, <2>1, <2>2 DEF DropJob, Frame
<1>6. ASSUME NEW p \in Procs, NEW t \in Threads, StartProcess(a, p, t)
      PROVE  TreeOK'
  <2>0. home[t] # None
    BY <1>6, Kinds DEF StartProcess, LinksOK
  <2>3. \A u \in Threads : u = t \/ begun'[u] = begun[u]
    BY <1>6 DEF StartProcess, TypeOK
  <2>4. \A u \in Threads : home[u] # None \/ runner'[u] = runner[u]
    BY <1>6, <1>a DEF StartProcess
  <2>1. Kept
    BY <1>6, <2>0, <2>3, <2>4 DEF StartProcess, jobVars
  <2>2. Exists(t)
    BY <1>6, Kinds DEF StartProcess, Exists, LinksOK
  <2> QED
    BY <1>3, <1>6, <2>1, <2>2 DEF StartProcess, Frame
<1>7. ASSUME NEW p \in Procs, NEW t \in Threads, CreateThread(a, p, t)
      PROVE  TreeOK'
  <2>1. Grows /\ UNCHANGED <<pc, victims>>
    BY <1>7, Kinds DEF CreateThread, Grows, jobVars, TypeOK
  <2>0. \A u \in Threads : home[u] # None \/ runner'[u] = runner[u]
    BY <1>7, <1>a DEF CreateThread
  <2>2. LinksOK'
    BY <1>7, <2>0, Kinds DEF CreateThread, LinksOK, jobVars, TypeOK
  <2> QED
    BY <2>1, <2>2, ActorsStay
<1>8. ASSUME NEW p \in Procs, ExitProcess(a, p)
      PROVE  TreeOK'
  <2>1. Kept
    BY <1>8, <1>a, Kinds DEF ExitProcess, jobVars, procVars, TypeOK
  <2>2. Exists(p)
    BY <1>8, Kinds DEF ExitProcess, Exists
  <2> QED
    BY <1>3, <1>8, <2>1, <2>2 DEF ExitProcess, Frame
<1>9. ASSUME NEW p \in Procs, NEW at, NEW call, MayCall(a, call),
             WalkProcess(a, p, at)
      PROVE  TreeOK'
  <2>0. Kept
    BY <1>9, <1>a DEF WalkProcess, jobVars
  <2>1. CASE threads[p] = {}
    BY <1>0, <1>9, <2>0, <2>1, ActorsStay DEF WalkProcess
  <2>2. CASE threads[p] # {}
    <3>1. Exists(p)
      BY <1>9, Kinds DEF WalkProcess, Exists
    <3> QED
      BY <1>3, <1>9, <2>0, <2>2, <3>1 DEF WalkProcess, Walk
  <2> QED
    BY <2>1, <2>2
<1>10. ASSUME NEW t \in Threads, StartThread(a, t)
       PROVE  TreeOK'
  <2>0. home[t] # None
    BY <1>10, Kinds DEF StartThread, LinksOK
  <2>3. \A u \in Threads : u = t \/ begun'[u] = begun[u]
    BY <1>10 DEF StartThread, TypeOK
  <2>4. \A u \in Threads : home[u] # None \/ runner'[u] = runner[u]
    BY <1>10, <1>a DEF StartThread
  <2>1. Kept
    BY <1>10, <2>0, <2>3, <2>4 DEF StartThread, jobVars, procVars
  <2>2. Exists(t)
    BY <1>10, Kinds DEF StartThread, Exists, LinksOK
  <2> QED
    BY <1>3, <1>10, <2>1, <2>2 DEF StartThread, Frame
<1>11. ASSUME NEW t \in Threads, KillThread(a, t)
       PROVE  TreeOK'
  <2>1. Kept
    BY <1>11, <1>a DEF KillThread, jobVars, procVars
  <2> QED
    BY <1>0, <1>11, <2>1, ActorsStay DEF KillThread
<1> QED
  BY <1>1, <1>2, <1>4, <1>5, <1>6, <1>7, <1>8, <1>9, <1>10, <1>11
     DEF Call, SuspendProcess, ResumeProcess

LEMMA ContinueTreeOK ==
    ASSUME TypeOK, TreeOK, NEW a \in Actors, Continue(a)
    PROVE  TreeOK'
<1> USE DEF TreeOK, Enter
<1> DEFINE Kept == /\ UNCHANGED <<born, parent, owner, home>>
                   /\ \A j \in Jobs : /\ children'[j] \subseteq children[j]
                                     /\ processes'[j] \subseteq processes[j]
                   /\ \A p \in Procs : threads'[p] \subseteq threads[p]
                   /\ \A t \in Threads : home[t] # None \/
                         (runner'[t] = runner[t] /\ begun'[t] = begun[t])
           Linked == UNCHANGED <<jobVars, procVars, home, begun, runner>>
<1>0. /\ Kept => LinksOK' /\ Grows
      /\ Linked => Kept
      /\ Linked => \A t \in Threads : home[t] # None \/
                         (runner'[t] = runner[t] /\ begun'[t] = begun[t])
  <2>1. Kept => LinksOK'
    BY Kinds DEF LinksOK
  <2>2. Kept => Grows
    BY DEF Grows
  <2>3. Linked => Kept
    BY DEF jobVars, procVars
  <2> QED
    BY <2>1, <2>2, <2>3
<1>1. ASSUME NEW f, NEW on, f.on = on, Kept, Exists(on),
             pc' = [pc EXCEPT ![a] = f], UNCHANGED victims
      PROVE  TreeOK'
  <2>1. Exists(f.on)'
    BY <1>1 DEF Exists
  <2>2. victims' = [victims EXCEPT ![a] = victims[a]]
    BY <1>1 DEF TypeOK
  <2>3. Members(victims[a]) \subseteq Killable'
    BY <1>1 DEF ActorsOK, Killable
  <2> QED
    BY <1>0, <1>1, <2>1, <2>2, <2>3, ActorsStep
<1>2. Exists(On(a)) /\ Exists(Idle.on) /\ Members(victims[a]) \subseteq Killable
  BY ExistsNone DEF ActorsOK, Idle, Frame
<1>3. ASSUME Kept, Return(a), UNCHANGED victims
      PROVE  TreeOK'
  BY <1>1, <1>2, <1>3 DEF Return
<1>4. CASE ThreadStart(a)
  <2>1. On(a) \in Threads /\ home[On(a)] # None
    BY <1>2, <1>4, FrameKinds DEF ThreadStart, Exists
  <2>2. \A t \in Threads : t # On(a) => runner'[t] = runner[t]
    BY <1>4 DEF ThreadStart, TypeOK
  <2>3. Kept
    BY <1>4, <2>1, <2>2 DEF ThreadStart, jobVars, procVars
  <2> QED
    BY <1>3, <1>4, <2>3 DEF ThreadStart
<1>5. CASE JobKill(a)
  <2>0. PICK j : j = On(a)
    OBVIOUS
  <2> DEFINE q == Push(children[j], Push(processes[j], victims[a]))
  <2>1. j \in Jobs /\ Kept
    BY <2>0, <1>5, FrameKinds DEF JobKill, procVars, threadVars
  <2>2. /\ children[j] \in SUBSET (Jobs \cup Procs)
        /\ processes[j] \in SUBSET (Jobs \cup Procs)
        /\ victims[a] \in Seq(SUBSET (Jobs \cup Procs))
    BY <2>1 DEF TypeOK
  <2>3. /\ Push(processes[j], victims[a]) \in Seq(SUBSET (Jobs \cup Procs))
        /\ Members(Push(processes[j], victims[a])) =
             processes[j] \cup Members(victims[a])
    BY <2>2, PushTasks
  <2>4. Members(q) = children[j] \cup (processes[j] \cup Members(victims[a]))
    BY <2>2, <2>3, PushTasks
  <2>5. children[j] \cup processes[j] \subseteq Killable
    BY <2>1, Kinds DEF LinksOK, Killable, TypeOK
  <2>6. Killable' = Killable
    BY <1>5 DEF JobKill, procVars, Killable
  <2>7. \E r \in {victims[a], q} : /\ victims' = [victims EXCEPT ![a] = r]
                                 /\ Members(r) \subseteq Killable'
    BY <1>2, <1>5, <2>0, <2>4, <2>5, <2>6 DEF JobKill
  <2>8. \E f \in {Frame("job.terminate", j, None), Idle} :
           pc' = [pc EXCEPT ![a] = f] /\ Exists(f.on)'
    <3>1. UNCHANGED <<born, owner, home>>
      BY <1>5 DEF JobKill, procVars, threadVars
    <3>2. Exists(j)' /\ Exists(None)'
      BY <1>2, <2>0, <3>1, ExistsNone DEF Exists
    <3>3. /\ Frame("job.terminate", j, None).on = j
          /\ Idle.on = None
      BY DEF Frame, Idle
    <3>4. \E f \in {Frame("job.terminate", j, None), Idle} :
             pc' = [pc EXCEPT ![a] = f]
      BY <1>5, <2>0 DEF JobKill
    <3> QED
      BY <3>2, <3>3, <3>4
  <2> QED
    BY <1>0, <2>1, <2>7, <2>8, ActorsStep
<1>6. CASE KillLoop(a)
  <2>1. PICK v \in Head(victims[a]) :
           /\ victims' = [victims EXCEPT ![a] = Push(Head(@) \ {v}, Tail(@))]
           /\ Enter(a, IF v \in freed THEN Idle
                       ELSE IF v \in Jobs THEN Frame("job.kill", v, None)
                       ELSE Frame("proc.exit", v, "kill"))
           /\ UNCHANGED <<jobVars, procVars, threadVars, lock>>
    BY <1>6 DEF KillLoop, KillNext
  <2> DEFINE q == Push(Head(victims[a]) \ {v}, Tail(victims[a]))
  <2>2. /\ Head(victims[a]) \in SUBSET (Jobs \cup Procs)
        /\ Tail(victims[a]) \in Seq(SUBSET (Jobs \cup Procs))
        /\ Members(victims[a]) = Head(victims[a]) \cup Members(Tail(victims[a]))
    <3>1. victims[a] \in Seq(SUBSET (Jobs \cup Procs)) /\ victims[a] # <<>>
      BY <1>6 DEF KillLoop, TypeOK
    <3> QED
      BY <3>1, MembersSplit
  <2>3. Members(q) = (Head(victims[a]) \ {v}) \cup Members(Tail(victims[a]))
    <3>1. Head(victims[a]) \ {v} \in SUBSET (Jobs \cup Procs)
      BY <2>2
    <3> QED
      BY <2>2, <3>1, PushTasks
  <2>4. Kept /\ Killable' = Killable
    BY <2>1 DEF jobVars, procVars, threadVars, Killable
  <2>5. Exists(v)
    <3>1. v \in Killable
      BY <1>2, <2>1, <2>2
    <3> QED
      BY <3>1, Kinds DEF Killable, Exists, TypeOK
  <2>6. \E f \in {Idle, Frame("job.kill", v, None), Frame("proc.exit", v, "kill")} :
           pc' = [pc EXCEPT ![a] = f] /\ Exists(f.on)'
    <3>1. Exists(v)' /\ Exists(None)'
      BY <2>1, <2>5, ExistsNone DEF Exists, jobVars, procVars, threadVars
    <3> QED
      BY <2>1, <3>1 DEF Frame, Idle
  <2>7. victims' = [victims EXCEPT ![a] = q] /\ Members(q) \subseteq Killable'
    BY <1>2, <2>1, <2>2, <2>3, <2>4
  <2> QED
    BY <1>0, <2>4, <2>6, <2>7, ActorsStep
<1>7. CASE JobTerminate(a)
  <2>1. Kept /\ UNCHANGED victims
    BY <1>7 DEF JobTerminate, jobVars, procVars, threadVars
  <2>2. CASE On(a) = RootJob
    BY <1>3, <1>7, <2>1, <2>2 DEF JobTerminate
  <2>3. CASE On(a) # RootJob
    <3>0. PICK k : k = parent[On(a)]
      OBVIOUS
    <3>1. k \in born
      BY <1>2, <1>7, <2>3, <3>0, FrameKinds DEF JobTerminate, Exists, LinksOK
    <3>2. Exists(k)
      BY <3>1, Kinds DEF Exists, TypeOK
    <3>3. PICK f : f = Frame("job.remove_child", k, On(a))
      OBVIOUS
    <3>4. pc' = [pc EXCEPT ![a] = f] /\ f.on = k
      BY <1>7, <2>3, <3>0, <3>3, FrameOn DEF JobTerminate
    <3> QED
      BY <1>1, <2>1, <3>2, <3>4
  <2> QED
    BY <2>2, <2>3
<1>8. ASSUME NEW j, j = On(a), TerminateIfEmpty(a, j), Kept, UNCHANGED victims
      PROVE  TreeOK'
  <2>1. CASE Return(a)
    BY <1>3, <1>8, <2>1
  <2>2. CASE pc' = [pc EXCEPT ![a] = Frame("job.terminate", j, None)]
    <3>1. PICK f : f = Frame("job.terminate", j, None)
      OBVIOUS
    <3>2. pc' = [pc EXCEPT ![a] = f] /\ f.on = j
      BY <2>2, <3>1, FrameOn
    <3>3. Exists(j)
      BY <1>2, <1>8
    <3>4. UNCHANGED victims /\ Kept
      BY <1>8
    <3> QED
      BY <1>1, <3>2, <3>3, <3>4
  <2> QED
    BY <1>8, <2>1, <2>2 DEF TerminateIfEmpty
<1>9. CASE RemoveChild(a)
  <2>1. Kept
    BY <1>9 DEF RemoveChild, procVars, threadVars, TypeOK
  <2> QED
    BY <1>8, <1>9, <2>1 DEF RemoveChild
<1>10. CASE RemoveProcess(a)
  <2>1. Kept
    BY <1>10 DEF RemoveProcess, procVars, threadVars, TypeOK
  <2> QED
    BY <1>8, <1>10, <2>1 DEF RemoveProcess
<1>11. CASE ProcExit(a)
  <2>1. Kept /\ UNCHANGED victims
    BY <1>11 DEF ProcExit, jobVars, threadVars
  <2>2. \/ Return(a)
        \/ pc' = [pc EXCEPT ![a] = Frame("proc.terminate", On(a), None)]
        \/ pc' = [pc EXCEPT ![a] = Walk("proc.killing", On(a), threads[On(a)])]
    BY <1>11 DEF ProcExit
  <2> QED
    BY <1>1, <1>2, <1>3, <2>1, <2>2 DEF Frame, Walk
<1>12. ASSUME NEW t, WalkOn(a, t), Kept, UNCHANGED victims
       PROVE  TreeOK'
  BY <1>1, <1>2, <1>3, <1>12 DEF WalkOn, Walk
<1>13. CASE ProcKilling(a)
  BY <1>0, <1>12, <1>13 DEF ProcKilling
<1>14. CASE ProcSuspending(a)
  BY <1>0, <1>12, <1>14 DEF ProcSuspending
<1>15. CASE ProcResuming(a)
  BY <1>0, <1>12, <1>15 DEF ProcResuming
<1>16. CASE ProcTerminate(a)
  <2>1. Kept /\ UNCHANGED victims
    BY <1>16 DEF ProcTerminate, jobVars, threadVars
  <2>0. PICK j : j = owner[On(a)]
    OBVIOUS
  <2>2. j \in born
    BY <1>2, <1>16, <2>0, FrameKinds DEF ProcTerminate, Exists, LinksOK
  <2>3. Exists(j)
    BY <2>2, Kinds DEF Exists, TypeOK
  <2>4. PICK f : f = Frame("job.remove_process", j, On(a))
    OBVIOUS
  <2>5. pc' = [pc EXCEPT ![a] = f] /\ f.on = j
    BY <1>16, <2>0, <2>4, FrameOn DEF ProcTerminate
  <2> QED
    BY <1>1, <2>1, <2>3, <2>5
<1>17. CASE RemoveThread(a)
  <2>1. Kept /\ UNCHANGED victims
    BY <1>17 DEF RemoveThread, LeftBehind, jobVars, threadVars, TypeOK
  <2> QED
    BY <1>1, <1>2, <1>3, <1>17, <2>1 DEF RemoveThread, LastThread, Frame
<1> QED
  BY <1>4, <1>5, <1>6, <1>7, <1>9, <1>10, <1>11, <1>13, <1>14, <1>15, <1>16,
     <1>17 DEF Continue

LEMMA RunTreeOK ==
    ASSUME TypeOK, TreeOK, NEW t \in Threads, Run(t)
    PROVE  TreeOK'
<1> USE DEF TreeOK, Enter
<1>1. home[t] \in Procs /\ owner[home[t]] # None
  <2>1. runner[t] # "none"
    BY DEF Run, ExitThread, MayCall, RunThread, Trap, DropThread, LoopEnds
  <2> QED
    BY <2>1 DEF LinksOK
<1>2. \A u \in Threads : u = t \/ runner'[u] = runner[u]
  <2>1. UNCHANGED runner \/ \E r : runner' = [runner EXCEPT ![t] = r]
    <3>1. CASE ExitThread(t)
      <4>1. Loop(t)
        BY <3>1 DEF ExitThread
      <4> QED
        BY <4>1 DEF Loop
    <3>2. CASE RunThread(t)
      BY <3>2 DEF RunThread
    <3>3. CASE Trap(t)
      BY <3>3 DEF Trap
    <3>4. CASE DropThread(t)
      BY <3>4 DEF DropThread
    <3> QED
      BY <3>1, <3>2, <3>3, <3>4 DEF Run
  <2> QED
    BY <2>1 DEF TypeOK
<1>3. UNCHANGED <<jobVars, procVars, home, begun, victims>>
  BY DEF Run, ExitThread, RunThread, Trap, DropThread
<1>4. LinksOK' /\ Grows
  BY <1>1, <1>2, <1>3, Kinds DEF LinksOK, Grows, jobVars, procVars
<1>5. CASE UNCHANGED pc
  BY <1>3, <1>4, <1>5, ActorsStay
<1>6. CASE DropThread(t)
  <2>0. PICK p : p = home[t]
    OBVIOUS
  <2>1. Exists(p)'
    BY <1>1, <1>3, <2>0, Kinds DEF Exists, procVars
  <2>2. /\ victims' = [victims EXCEPT ![t] = victims[t]]
        /\ Members(victims[t]) \subseteq Killable'
    BY <1>3 DEF ActorsOK, Killable, jobVars, procVars, TypeOK
  <2> QED
    <3>1. PICK f : f = Frame("proc.remove_thread", p, t)
      OBVIOUS
    <3>2. pc' = [pc EXCEPT ![t] = f] /\ f.on = p
      BY <1>6, <2>0, <3>1, FrameOn DEF DropThread
    <3> QED
      BY <1>4, <2>1, <2>2, <3>2, ActorsStep
<1> QED
  BY <1>5, <1>6 DEF Run, ExitThread, RunThread, Trap

\* Type correctness and the agreement of the tree's links (TypeOK, TreeOK)
\* hold in every reachable state of any number of jobs, processes, threads
\* and callers: no list of job.rs or process.rs ever names a stranger.
THEOREM TreeCorrect == Spec => [](TypeOK /\ TreeOK)
<1>1. Init => TypeOK /\ TreeOK
  BY InitTypeOK, InitTreeOK
<1>2. TypeOK /\ TreeOK /\ [Next]_vars => (TypeOK /\ TreeOK)'
  <2> SUFFICES ASSUME TypeOK, TreeOK, [Next]_vars
               PROVE  (TypeOK /\ TreeOK)'
    OBVIOUS
  <2>1. ASSUME NEW a \in Actors, Call(a) PROVE (TypeOK /\ TreeOK)'
    BY <2>1, CallTypeOK, CallTreeOK
  <2>2. ASSUME NEW a \in Actors, Continue(a) PROVE (TypeOK /\ TreeOK)'
    BY <2>2, ContinueTypeOK, ContinueTreeOK
  <2>3. ASSUME NEW t \in Threads, Run(t) PROVE (TypeOK /\ TreeOK)'
    BY <2>3, RunTypeOK, RunTreeOK
  <2>4. CASE UNCHANGED vars
    BY <2>4 DEF vars, jobVars, procVars, threadVars, TypeOK, TreeOK, LinksOK,
                ActorsOK, Exists, Killable, On
  <2> QED
    BY <2>1, <2>2, <2>3, <2>4 DEF Next
<1> QED
  BY <1>1, <1>2, PTL DEF Spec


-----------------------------------------------------------------------------
(* The exit of a process is final *)

\* A process nobody created yet has no status.
AbsentOK == \A p \in Procs : owner[p] = None => status[p] = "absent"

\* What one step does to a process that has exited.
StaysExited == \A p \in Procs :
    Exited(p) => status'[p] = "Exited" /\ retcode'[p] = retcode[p]

LEMMA ExitStep ==
    ASSUME TypeOK, TreeOK, AbsentOK, [Next]_vars
    PROVE  AbsentOK' /\ StaysExited
<1> USE DEF AbsentOK, StaysExited, Exited
<1>1. ASSUME UNCHANGED <<owner, status, retcode>>
      PROVE  AbsentOK' /\ StaysExited
  BY <1>1
<1>2. ASSUME NEW a \in Actors, NEW j \in Jobs, NEW p \in Procs,
             CreateProcess(a, j, p)
      PROVE  AbsentOK' /\ StaysExited
  <2>1. owner'[p] # None
    BY <1>2, Kinds DEF CreateProcess, TypeOK
  <2>2. status[p] # "Exited"
    BY <1>2 DEF CreateProcess
  <2> QED
    BY <1>2, <2>1, <2>2 DEF CreateProcess, TypeOK
<1>3. ASSUME NEW a \in Actors, NEW p \in Procs, NEW t \in Threads,
             StartProcess(a, p, t)
      PROVE  AbsentOK' /\ StaysExited
  BY <1>3 DEF StartProcess, TypeOK
<1>4. ASSUME NEW a \in Actors, Call(a)
      PROVE  AbsentOK' /\ StaysExited
  <2>1. ASSUME NEW j \in Jobs, NEW c \in Jobs, CreateJob(a, j, c)
        PROVE  UNCHANGED <<owner, status, retcode>>
    BY <2>1 DEF CreateJob, Adopt, procVars
  <2>2. ASSUME NEW j \in Jobs, KillJob(a, j) \/ DropJob(a, j)
        PROVE  UNCHANGED <<owner, status, retcode>>
    BY <2>2 DEF KillJob, DropJob, procVars
  <2>3. ASSUME NEW p \in Procs, NEW t \in Threads, CreateThread(a, p, t)
        PROVE  UNCHANGED <<owner, status, retcode>>
    BY <2>3 DEF CreateThread
  <2>4. ASSUME NEW p \in Procs,
               ExitProcess(a, p) \/ SuspendProcess(a, p) \/ ResumeProcess(a, p)
        PROVE  UNCHANGED <<owner, status, retcode>>
    BY <2>4 DEF ExitProcess, SuspendProcess, ResumeProcess, WalkProcess,
                procVars
  <2>5. ASSUME NEW t \in Threads, StartThread(a, t) \/ KillThread(a, t)
        PROVE  UNCHANGED <<owner, status, retcode>>
    BY <2>5 DEF StartThread, KillThread, procVars
  <2> QED
    BY <1>1, <1>2, <1>3, <1>4, <2>1, <2>2, <2>3, <2>4, <2>5 DEF Call
<1>5. ASSUME NEW a \in Actors, ProcExit(a)
      PROVE  AbsentOK' /\ StaysExited
  <2>0. PICK p : p = On(a)
    OBVIOUS
  <2>1. p \in Procs /\ owner[p] # None
    BY <1>5, <2>0, FrameKinds DEF ProcExit, TreeOK, ActorsOK, Exists
  <2>2. CASE status[p] = "Exited"
    BY <1>1, <1>5, <2>0, <2>2 DEF ProcExit
  <2>3. CASE status[p] # "Exited"
    BY <1>5, <2>0, <2>1, <2>3 DEF ProcExit, TypeOK
  <2> QED
    BY <2>2, <2>3
<1>6. ASSUME NEW a \in Actors, ProcTerminate(a)
      PROVE  AbsentOK' /\ StaysExited
  <2>0. PICK p : p = On(a)
    OBVIOUS
  <2>1. p \in Procs /\ owner[p] # None
    BY <1>6, <2>0, FrameKinds DEF ProcTerminate, TreeOK, ActorsOK, Exists
  <2>2. /\ status' = [status EXCEPT ![p] = "Exited"]
        /\ retcode' = [retcode EXCEPT ![p] = TerminalCode(p)]
        /\ owner' = owner
    BY <1>6, <2>0 DEF ProcTerminate
  <2> QED
    BY <2>1, <2>2 DEF TerminalCode, TypeOK
<1>7. ASSUME NEW a \in Actors, Continue(a)
      PROVE  AbsentOK' /\ StaysExited
  <2>1. \/ ProcExit(a) \/ ProcTerminate(a)
        \/ UNCHANGED <<owner, status, retcode>>
    BY <1>7 DEF Continue, ThreadStart, JobKill, KillLoop, KillNext,
                JobTerminate, RemoveChild, RemoveProcess, ProcKilling,
                ProcSuspending, ProcResuming, RemoveThread, procVars
  <2> QED
    BY <1>1, <1>5, <1>6, <2>1
<1>8. ASSUME NEW t \in Threads, Run(t)
      PROVE  AbsentOK' /\ StaysExited
  BY <1>1, <1>8 DEF Run, ExitThread, RunThread, Trap, DropThread, procVars
<1>9. CASE UNCHANGED vars
  BY <1>1, <1>9 DEF vars, procVars
<1> QED
  BY <1>4, <1>7, <1>8, <1>9 DEF Next

\* The exit code of a process is settled by its first exit, kill or last
\* thread, whichever section of process.rs comes first, and never changes
\* again (ExitIsFinal), for any number of actors that race for it.
THEOREM ExitFinal == Spec => ExitIsFinal
<1>1. Init => AbsentOK
  BY DEF Init, AbsentOK
<1>2. TypeOK /\ TreeOK /\ AbsentOK /\ [Next]_vars => AbsentOK'
  BY ExitStep
<1>3. TypeOK /\ TreeOK /\ AbsentOK /\ [Next]_vars =>
        [\A p \in Procs : Exited(p) => status'[p] = "Exited"
                                       /\ retcode'[p] = retcode[p]]_vars
  BY ExitStep DEF StaysExited
<1> QED
  BY <1>1, <1>2, <1>3, TreeCorrect, PTL DEF Spec, ExitIsFinal

-----------------------------------------------------------------------------
(* A kill reaches everything *)

\* Process p has exited, or a kill in progress will still exit it.
ReachedProc(p) ==
    Exited(p) \/ \E a \in Actors : Hunted(a, p) \/ Entering(a, "proc.exit", p)

\* Job c is killed, or a kill in progress will still kill it.
ReachedJob(c) ==
    killed[c] \/ \E a \in Actors : Hunted(a, c) \/ Entering(a, "job.kill", c)

\* What is reached stays reached; a job may lose its last Arc instead.
StaysReached ==
    /\ \A p \in Procs : ReachedProc(p) => ReachedProc(p)'
    /\ \A c \in Jobs : ReachedJob(c) => ReachedJob(c)' \/ c \in freed'

\* A step that finishes no section of a kill leaves everything reached.
LEMMA ReachedKept ==
    ASSUME TypeOK, NEW a \in Actors, NEW f,
           pc' = [pc EXCEPT ![a] = f], UNCHANGED victims, UNCHANGED killed,
           ~At(a, "proc.exit"), ~At(a, "job.kill"), StaysExited
    PROVE  StaysReached
<1>1. \A b \in Actors : \A x, label :
        label \in {"proc.exit", "job.kill"} /\ Entering(b, label, x) =>
          Entering(b, label, x)'
  BY DEF Entering, At, On, TypeOK
<1>2. \A b \in Actors : \A x : Hunted(b, x) => Hunted(b, x)'
  BY DEF Hunted
<1>3. \A p \in Procs : Exited(p) => Exited(p)'
  BY DEF StaysExited, Exited
<1> QED
  BY <1>1, <1>2, <1>3 DEF StaysReached, ReachedProc, ReachedJob

LEMMA ReachedCall ==
    ASSUME TypeOK, NEW a \in Actors, Call(a), StaysExited
    PROVE  StaysReached
<1>1. UNCHANGED victims /\ UNCHANGED killed
  BY DEF Call, CreateJob, Adopt, CreateProcess, KillJob, DropJob, StartProcess,
         CreateThread, ExitProcess, SuspendProcess, ResumeProcess, WalkProcess,
         StartThread, KillThread, jobVars
<1>2. pc[a] = Idle
  BY DEF Call, CreateJob, Adopt, CreateProcess, KillJob, DropJob, StartProcess,
         CreateThread, ExitProcess, SuspendProcess, ResumeProcess,
         StartThread, KillThread, MayCall, Ready
<1>3. ~At(a, "proc.exit") /\ ~At(a, "job.kill")
  BY <1>2 DEF At, Idle, Frame
<1>4. UNCHANGED pc \/ \E f : Enter(a, f)
  BY DEF Call, CreateJob, Adopt, CreateProcess, KillJob, DropJob, StartProcess,
         CreateThread, ExitProcess, SuspendProcess, ResumeProcess,
         WalkProcess, StartThread, KillThread
<1>5. CASE UNCHANGED pc
  <2>1. pc' = [pc EXCEPT ![a] = pc[a]]
    BY <1>5 DEF TypeOK
  <2> QED
    BY <1>1, <1>3, <2>1, ReachedKept
<1> QED
  BY <1>1, <1>3, <1>4, <1>5, ReachedKept DEF Enter

LEMMA ReachedRun ==
    ASSUME TypeOK, NEW t \in Threads, Run(t), StaysExited
    PROVE  StaysReached
<1>1. UNCHANGED victims /\ UNCHANGED killed /\ pc[t] = Idle
  BY DEF Run, ExitThread, MayCall, RunThread, Trap, DropThread, Ready, jobVars
<1>2. ~At(t, "proc.exit") /\ ~At(t, "job.kill")
  BY <1>1 DEF At, Idle, Frame
<1>3. UNCHANGED pc \/ \E f : Enter(t, f)
  BY DEF Run, ExitThread, RunThread, Trap, DropThread
<1>4. CASE UNCHANGED pc
  <2>1. pc' = [pc EXCEPT ![t] = pc[t]]
    BY <1>4 DEF TypeOK
  <2> QED
    BY <1>1, <1>2, <2>1, ReachedKept
<1> QED
  BY <1>1, <1>2, <1>3, <1>4, ReachedKept DEF Enter

\* The section that marks a job pushes all that its lists hold.
LEMMA KillPushes ==
    ASSUME TypeOK, NEW a \in Actors, JobKill(a), NEW j, j = On(a)
    PROVE  /\ j \in Jobs
           /\ killed' = [killed EXCEPT ![j] = TRUE]
           /\ \A b \in Actors : \A x : Hunted(b, x) => Hunted(b, x)'
           /\ ~killed[j] => \A x \in children[j] \cup processes[j] : Hunted(a, x)'
<1>1. j \in Jobs /\ killed' = [killed EXCEPT ![j] = TRUE]
  BY FrameKinds DEF JobKill
<1> DEFINE q == Push(children[j], Push(processes[j], victims[a]))
<1>2. /\ children[j] \in SUBSET (Jobs \cup Procs)
      /\ processes[j] \in SUBSET (Jobs \cup Procs)
      /\ victims[a] \in Seq(SUBSET (Jobs \cup Procs))
  BY <1>1 DEF TypeOK
<1>3. /\ Push(processes[j], victims[a]) \in Seq(SUBSET (Jobs \cup Procs))
      /\ Members(Push(processes[j], victims[a])) =
           processes[j] \cup Members(victims[a])
  BY <1>2, PushTasks
<1>4. Members(q) = children[j] \cup (processes[j] \cup Members(victims[a]))
  BY <1>2, <1>3, PushTasks
<1>5. CASE killed[j]
  <2>1. victims' = victims
    BY <1>5 DEF JobKill, TypeOK
  <2> QED
    BY <1>1, <1>5, <2>1 DEF Hunted
<1>6. CASE ~killed[j]
  <2>1. victims' = [victims EXCEPT ![a] = q]
    BY <1>6 DEF JobKill
  <2> HIDE DEF q
  <2>2. victims'[a] = q /\ \A b \in Actors : b # a => victims'[b] = victims[b]
    BY <2>1 DEF TypeOK
  <2> QED
    BY <1>1, <1>4, <2>2 DEF Hunted
<1> QED
  BY <1>5, <1>6

LEMMA ReachedJobKill ==
    ASSUME TypeOK, NEW a \in Actors, JobKill(a), StaysExited
    PROVE  StaysReached
<1>0. PICK j : j = On(a)
  OBVIOUS
<1>1. /\ j \in Jobs
      /\ killed' = [killed EXCEPT ![j] = TRUE]
      /\ \A b \in Actors : \A x : Hunted(b, x) => Hunted(b, x)'
  BY <1>0, KillPushes
<1>2. \A p \in Procs : Exited(p) => Exited(p)'
  BY DEF StaysExited, Exited
<1>3. ASSUME NEW b \in Actors, NEW x, NEW label,
             label \in {"proc.exit", "job.kill"}, Entering(b, label, x)
      PROVE  Entering(b, label, x)' \/ (x = j /\ label = "job.kill")
  <2>1. CASE b = a
    BY <1>0, <1>3, <2>1 DEF Entering, At, JobKill
  <2>2. CASE b # a
    <3>1. pc'[b] = pc[b]
      BY <2>2 DEF JobKill, Enter, TypeOK
    <3> QED
      BY <1>3, <3>1 DEF Entering, At, On
  <2> QED
    BY <2>1, <2>2
<1>4. killed'[j] /\ \A c \in Jobs : killed[c] => killed'[c]
  BY <1>1 DEF TypeOK
<1>5. ASSUME NEW p \in Procs, ReachedProc(p)
      PROVE  ReachedProc(p)'
  BY <1>1, <1>2, <1>3, <1>5 DEF ReachedProc
<1>6. ASSUME NEW c \in Jobs, ReachedJob(c)
      PROVE  ReachedJob(c)'
  BY <1>1, <1>3, <1>4, <1>6 DEF ReachedJob
<1> QED
  BY <1>5, <1>6 DEF StaysReached

LEMMA ReachedKillLoop ==
    ASSUME TypeOK, TreeOK, NEW a \in Actors, KillLoop(a), StaysExited
    PROVE  StaysReached
<1>1. PICK v \in Head(victims[a]) :
         /\ victims' = [victims EXCEPT ![a] = Push(Head(@) \ {v}, Tail(@))]
         /\ Enter(a, IF v \in freed THEN Idle
                     ELSE IF v \in Jobs THEN Frame("job.kill", v, None)
                     ELSE Frame("proc.exit", v, "kill"))
         /\ UNCHANGED <<jobVars, procVars, threadVars, lock>>
  BY DEF KillLoop, KillNext
<1> DEFINE q == Push(Head(victims[a]) \ {v}, Tail(victims[a]))
<1>2. /\ Head(victims[a]) \in SUBSET (Jobs \cup Procs)
      /\ Tail(victims[a]) \in Seq(SUBSET (Jobs \cup Procs))
      /\ Members(victims[a]) = Head(victims[a]) \cup Members(Tail(victims[a]))
  <2>1. victims[a] \in Seq(SUBSET (Jobs \cup Procs)) /\ victims[a] # <<>>
    BY DEF KillLoop, TypeOK
  <2> QED
    BY <2>1, MembersSplit
<1>3. Members(q) = (Head(victims[a]) \ {v}) \cup Members(Tail(victims[a]))
  <2>1. Head(victims[a]) \ {v} \in SUBSET (Jobs \cup Procs)
    BY <1>2
  <2> QED
    BY <1>2, <2>1, PushTasks
<1>4. victims'[a] = q /\ \A b \in Actors : b # a => victims'[b] = victims[b]
  BY <1>1 DEF TypeOK
<1> HIDE DEF q
<1>5. \A b \in Actors : \A x : Hunted(b, x) => Hunted(b, x)' \/ x = v
  BY <1>2, <1>3, <1>4 DEF Hunted
<1>6. \A b \in Actors : \A x, label :
        label \in {"proc.exit", "job.kill"} /\ Entering(b, label, x) =>
          Entering(b, label, x)'
  BY <1>1 DEF Entering, At, On, KillLoop, Enter, TypeOK, Idle, Frame
<1>7. UNCHANGED <<killed, freed>> /\ \A p \in Procs : Exited(p) => Exited(p)'
  BY <1>1 DEF StaysExited, Exited, jobVars
<1>8. v \in Jobs \cup Procs
  BY <1>2
<1>9. pc'[a] = IF v \in freed THEN Idle
               ELSE IF v \in Jobs THEN Frame("job.kill", v, None)
               ELSE Frame("proc.exit", v, "kill")
  BY <1>1 DEF Enter, TypeOK
<1>10. v \in Procs => Entering(a, "proc.exit", v)'
  BY <1>9, Kinds DEF Entering, At, On, Frame, TypeOK
<1>11. v \in Jobs => Entering(a, "job.kill", v)' \/ v \in freed
  BY <1>9 DEF Entering, At, On, Frame
<1>12. ASSUME NEW p \in Procs, ReachedProc(p)
       PROVE  ReachedProc(p)'
  BY <1>5, <1>6, <1>7, <1>10, <1>12 DEF ReachedProc
<1>13. ASSUME NEW c \in Jobs, ReachedJob(c)
       PROVE  ReachedJob(c)' \/ c \in freed'
  BY <1>5, <1>6, <1>7, <1>11, <1>13 DEF ReachedJob
<1> QED
  BY <1>12, <1>13 DEF StaysReached

LEMMA ReachedProcExit ==
    ASSUME TypeOK, NEW a \in Actors, ProcExit(a), StaysExited
    PROVE  StaysReached
<1>0. PICK p : p = On(a)
  OBVIOUS
<1>1. p \in Procs
  BY <1>0, FrameKinds DEF ProcExit
<1>2. Exited(p)'
  BY <1>0, <1>1 DEF ProcExit, Exited, TypeOK
<1>3. \A r \in Procs : Exited(r) => Exited(r)'
  BY DEF StaysExited, Exited
<1>4. UNCHANGED <<killed, victims>>
  BY DEF ProcExit, jobVars
<1>5. ASSUME NEW b \in Actors, NEW x, NEW label,
             label \in {"proc.exit", "job.kill"}, Entering(b, label, x)
      PROVE  Entering(b, label, x)' \/ (x = p /\ label = "proc.exit")
  <2>1. CASE b = a
    BY <1>0, <1>5, <2>1 DEF Entering, At, ProcExit
  <2>2. CASE b # a
    <3>1. \E f : pc' = [pc EXCEPT ![a] = f]
      BY DEF ProcExit, Enter, Return
    <3>2. pc'[b] = pc[b]
      BY <2>2, <3>1 DEF TypeOK
    <3> QED
      BY <1>5, <3>2 DEF Entering, At, On
  <2> QED
    BY <2>1, <2>2
<1>6. ASSUME NEW r \in Procs, ReachedProc(r)
      PROVE  ReachedProc(r)'
  BY <1>2, <1>3, <1>4, <1>5, <1>6 DEF ReachedProc, Hunted
<1>7. ASSUME NEW c \in Jobs, ReachedJob(c)
      PROVE  ReachedJob(c)'
  BY <1>4, <1>5, <1>7 DEF ReachedJob, Hunted
<1> QED
  BY <1>6, <1>7 DEF StaysReached

LEMMA ReachedStep ==
    ASSUME TypeOK, TreeOK, AbsentOK, [Next]_vars
    PROVE  StaysReached
<1>1. StaysExited
  BY ExitStep
<1>2. ASSUME NEW a \in Actors, Call(a) PROVE StaysReached
  BY <1>1, <1>2, ReachedCall
<1>3. ASSUME NEW t \in Threads, Run(t) PROVE StaysReached
  BY <1>1, <1>3, ReachedRun
<1>4. ASSUME NEW a \in Actors, Continue(a) PROVE StaysReached
  <2>1. CASE JobKill(a)
    BY <1>1, <2>1, ReachedJobKill
  <2>2. CASE KillLoop(a)
    BY <1>1, <2>2, ReachedKillLoop
  <2>3. CASE ProcExit(a)
    BY <1>1, <2>3, ReachedProcExit
  <2>4. CASE ~JobKill(a) /\ ~KillLoop(a) /\ ~ProcExit(a)
    <3>1. UNCHANGED victims /\ UNCHANGED killed
      BY <1>4, <2>4 DEF Continue, ThreadStart, JobTerminate, RemoveChild,
         RemoveProcess, ProcKilling, ProcSuspending, ProcResuming,
         ProcTerminate, RemoveThread, jobVars
    <3>2. ~At(a, "proc.exit") /\ ~At(a, "job.kill")
      BY <1>4, <2>4 DEF Continue, ThreadStart, JobTerminate, RemoveChild,
         RemoveProcess, ProcKilling, ProcSuspending, ProcResuming,
         ProcTerminate, RemoveThread, At
    <3>3. \E f : pc' = [pc EXCEPT ![a] = f]
      BY <1>4, <2>4 DEF Continue, ThreadStart, JobTerminate, RemoveChild,
         RemoveProcess, ProcKilling, ProcSuspending, ProcResuming, WalkOn,
         ProcTerminate, RemoveThread, LastThread, TerminateIfEmpty, Return, Enter
    <3> QED
      BY <1>1, <3>1, <3>2, <3>3, ReachedKept
  <2> QED
    BY <2>1, <2>2, <2>3, <2>4
<1>5. CASE UNCHANGED vars
  BY <1>5 DEF vars, jobVars, procVars, StaysReached, ReachedProc, ReachedJob,
              Exited, Hunted, Entering, At, On
<1> QED
  BY <1>2, <1>3, <1>4, <1>5 DEF Next

KillOK == KillReachesProcesses /\ KillReachesChildren

\* How a step changes the lists of a killed job: it takes nothing new.
LEMMA KilledShrinks ==
    ASSUME TypeOK, TreeOK, [Next]_vars, NEW j \in Jobs, killed'[j]
    PROVE  /\ freed \subseteq freed'
           /\ \/ /\ killed[j]
                 /\ children'[j] \subseteq children[j]
                 /\ processes'[j] \subseteq processes[j]
              \/ /\ ~killed[j]
                 /\ UNCHANGED <<children, processes>>
                 /\ \E a \in Actors : \A x \in children[j] \cup processes[j] :
                                          Hunted(a, x)'
<1>1. ASSUME UNCHANGED killed, freed \subseteq freed',
             children'[j] \subseteq children[j],
             processes'[j] \subseteq processes[j]
      PROVE  freed \subseteq freed' /\ killed[j]
             /\ children'[j] \subseteq children[j]
             /\ processes'[j] \subseteq processes[j]
  BY <1>1
<1>2. ASSUME NEW a \in Actors, Call(a)
      PROVE  /\ killed[j]
             /\ freed \subseteq freed'
             /\ children'[j] \subseteq children[j]
             /\ processes'[j] \subseteq processes[j]
  <2>1. ASSUME NEW k \in Jobs, NEW c \in Jobs, CreateJob(a, k, c)
        PROVE  /\ killed[j]
               /\ freed \subseteq freed'
               /\ children'[j] \subseteq children[j]
               /\ processes'[j] \subseteq processes[j]
    BY <2>1 DEF CreateJob, Adopt, Accepts, TypeOK
  <2>2. ASSUME NEW k \in Jobs, NEW p \in Procs, CreateProcess(a, k, p)
        PROVE  /\ killed[j]
               /\ freed \subseteq freed'
               /\ children'[j] \subseteq children[j]
               /\ processes'[j] \subseteq processes[j]
    BY <2>2 DEF CreateProcess, Accepts, TypeOK
  <2>3. ASSUME NEW k \in Jobs, DropJob(a, k)
        PROVE  /\ killed[j]
               /\ freed \subseteq freed'
               /\ children'[j] \subseteq children[j]
               /\ processes'[j] \subseteq processes[j]
    BY <2>3 DEF DropJob
  <2>4. \/ UNCHANGED jobVars
        \/ \E k \in Jobs : \/ DropJob(a, k)
                           \/ \E c \in Jobs : CreateJob(a, k, c)
                           \/ \E p \in Procs : CreateProcess(a, k, p)
    BY <1>2 DEF Call, KillJob, StartProcess, CreateThread, ExitProcess,
                SuspendProcess, ResumeProcess, WalkProcess, StartThread,
                KillThread
  <2> QED
    BY <2>1, <2>2, <2>3, <2>4 DEF jobVars
<1>3. ASSUME NEW a \in Actors, JobKill(a), ~killed[j]
      PROVE  /\ UNCHANGED <<freed, children, processes>>
             /\ \A x \in children[j] \cup processes[j] : Hunted(a, x)'
  <2>0. PICK k : k = On(a)
    OBVIOUS
  <2>1. /\ k \in Jobs
        /\ killed' = [killed EXCEPT ![k] = TRUE]
        /\ ~killed[k] => \A x \in children[k] \cup processes[k] : Hunted(a, x)'
    BY <1>3, <2>0, KillPushes
  <2>2. k = j
    BY <1>3, <2>1 DEF TypeOK
  <2> QED
    BY <1>3, <2>1, <2>2 DEF JobKill
<1>4. ASSUME NEW a \in Actors, JobKill(a), killed[j]
      PROVE  UNCHANGED <<freed, children, processes>>
  BY <1>4 DEF JobKill
<1>5. ASSUME NEW a \in Actors, Continue(a), ~JobKill(a)
      PROVE  /\ killed[j]
             /\ freed \subseteq freed'
             /\ children'[j] \subseteq children[j]
             /\ processes'[j] \subseteq processes[j]
  <2>1. UNCHANGED jobVars \/ RemoveChild(a) \/ RemoveProcess(a)
    BY <1>5 DEF Continue, ThreadStart, KillLoop, KillNext, JobTerminate,
       ProcExit, ProcKilling, ProcSuspending, ProcResuming, ProcTerminate,
       RemoveThread
  <2>2. ASSUME RemoveChild(a)
        PROVE  /\ UNCHANGED <<freed, killed, processes>>
               /\ \E k, c : children' = [children EXCEPT ![k] = @ \ {c}]
    BY <2>2 DEF RemoveChild
  <2>3. ASSUME RemoveProcess(a)
        PROVE  /\ UNCHANGED <<freed, killed, children>>
               /\ \E k, p : processes' = [processes EXCEPT ![k] = @ \ {p}]
    BY <2>3 DEF RemoveProcess
  <2>4. CASE RemoveChild(a)
    <3>1. children \in [Jobs -> SUBSET Jobs]
      BY DEF TypeOK
    <3>2. \A i \in Jobs : children'[i] \subseteq children[i]
      BY <2>2, <2>4, <3>1, TakenOut
    <3> QED
      BY <2>2, <2>4, <3>2
  <2>5. CASE RemoveProcess(a)
    <3>1. processes \in [Jobs -> SUBSET Procs]
      BY DEF TypeOK
    <3>2. \A i \in Jobs : processes'[i] \subseteq processes[i]
      BY <2>3, <2>5, <3>1, TakenOut
    <3> QED
      BY <2>3, <2>5, <3>2
  <2> QED
    BY <2>1, <2>4, <2>5 DEF jobVars
<1>6. ASSUME NEW t \in Threads, Run(t)
      PROVE  UNCHANGED jobVars
  BY <1>6 DEF Run, ExitThread, RunThread, Trap, DropThread
<1>7. UNCHANGED vars => UNCHANGED jobVars
  BY DEF vars
<1> QED
  BY <1>2, <1>3, <1>4, <1>5, <1>6, <1>7 DEF Next, jobVars

LEMMA KillStep ==
    ASSUME TypeOK, TreeOK, AbsentOK, KillOK, [Next]_vars
    PROVE  KillOK'
<1>1. StaysReached
  BY ReachedStep
<1>2. ASSUME NEW j \in Jobs, killed'[j], NEW p \in processes'[j]
      PROVE  ReachedProc(p)'
  <2>1. CASE killed[j] /\ p \in processes[j]
    <3>1. ReachedProc(p) /\ p \in Procs
      BY <2>1 DEF KillOK, KillReachesProcesses, ReachedProc, TypeOK
    <3> QED
      BY <1>1, <3>1 DEF StaysReached
  <2>2. CASE \E a \in Actors : Hunted(a, p)'
    BY <2>2 DEF ReachedProc
  <2> QED
    BY <1>2, <2>1, <2>2, KilledShrinks
<1>3. ASSUME NEW j \in Jobs, killed'[j], NEW c \in children'[j], c \notin freed'
      PROVE  ReachedJob(c)'
  <2>1. CASE killed[j] /\ c \in children[j]
    <3>1. c \notin freed
      BY <1>3, KilledShrinks
    <3>2. ReachedJob(c) /\ c \in Jobs
      BY <2>1, <3>1 DEF KillOK, KillReachesChildren, ReachedJob, TypeOK
    <3> QED
      BY <1>1, <1>3, <3>2 DEF StaysReached
  <2>2. CASE \E a \in Actors : Hunted(a, c)'
    BY <2>2 DEF ReachedJob
  <2> QED
    BY <1>3, <2>1, <2>2, KilledShrinks
<1> QED
  BY <1>2, <1>3 DEF KillOK, KillReachesProcesses, KillReachesChildren,
                    ReachedProc, ReachedJob

\* No process and no child job escapes a Job::kill, however creations, kills
\* and exits interleave: whatever stands in the lists of a killed job is
\* already dead or still in the hands of a kill in progress
\* (KillReachesProcesses, KillReachesChildren).
THEOREM KillReaches == Spec => [](KillReachesProcesses /\ KillReachesChildren)
<1>1. Init => AbsentOK /\ KillOK
  BY DEF Init, AbsentOK, KillOK, KillReachesProcesses, KillReachesChildren
<1>2. TypeOK /\ TreeOK /\ AbsentOK /\ KillOK /\ [Next]_vars => (AbsentOK /\ KillOK)'
  BY ExitStep, KillStep
<1>3. KillOK => KillReachesProcesses /\ KillReachesChildren
  BY DEF KillOK
<1> QED
  BY <1>1, <1>2, <1>3, TreeCorrect, PTL DEF Spec

-----------------------------------------------------------------------------
(* The earlier chapters.  From ch02-03 on the tree is that of ch04-03;     *)
(* ch02-02 has a Process::exit of its own.                                 *)

\* The parts of TaskChapters are all that Next does.
LEMMA TaskParts == Parts <=> Next
<1>1. ASSUME NEW a \in Actors
      PROVE  Call(a) \/ Continue(a) <=>
             \/ ChildJobs(a) \/ JobProcesses(a) \/ JobEnd(a) \/ LastArc(a)
             \/ ProcessBegin(a) \/ ProcessEnd(a) \/ ProcessThreads(a) \/ ProcessHalt(a)
             \/ ThreadBegin(a) \/ ThreadEnd(a)
  BY DEF Call, Continue, ChildJobs, JobProcesses, JobEnd, LastArc, ProcessBegin,
         ProcessEnd, ProcessThreads, ProcessHalt, ThreadBegin, ThreadEnd
<1> QED
  BY <1>1 DEF Parts, Next, Run, Current

\* The tree of ch02-03 is that of ch04-03.
THEOREM TreeOf_02_03 == Spec_02_03 <=> Spec
<1>1. Next_02_03 <=> Next
  BY TaskParts
  DEF Next_02_03, Parts, ChildJobs_02_03, JobProcesses_02_03, JobEnd_02_03, LastArc_02_03,
      ProcessBegin_02_03, ProcessEnd_02_03, ProcessThreads_02_03, ProcessHalt_02_03,
      ThreadBegin_02_03, ThreadEnd_02_03, Current_02_03
<1>2. [Next_02_03]_vars_02_03 <=> [Next]_vars
  BY <1>1 DEF vars_02_03, vars, jobVars_02_03, procVars_02_03, threadVars_02_03
<1> QED
  BY <1>2, PTL DEF Spec_02_03, Spec, Init_02_03

\* The tree of ch03-02 is that of ch04-03.
THEOREM TreeOf_03_02 == Spec_03_02 <=> Spec
<1>1. Next_03_02 <=> Next
  BY TaskParts
  DEF Next_03_02, Parts, ChildJobs_03_02, JobProcesses_03_02, JobEnd_03_02, LastArc_03_02,
      ProcessBegin_03_02, ProcessEnd_03_02, ProcessThreads_03_02, ProcessHalt_03_02,
      ThreadBegin_03_02, ThreadEnd_03_02, Current_03_02
<1>2. [Next_03_02]_vars_03_02 <=> [Next]_vars
  BY <1>1 DEF vars_03_02, vars, jobVars_03_02, procVars_03_02, threadVars_03_02
<1> QED
  BY <1>2, PTL DEF Spec_03_02, Spec, Init_03_02

\* The tree of ch03-04 is that of ch04-03.
THEOREM TreeOf_03_04 == Spec_03_04 <=> Spec
<1>1. Next_03_04 <=> Next
  BY TaskParts
  DEF Next_03_04, Parts, ChildJobs_03_04, JobProcesses_03_04, JobEnd_03_04, LastArc_03_04,
      ProcessBegin_03_04, ProcessEnd_03_04, ProcessThreads_03_04, ProcessHalt_03_04,
      ThreadBegin_03_04, ThreadEnd_03_04, Current_03_04
<1>2. [Next_03_04]_vars_03_04 <=> [Next]_vars
  BY <1>1 DEF vars_03_04, vars, jobVars_03_04, procVars_03_04, threadVars_03_04
<1> QED
  BY <1>2, PTL DEF Spec_03_04, Spec, Init_03_04

\* The tree of ch04-01 is that of ch04-03.
THEOREM TreeOf_04_01 == Spec_04_01 <=> Spec
<1>1. Next_04_01 <=> Next
  BY TaskParts
  DEF Next_04_01, Parts, ChildJobs_04_01, JobProcesses_04_01, JobEnd_04_01, LastArc_04_01,
      ProcessBegin_04_01, ProcessEnd_04_01, ProcessThreads_04_01, ProcessHalt_04_01,
      ThreadBegin_04_01, ThreadEnd_04_01, Current_04_01
<1>2. [Next_04_01]_vars_04_01 <=> [Next]_vars
  BY <1>1 DEF vars_04_01, vars, jobVars_04_01, procVars_04_01, threadVars_04_01
<1> QED
  BY <1>2, PTL DEF Spec_04_01, Spec, Init_04_01

\* Process::exit of ch02-02 keeps the links of the tree.
LEMMA ProcExitTree_02_02 ==
    ASSUME TypeOK, TreeOK, NEW a \in Actors, ProcExit_02_02(a)
    PROVE  TypeOK' /\ TreeOK'
<1>1. On(a) \in Procs /\ Arg(a) \in ExitCodes
  BY FrameKinds DEF ProcExit_02_02
<1>2. status' \in [Procs -> {"absent", "Init", "Running", "Exited"}]
      /\ retcode' \in [Procs -> ExitCodes \cup {None}]
  <2> HIDE DEF On, Arg
  <2> QED
    BY <1>1, ZenonT(60) DEF ProcExit_02_02, TypeOK
<1>3. pc' \in [Actors -> Frames] /\ lock' \in [Locks -> Actors \cup {None}]
  BY ReturnType DEF ProcExit_02_02
<1>4. UNCHANGED <<born, freed, parent, killed, children, processes, owner, threads,
                  tokens, home, tstate, tkilled, suspends, begun, runner, victims>>
  BY DEF ProcExit_02_02, jobVars, threadVars
<1>5. TypeOK'
  BY <1>2, <1>3, <1>4 DEF TypeOK
<1>6. LinksOK' /\ Grows
  BY <1>4 DEF TreeOK, LinksOK, Grows
<1>7. ActorsOK'
  <2>1. pc' = [pc EXCEPT ![a] = Idle] /\ victims' = [victims EXCEPT ![a] = victims[a]]
    BY <1>4 DEF ProcExit_02_02, Return, TypeOK
  <2>2. Exists(Idle.on)'
    BY Kinds DEF Exists, Idle, Frame
  <2>3. Members(victims[a]) \subseteq Killable'
    BY <1>4 DEF TreeOK, ActorsOK, Killable
  <2> QED
    BY <1>6, <2>1, <2>2, <2>3, ActorsStep DEF TreeOK
<1> QED
  BY <1>5, <1>6, <1>7 DEF TreeOK

\* The links of the tree agree in ch02-02, too, where an exit of a process
\* leaves its threads and its place in the job alone.
THEOREM TreeOf_02_02 == Spec_02_02 => [](TypeOK /\ TreeOK)
<1>1. Init_02_02 => TypeOK /\ TreeOK
  BY InitTypeOK, InitTreeOK DEF Init_02_02
<1>2. TypeOK /\ TreeOK /\ [Next_02_02]_vars_02_02 => (TypeOK /\ TreeOK)'
  <2> SUFFICES ASSUME TypeOK, TreeOK, [Next_02_02]_vars_02_02
               PROVE  (TypeOK /\ TreeOK)'
    OBVIOUS
  <2>1. ASSUME NEW a \in Actors, ProcExit_02_02(a) PROVE (TypeOK /\ TreeOK)'
    BY <2>1, ProcExitTree_02_02
  <2>2. ASSUME NEW a \in Actors, ChildJobs(a) \/ JobEnd(a) \/ LastArc(a)
        PROVE  Call(a) \/ Continue(a)
    BY <2>2 DEF ChildJobs, JobEnd, LastArc, Call, Continue
  <2>3. ASSUME NEW a \in Actors,
               \/ JobProcesses_02_02(a) \/ ThreadBegin_02_02(a) \/ ProcessThreads_02_02(a)
               \/ \E p \in Procs : ExitProcess(a, p)
        PROVE  Call(a)
    BY <2>3 DEF JobProcesses_02_02, ThreadBegin_02_02, ProcessThreads_02_02, Call
  <2>4. ASSUME NEW a \in Actors, Call(a) \/ Continue(a) PROVE (TypeOK /\ TreeOK)'
    BY <2>4, CallTypeOK, CallTreeOK, ContinueTypeOK, ContinueTreeOK
  <2>5. CASE UNCHANGED vars_02_02
    BY <2>5 DEF vars_02_02, jobVars_02_02, procVars_02_02, jobVars, procVars, threadVars,
                TypeOK, TreeOK, LinksOK, ActorsOK, Exists, Killable, On
  <2> QED
    BY <2>1, <2>2, <2>3, <2>4, <2>5
    DEF Next_02_02, ChildJobs_02_02, JobEnd_02_02, LastArc_02_02, ProcessEnd_02_02
<1> QED
  BY <1>1, <1>2, PTL DEF Spec_02_02

-----------------------------------------------------------------------------
(* The end of jobs, processes and threads.  What ends is out of its owner's *)
(* list, or somebody is on the way to take it out; for that a section has   *)
(* to know, when it comes to run, what its caller found.                    *)

\* A job that is doomed and holds nothing.
Ending(j) == (killed[j] \/ j \in freed) /\ Childless(j)

Knows(a) ==
    /\ At(a, "job.terminate") => Ending(On(a))
    /\ At(a, "job.remove_child") =>
         Arg(a) \in born \ {RootJob} /\ On(a) = parent[Arg(a)] /\ Ending(Arg(a))
    /\ At(a, "job.remove_process") => owner[Arg(a)] = On(a) /\ Exited(Arg(a))
    /\ At(a, "proc.remove_thread") => Arg(a) = a /\ On(a) = home[a]

\* A thread is started by one actor, and starts once.
StartsOnce ==
    /\ \A a \in Actors : At(a, "thread.start") =>
         /\ begun[On(a)] /\ runner[On(a)] = "none"
         /\ \A b \in Actors : At(b, "thread.start") /\ On(b) = On(a) => a = b
    /\ \A t \in Threads : /\ ~begun[t] => runner[t] = "none"
                          /\ tstate[t] = "Dead" => runner[t] = "gone"

JobsOK ==
    /\ freed \subseteq born \ {RootJob}
    /\ parent[RootJob] = None
    /\ \A j \in Jobs \ born : parent[j] = None /\ ~killed[j] /\ Childless(j)
    /\ \A j \in freed : Childless(j)
    /\ \A j \in born \ {RootJob} :
         IF j \in children[parent[j]] THEN Ending(j) => Leaving(j) ELSE Ending(j)

ProcsOK ==
    /\ \A p \in Procs : owner[p] = None <=> status[p] = "absent"
    /\ \A p \in Procs : retcode[p] # None => Exited(p)
    /\ \A p \in Procs : owner[p] # None /\ p \notin processes[owner[p]] => Exited(p)

EndsInv == /\ \A a \in Actors : Knows(a)
           /\ StartsOnce /\ JobsOK /\ ProcsOK
           /\ EmptyExitedProcessLeaves /\ ExitReachesThreads /\ DeadThreadLeaves

-----------------------------------------------------------------------------
\* What no step undoes.
Steady ==
    /\ born \subseteq born' /\ freed \subseteq freed'
    /\ \A j \in Jobs : killed[j] => killed'[j]
    /\ \A j \in born : parent'[j] = parent[j]
    /\ \A j \in Jobs : killed[j] \/ j \in freed =>
         children'[j] \subseteq children[j] /\ processes'[j] \subseteq processes[j]
    /\ \A p \in Procs : owner[p] # None => owner'[p] = owner[p]
    /\ \A p \in Procs : Exited(p) => Exited(p)'
    /\ \A t \in Threads : home[t] # None => home'[t] = home[t]

LEMMA SteadyStep ==
    ASSUME TypeOK, TreeOK, ProcsOK, [Next]_vars
    PROVE  Steady
<1>1. ASSUME UNCHANGED <<jobVars, owner, status, home>> PROVE Steady
  BY <1>1 DEF Steady, jobVars, Exited
<1>2. \A p \in Procs : Exited(p) => Exited(p)'
  BY ExitStep DEF AbsentOK, ProcsOK, StaysExited, Exited
<1>3. ASSUME NEW a \in Actors, Call(a) PROVE Steady
  <2>1. ASSUME NEW j \in Jobs, NEW c \in Jobs, CreateJob(a, j, c) PROVE Steady
    BY <1>2, <2>1 DEF CreateJob, Adopt, Accepts, Steady, procVars, TypeOK
  <2>2. ASSUME NEW j \in Jobs, NEW p \in Procs, CreateProcess(a, j, p) PROVE Steady
    BY <1>2, <2>2 DEF CreateProcess, Accepts, Steady, TypeOK
  <2>3. ASSUME NEW j \in Jobs, DropJob(a, j) PROVE Steady
    BY <1>2, <2>3 DEF DropJob, Steady, procVars
  <2>4. ASSUME NEW p \in Procs, NEW t \in Threads, StartProcess(a, p, t) PROVE Steady
    BY <1>2, <2>4 DEF StartProcess, Steady, jobVars
  <2>5. ASSUME NEW p \in Procs, NEW t \in Threads, CreateThread(a, p, t) PROVE Steady
    BY <1>2, <2>5 DEF CreateThread, Steady, jobVars, TypeOK
  <2>6. ASSUME NEW j \in Jobs, KillJob(a, j) PROVE Steady
    BY <1>1, <2>6 DEF KillJob, procVars
  <2>7. ASSUME NEW p \in Procs,
               ExitProcess(a, p) \/ SuspendProcess(a, p) \/ ResumeProcess(a, p)
        PROVE Steady
    BY <1>1, <2>7 DEF ExitProcess, SuspendProcess, ResumeProcess, WalkProcess, procVars
  <2>8. ASSUME NEW t \in Threads, StartThread(a, t) \/ KillThread(a, t) PROVE Steady
    BY <1>1, <2>8 DEF StartThread, KillThread, procVars
  <2> QED
    BY <1>3, <2>1, <2>2, <2>3, <2>4, <2>5, <2>6, <2>7, <2>8 DEF Call
<1>4. ASSUME NEW a \in Actors, Continue(a) PROVE Steady
  <2>1. CASE JobKill(a)
    <3>0. PICK j : j = On(a)
      OBVIOUS
    <3> QED
      BY <1>2, <2>1, <3>0 DEF JobKill, Steady, procVars, threadVars, TypeOK
  <2>2. CASE RemoveChild(a) \/ RemoveProcess(a)
    <3>1. UNCHANGED <<born, freed, parent, killed, owner, home>>
      BY <2>2 DEF RemoveChild, RemoveProcess, procVars, threadVars
    <3>2. /\ UNCHANGED children \/ \E k, c : children' = [children EXCEPT ![k] = @ \ {c}]
          /\ UNCHANGED processes \/ \E k, p : processes' = [processes EXCEPT ![k] = @ \ {p}]
      BY <2>2 DEF RemoveChild, RemoveProcess
    <3>4. children \in [Jobs -> SUBSET Jobs] /\ processes \in [Jobs -> SUBSET Procs]
      BY DEF TypeOK
    <3>5. \A j \in Jobs : children'[j] \subseteq children[j]
      BY <3>2, <3>4, TakenOut
    <3>6. \A j \in Jobs : processes'[j] \subseteq processes[j]
      BY <3>2, <3>4, TakenOut
    <3>3. \A j \in Jobs : children'[j] \subseteq children[j] /\ processes'[j] \subseteq processes[j]
      BY <3>5, <3>6
    <3> QED
      BY <1>2, <3>1, <3>3 DEF Steady
  <2>3. CASE ProcExit(a) \/ ProcTerminate(a) \/ RemoveThread(a)
    BY <1>2, <2>3 DEF ProcExit, ProcTerminate, RemoveThread, Steady, jobVars, threadVars
  <2>4. \/ JobKill(a) \/ RemoveChild(a) \/ RemoveProcess(a)
        \/ ProcExit(a) \/ ProcTerminate(a) \/ RemoveThread(a)
        \/ UNCHANGED <<jobVars, owner, status, home>>
    BY <1>4 DEF Continue, ThreadStart, KillLoop, KillNext, JobTerminate, ProcKilling,
                ProcSuspending, ProcResuming, procVars, threadVars
  <2> QED
    BY <1>1, <2>1, <2>2, <2>3, <2>4
<1>5. ASSUME NEW t \in Threads, Run(t) PROVE Steady
  BY <1>1, <1>5 DEF Run, ExitThread, RunThread, Trap, DropThread, procVars
<1>6. CASE UNCHANGED vars
  BY <1>1, <1>6 DEF vars, procVars, threadVars
<1> QED
  BY <1>3, <1>4, <1>5, <1>6 DEF Next

\* What a section knows stays true until it runs.
LEMMA KnowsStays ==
    ASSUME TypeOK, TreeOK, Steady, NEW a \in Actors, Knows(a), pc'[a] = pc[a]
    PROVE  Knows(a)'
<1>1. ASSUME NEW j \in Jobs, Ending(j) PROVE Ending(j)'
  BY <1>1 DEF Steady, Ending, Childless
<1>2. CASE At(a, "job.terminate")
  BY <1>1, <1>2, FrameKinds DEF Knows, At, On
<1>3. CASE At(a, "job.remove_child")
  BY <1>1, <1>3, FrameKinds DEF Knows, At, On, Arg, Steady
<1>4. CASE At(a, "job.remove_process")
  BY <1>4, FrameKinds, Kinds DEF Knows, At, On, Arg, Steady
<1>5. CASE At(a, "proc.remove_thread")
  BY <1>5, FrameKinds, Kinds DEF Knows, At, On, Arg, Steady
<1> QED
  BY <1>2, <1>3, <1>4, <1>5 DEF Knows, At

\* How an actor comes to the section it runs next.
ToStart(b) == \E t \in Threads :
    /\ StartThread(b, t) \/ \E p \in Procs : StartProcess(b, p, t)
    /\ pc'[b] = Frame("thread.start", t, None)
ToKill(b) == \E j \in Jobs : pc'[b] = Frame("job.kill", j, None)
ToTerminate(b) == \E j \in Jobs :
    /\ \/ DropJob(b, j)
       \/ JobKill(b) /\ On(b) = j /\ Childless(j)
       \/ /\ RemoveChild(b) \/ RemoveProcess(b)
          /\ On(b) = j /\ killed[j] /\ Childless(j)'
    /\ pc'[b] = Frame("job.terminate", j, None)
ToRemoveChild(b) == \E j \in Jobs :
    /\ JobTerminate(b) /\ On(b) = j /\ j # RootJob
    /\ pc'[b] = Frame("job.remove_child", parent[j], j)
ToExit(b) == \E p \in Procs : \E c \in ExitCodes : pc'[b] = Frame("proc.exit", p, c)
ToProcTerminate(b) == \E p \in Procs :
    /\ \/ ProcExit(b) /\ status[p] # "Exited" /\ threads[p] = {}
       \/ RemoveThread(b) /\ threads'[p] = {}
    /\ On(b) = p
    /\ pc'[b] = Frame("proc.terminate", p, None)
ToRemoveProcess(b) == \E p \in Procs :
    /\ ProcTerminate(b) /\ On(b) = p
    /\ pc'[b] = Frame("job.remove_process", owner[p], p)
ToKilling(b) == \E p \in Procs :
    /\ ProcExit(b) /\ On(b) = p
    /\ status[p] # "Exited" /\ threads[p] # {}
    /\ pc'[b] = Walk("proc.killing", p, threads[p])
KillingOn(b) == \E p \in Procs : \E t \in Left(b) :
    /\ ProcKilling(b) /\ On(b) = p /\ Stop(t, TRUE) /\ Left(b) # {t}
    /\ pc'[b] = Walk("proc.killing", p, Left(b) \ {t})
ToWalk(b) == \E p \in Procs :
    /\ \/ SuspendProcess(b, p) \/ ResumeProcess(b, p)
       \/ ProcSuspending(b) \/ ProcResuming(b)
    /\ \E left : \E at \in {"proc.suspending", "proc.resuming"} : pc'[b] = Walk(at, p, left)
ToRemoveThread(b) ==
    b \in Threads /\ DropThread(b) /\ pc'[b] = Frame("proc.remove_thread", home[b], b)

LEMMA Moves ==
    ASSUME TypeOK, TreeOK, [Next]_vars, NEW b \in Actors, pc'[b] # pc[b]
    PROVE  \/ pc'[b] = Idle
           \/ ToStart(b) \/ ToKill(b) \/ ToTerminate(b) \/ ToRemoveChild(b)
           \/ ToExit(b) \/ ToProcTerminate(b) \/ ToRemoveProcess(b) \/ ToKilling(b)
           \/ KillingOn(b) \/ ToWalk(b) \/ ToRemoveThread(b)
<1> USE DEF Enter
<1>0. ASSUME NEW a \in Actors, NEW f, pc' = [pc EXCEPT ![a] = f] PROVE a = b /\ pc'[b] = f
  BY <1>0 DEF TypeOK
<1>1. ASSUME NEW a \in Actors, Call(a) PROVE a = b /\
           \/ ToStart(b) \/ ToKill(b) \/ ToExit(b) \/ ToWalk(b)
           \/ \E j \in Jobs : DropJob(b, j) /\ pc'[b] = Frame("job.terminate", j, None)
  <2>1. ASSUME NEW j \in Jobs, KillJob(a, j) PROVE a = b /\ pc'[b] = Frame("job.kill", j, None)
    BY <1>0, <2>1 DEF KillJob
  <2>2. ASSUME NEW j \in Jobs, DropJob(a, j) PROVE a = b /\ pc'[b] = Frame("job.terminate", j, None)
    BY <1>0, <2>2 DEF DropJob
  <2>3. ASSUME NEW t \in Threads, StartThread(a, t) \/ \E p \in Procs : StartProcess(a, p, t)
        PROVE  a = b /\ pc'[b] = Frame("thread.start", t, None)
    BY <1>0, <2>3 DEF StartThread, StartProcess
  <2>4. ASSUME NEW p \in Procs, ExitProcess(a, p) PROVE a = b /\ pc'[b] = Frame("proc.exit", p, "user")
    BY <1>0, <2>4 DEF ExitProcess
  <2>5. ASSUME NEW p \in Procs, SuspendProcess(a, p)
        PROVE  a = b /\ pc'[b] = Walk("proc.suspending", p, threads[p])
    BY <1>0, <2>5 DEF SuspendProcess, WalkProcess
  <2>6. ASSUME NEW p \in Procs, ResumeProcess(a, p)
        PROVE  a = b /\ pc'[b] = Walk("proc.resuming", p, threads[p])
    BY <1>0, <2>6 DEF ResumeProcess, WalkProcess
  <2>7. ASSUME NEW j \in Jobs, (\E c \in Jobs : CreateJob(a, j, c)) \/ (\E p \in Procs : CreateProcess(a, j, p))
        PROVE  FALSE
    BY <2>7 DEF CreateJob, CreateProcess
  <2>8. ASSUME NEW p \in Procs, NEW t \in Threads, CreateThread(a, p, t) PROVE FALSE
    BY <2>8 DEF CreateThread
  <2>9. ASSUME NEW t \in Threads, KillThread(a, t) PROVE FALSE
    BY <2>9 DEF KillThread
  <2> QED
    <3>1. "user" \in ExitCodes
      BY DEF ExitCodes
    <3> QED
      BY <1>1, <2>1, <2>2, <2>3, <2>4, <2>5, <2>6, <2>7, <2>8, <2>9, <3>1
         DEF Call, ToStart, ToKill, ToExit, ToWalk
<1>2. ASSUME NEW a \in Actors, JobKill(a)
      PROVE  /\ a = b /\ On(a) \in Jobs
             /\ \/ pc'[b] = Idle
                \/ Childless(On(a)) /\ pc'[b] = Frame("job.terminate", On(a), None)
  BY <1>0, <1>2, FrameKinds DEF JobKill
<1>3. ASSUME NEW a \in Actors, KillLoop(a)
      PROVE  /\ a = b
             /\ \/ pc'[b] = Idle
                \/ \E j \in Jobs : pc'[b] = Frame("job.kill", j, None)
                \/ \E p \in Procs : pc'[b] = Frame("proc.exit", p, "kill")
  <2>1. PICK v \in Head(victims[a]) :
           pc' = [pc EXCEPT ![a] = IF v \in freed THEN Idle
                       ELSE IF v \in Jobs THEN Frame("job.kill", v, None)
                       ELSE Frame("proc.exit", v, "kill")]
    BY <1>3 DEF KillLoop, KillNext
  <2>2. v \in Jobs \cup Procs
    BY <1>3, <2>1, MembersSplit DEF KillLoop, TypeOK
  <2> QED
    BY <1>0, <2>1, <2>2
<1>4. ASSUME NEW a \in Actors, JobTerminate(a)
      PROVE  /\ a = b /\ On(a) \in Jobs
             /\ \/ pc'[b] = Idle
                \/ On(a) # RootJob /\ pc'[b] = Frame("job.remove_child", parent[On(a)], On(a))
  BY <1>0, <1>4, FrameKinds DEF JobTerminate, Return
<1>5. ASSUME NEW a \in Actors, RemoveChild(a) \/ RemoveProcess(a)
      PROVE  /\ a = b
             /\ \/ pc'[b] = Idle
                \/ \E j \in Jobs : /\ On(a) = j /\ killed[j] /\ Childless(j)'
                                   /\ pc'[b] = Frame("job.terminate", j, None)
  <2>0. PICK j : j = On(a)
    OBVIOUS
  <2>1. j \in Jobs /\ TerminateIfEmpty(a, j)
    BY <1>5, <2>0, FrameKinds DEF RemoveChild, RemoveProcess
  <2>2. \/ pc' = [pc EXCEPT ![a] = Idle]
        \/ /\ killed[j] /\ Childless(j)'
           /\ pc' = [pc EXCEPT ![a] = Frame("job.terminate", j, None)]
    BY <2>1 DEF TerminateIfEmpty, Return, Childless
  <2> QED
    BY <1>0, <2>0, <2>1, <2>2
<1>6. ASSUME NEW a \in Actors, ProcExit(a)
      PROVE  /\ a = b /\ On(a) \in Procs
             /\ \/ pc'[b] = Idle
                \/ /\ status[On(a)] # "Exited" /\ threads[On(a)] = {}
                   /\ pc'[b] = Frame("proc.terminate", On(a), None)
                \/ /\ status[On(a)] # "Exited" /\ threads[On(a)] # {}
                   /\ pc'[b] = Walk("proc.killing", On(a), threads[On(a)])
  BY <1>0, <1>6, FrameKinds DEF ProcExit, Return
<1>7. ASSUME NEW a \in Actors, NEW t \in Left(a), WalkOn(a, t)
      PROVE  /\ a = b
             /\ \/ pc'[b] = Idle
                \/ Left(a) # {t} /\ pc'[b] = Walk(pc[a].at, On(a), Left(a) \ {t})
  BY <1>0, <1>7 DEF WalkOn, Return
<1>8. ASSUME NEW a \in Actors, ProcKilling(a)
      PROVE  /\ a = b /\ On(a) \in Procs
             /\ \/ pc'[b] = Idle
                \/ \E t \in Left(a) :
                     /\ Stop(t, TRUE) /\ Left(a) # {t}
                     /\ pc'[b] = Walk("proc.killing", On(a), Left(a) \ {t})
  BY <1>7, <1>8, FrameKinds DEF ProcKilling, At
<1>9. ASSUME NEW a \in Actors, ProcSuspending(a) \/ ProcResuming(a)
      PROVE  /\ a = b /\ On(a) \in Procs
             /\ \/ pc'[b] = Idle
                \/ \E t \in Left(a) : \/ pc'[b] = Walk("proc.suspending", On(a), Left(a) \ {t})
                                      \/ pc'[b] = Walk("proc.resuming", On(a), Left(a) \ {t})
  BY <1>7, <1>9, FrameKinds DEF ProcSuspending, ProcResuming, At
<1>10. ASSUME NEW a \in Actors, ProcTerminate(a)
       PROVE  /\ a = b /\ On(a) \in Procs
              /\ pc'[b] = Frame("job.remove_process", owner[On(a)], On(a))
  BY <1>0, <1>10, FrameKinds DEF ProcTerminate
<1>11. ASSUME NEW a \in Actors, RemoveThread(a)
       PROVE  /\ a = b
              /\ \/ pc'[b] = Idle
                 \/ \E p \in Procs : /\ On(a) = p /\ threads'[p] = {}
                                     /\ pc'[b] = Frame("proc.terminate", p, None)
  BY <1>0, <1>11, FrameKinds DEF RemoveThread, LastThread, Return
<1>12. ASSUME NEW a \in Actors, ThreadStart(a) PROVE a = b /\ pc'[b] = Idle
  BY <1>0, <1>12 DEF ThreadStart, Return
<1>13. ASSUME NEW t \in Threads, Run(t)
       PROVE  b = t /\ DropThread(t) /\ pc'[b] = Frame("proc.remove_thread", home[t], t)
  <2>1. UNCHANGED pc \/ DropThread(t)
    BY <1>13 DEF Run, ExitThread, RunThread, Trap
  <2>2. DropThread(t)
    BY <2>1
  <2>3. PICK f : f = Frame("proc.remove_thread", home[t], t)
    OBVIOUS
  <2>4. pc' = [pc EXCEPT ![t] = f]
    BY <2>2, <2>3 DEF DropThread
  <2> QED
    BY <1>0, <2>2, <2>3, <2>4
<1>14. ASSUME NEW a \in Actors, Continue(a)
       PROVE  \/ ThreadStart(a) \/ JobKill(a) \/ KillLoop(a) \/ JobTerminate(a)
              \/ RemoveChild(a) \/ RemoveProcess(a) \/ ProcExit(a) \/ ProcKilling(a)
              \/ ProcSuspending(a) \/ ProcResuming(a) \/ ProcTerminate(a) \/ RemoveThread(a)
  BY <1>14 DEF Continue
<1>15. ~UNCHANGED vars
  BY DEF vars
<1>16. ASSUME NEW a \in Actors, Continue(a)
       PROVE  b = a
  BY <1>2, <1>3, <1>4, <1>5, <1>6, <1>8, <1>9, <1>10, <1>11, <1>12, <1>14, <1>16
<1>17. Call(b) \/ Continue(b) \/ \E t \in Threads : b = t /\ Run(t)
  BY <1>1, <1>13, <1>15, <1>16 DEF Next
<1> HIDE DEF Enter
<1>18. CASE Call(b)
  BY <1>1, <1>18 DEF ToTerminate
<1>19. CASE JobKill(b) \/ RemoveChild(b) \/ RemoveProcess(b)
  BY <1>2, <1>5, <1>19 DEF ToTerminate
<1>20. CASE KillLoop(b)
  <2>1. "kill" \in ExitCodes
    BY DEF ExitCodes
  <2> QED
    BY <1>3, <1>20, <2>1 DEF ToKill, ToExit
<1>21. CASE JobTerminate(b)
  BY <1>4, <1>21 DEF ToRemoveChild
<1>22. CASE ProcExit(b)
  BY <1>6, <1>22 DEF ToProcTerminate, ToKilling
<1>23. CASE ProcKilling(b)
  BY <1>8, <1>23 DEF KillingOn
<1>24. CASE ProcSuspending(b) \/ ProcResuming(b)
  BY <1>9, <1>24 DEF ToWalk
<1>25. CASE ProcTerminate(b)
  BY <1>10, <1>25 DEF ToRemoveProcess
<1>26. CASE RemoveThread(b)
  BY <1>11, <1>26 DEF ToProcTerminate
<1>27. CASE ThreadStart(b)
  BY <1>12, <1>27
<1>28. CASE \E t \in Threads : b = t /\ Run(t)
  BY <1>13, <1>28 DEF ToRemoveThread
<1> QED
  BY <1>14, <1>17, <1>18, <1>19, <1>20, <1>21, <1>22, <1>23, <1>24, <1>25, <1>26, <1>27, <1>28

\* The label of a section tells how its actor came to it.
LEMMA Labels ==
    ASSUME TypeOK, TreeOK, [Next]_vars, NEW b \in Actors, pc'[b] # pc[b]
    PROVE  /\ At(b, "thread.start")' => ToStart(b)
           /\ At(b, "job.terminate")' => ToTerminate(b)
           /\ At(b, "job.remove_child")' => ToRemoveChild(b)
           /\ At(b, "proc.terminate")' => ToProcTerminate(b)
           /\ At(b, "job.remove_process")' => ToRemoveProcess(b)
           /\ At(b, "proc.killing")' => ToKilling(b) \/ KillingOn(b)
           /\ At(b, "proc.remove_thread")' => ToRemoveThread(b)
           /\ At(b, "proc.suspending")' \/ At(b, "proc.resuming")' => ToWalk(b)
<1>1. pc'[b] = Idle => pc'[b].at = "idle"
  BY DEF Idle, Frame
<1>2. /\ ToStart(b) => pc'[b].at = "thread.start"
      /\ ToKill(b) => pc'[b].at = "job.kill"
      /\ ToTerminate(b) => pc'[b].at = "job.terminate"
      /\ ToRemoveChild(b) => pc'[b].at = "job.remove_child"
      /\ ToExit(b) => pc'[b].at = "proc.exit"
      /\ ToProcTerminate(b) => pc'[b].at = "proc.terminate"
      /\ ToRemoveProcess(b) => pc'[b].at = "job.remove_process"
      /\ ToKilling(b) => pc'[b].at = "proc.killing"
      /\ KillingOn(b) => pc'[b].at = "proc.killing"
      /\ ToWalk(b) => pc'[b].at \in {"proc.suspending", "proc.resuming"}
      /\ ToRemoveThread(b) => pc'[b].at = "proc.remove_thread"
  <2>1. ToStart(b) => pc'[b].at = "thread.start"
    BY DEF ToStart, Frame
  <2>2. ToKill(b) => pc'[b].at = "job.kill"
    BY DEF ToKill, Frame
  <2>3. ToTerminate(b) => pc'[b].at = "job.terminate"
    BY DEF ToTerminate, Frame
  <2>4. ToRemoveChild(b) => pc'[b].at = "job.remove_child"
    BY DEF ToRemoveChild, Frame
  <2>5. ToExit(b) => pc'[b].at = "proc.exit"
    BY DEF ToExit, Frame
  <2>6. ToProcTerminate(b) => pc'[b].at = "proc.terminate"
    BY DEF ToProcTerminate, Frame
  <2>7. ToRemoveProcess(b) => pc'[b].at = "job.remove_process"
    BY DEF ToRemoveProcess, Frame
  <2>8. ToKilling(b) => pc'[b].at = "proc.killing"
    BY DEF ToKilling, Walk
  <2>9. KillingOn(b) => pc'[b].at = "proc.killing"
    BY DEF KillingOn, Walk
  <2>10. ToWalk(b) => pc'[b].at \in {"proc.suspending", "proc.resuming"}
    BY DEF ToWalk, Walk
  <2>11. ToRemoveThread(b) => pc'[b].at = "proc.remove_thread"
    BY DEF ToRemoveThread, Frame
  <2> QED
    BY <2>1, <2>2, <2>3, <2>4, <2>5, <2>6, <2>7, <2>8, <2>9, <2>10, <2>11
<1> QED
  BY <1>1, <1>2, Moves DEF At

\* Nothing is left in a job that nobody refers to.
LEMMA UnreferencedEmpty ==
    ASSUME TypeOK, TreeOK, EndsInv, NEW j \in Jobs, Unreferenced(j)
    PROVE  Childless(j)
<1>1. ASSUME NEW c \in children[j] PROVE FALSE
  <2>1. c \in born \ {RootJob} /\ parent[c] = j
    BY <1>1 DEF TreeOK, LinksOK
  <2>2. Gone(c)
    BY <2>1 DEF Unreferenced
  <2>3. Ending(c)
    BY <2>2 DEF Gone, EndsInv, JobsOK, Ending
  <2>4. Leaving(c)
    BY <1>1, <2>1, <2>3 DEF EndsInv, JobsOK
  <2>5. PICK a \in Actors : Entering(a, "job.terminate", c)
                            \/ (At(a, "job.remove_child") /\ Arg(a) = c)
    BY <2>4 DEF Leaving
  <2>6. CASE Entering(a, "job.terminate", c)
    BY <2>2, <2>6 DEF Entering, On, Gone
  <2>7. CASE At(a, "job.remove_child") /\ Arg(a) = c
    <3>1. On(a) = j
      BY <2>1, <2>7 DEF EndsInv, Knows
    <3> QED
      BY <3>1 DEF Unreferenced, On
  <2> QED
    BY <2>5, <2>6, <2>7
<1>2. processes[j] = {}
  BY DEF TreeOK, LinksOK, Unreferenced, TypeOK
<1> QED
  BY <1>1, <1>2 DEF Childless

LEMMA KnowsStep ==
    ASSUME TypeOK, TreeOK, EndsInv, [Next]_vars, NEW b \in Actors
    PROVE  Knows(b)'
<1>0. Steady
  BY SteadyStep DEF EndsInv
<1>1. CASE pc'[b] = pc[b]
  BY <1>0, <1>1, KnowsStays DEF EndsInv
<1> SUFFICES ASSUME pc'[b] # pc[b] PROVE Knows(b)'
  BY <1>1
<1>2. ASSUME At(b, "job.terminate")' PROVE Ending(On(b))'
  <2>1. PICK j \in Jobs :
           /\ \/ DropJob(b, j)
              \/ JobKill(b) /\ On(b) = j /\ Childless(j)
              \/ /\ RemoveChild(b) \/ RemoveProcess(b)
                 /\ On(b) = j /\ killed[j] /\ Childless(j)'
           /\ pc'[b] = Frame("job.terminate", j, None)
    BY <1>2, Labels DEF ToTerminate
  <2>2. CASE DropJob(b, j)
    <3>1. Childless(j)
      BY <2>2, UnreferencedEmpty DEF DropJob
    <3> QED
      BY <2>1, <2>2, <3>1 DEF DropJob, On, Ending, Childless, Frame
  <2>3. CASE JobKill(b) /\ On(b) = j /\ Childless(j)
    BY <2>1, <2>3 DEF JobKill, On, Ending, Childless, Frame, TypeOK
  <2>4. CASE /\ RemoveChild(b) \/ RemoveProcess(b)
             /\ On(b) = j /\ killed[j] /\ Childless(j)'
    BY <2>1, <2>4 DEF RemoveChild, RemoveProcess, On, Ending, Frame
  <2> QED
    BY <2>1, <2>2, <2>3, <2>4
<1>3. ASSUME At(b, "job.remove_child")'
      PROVE  Arg(b)' \in (born \ {RootJob})' /\ On(b)' = parent'[Arg(b)'] /\ Ending(Arg(b))'
  <2>1. PICK j \in Jobs : /\ JobTerminate(b) /\ On(b) = j /\ j # RootJob
                          /\ pc'[b] = Frame("job.remove_child", parent[j], j)
    BY <1>3, Labels DEF ToRemoveChild
  <2>2. Ending(j) /\ j \in born \ {RootJob}
    BY <2>1 DEF EndsInv, Knows, JobTerminate, TreeOK, ActorsOK, Exists
  <2>3. UNCHANGED jobVars
    BY <2>1 DEF JobTerminate
  <2> QED
    BY <2>1, <2>2, <2>3 DEF On, Arg, Ending, Childless, Frame, jobVars
<1>4. ASSUME At(b, "job.remove_process")'
      PROVE  owner'[Arg(b)'] = On(b)' /\ Exited(Arg(b))'
  <2>1. PICK p \in Procs : /\ ProcTerminate(b) /\ On(b) = p
                           /\ pc'[b] = Frame("job.remove_process", owner[p], p)
    BY <1>4, Labels DEF ToRemoveProcess
  <2> QED
    BY <2>1 DEF ProcTerminate, On, Arg, Frame, Exited, TypeOK
<1>5. ASSUME At(b, "proc.remove_thread")'
      PROVE  Arg(b)' = b /\ On(b)' = home'[b]
  <2>1. ToRemoveThread(b)
    BY <1>5, Labels
  <2> QED
    BY <2>1 DEF ToRemoveThread, DropThread, On, Arg, Frame
<1> QED
  BY <1>2, <1>3, <1>4, <1>5 DEF Knows

-----------------------------------------------------------------------------
(* A thread starts once and its runner ends once *)

\* What a call leaves in the runner fields.
LEMMA LoopRunner ==
    ASSUME TypeOK, NEW a \in Actors, NEW call, MayCall(a, call), Loop(a), NEW t \in Threads
    PROVE  /\ runner[t] \in {"none", "gone"} => runner'[t] = runner[t]
           /\ runner'[t] = "gone" => runner[t] = "gone"
<1>1. CASE a = t
  BY <1>1 DEF MayCall, Loop, TypeOK
<1>2. CASE a # t
  BY <1>2 DEF Loop, TypeOK
<1> QED
  BY <1>1, <1>2

LEMMA RunnerStep ==
    ASSUME TypeOK, StartsOnce, [Next]_vars, NEW t \in Threads
    PROVE  /\ begun[t] => begun'[t]
           /\ runner[t] = "none" =>
                runner'[t] = "none" \/ \E a \in Actors : ThreadStart(a) /\ On(a) = t
           /\ runner[t] = "gone" => runner'[t] = "gone"
           /\ tstate'[t] = "Dead" =>
                (tstate[t] = "Dead" /\ ~ \E a \in Actors : ThreadStart(a) /\ On(a) = t)
                \/ DropThread(t)
<1> DEFINE R == /\ begun[t] => begun'[t]
                /\ runner[t] \in {"none", "gone"} => runner'[t] = runner[t]
           S == tstate'[t] = "Dead" => tstate[t] = "Dead"
<1>1. ASSUME NEW a \in Actors, Call(a) PROVE R /\ S
  <2>1. \A call : MayCall(a, call) /\ Loop(a) =>
           (runner[t] \in {"none", "gone"} => runner'[t] = runner[t])
    BY LoopRunner
  <2>2. ASSUME NEW j \in Jobs, NEW c \in Jobs, CreateJob(a, j, c) PROVE R /\ S
    BY <2>1, <2>2 DEF CreateJob
  <2>3. ASSUME NEW j \in Jobs, NEW p \in Procs, CreateProcess(a, j, p) PROVE R /\ S
    BY <2>1, <2>3 DEF CreateProcess
  <2>4. ASSUME NEW j \in Jobs, KillJob(a, j) PROVE R /\ S
    BY <2>1, <2>4 DEF KillJob
  <2>5. ASSUME NEW j \in Jobs, DropJob(a, j) PROVE R /\ S
    BY <2>1, <2>5 DEF DropJob
  <2>6. ASSUME NEW p \in Procs, NEW u \in Threads, StartProcess(a, p, u) PROVE R /\ S
    BY <2>1, <2>6 DEF StartProcess, TypeOK
  <2>7. ASSUME NEW p \in Procs, NEW u \in Threads, CreateThread(a, p, u) PROVE R /\ S
    BY <2>1, <2>7 DEF CreateThread
  <2>8. ASSUME NEW p \in Procs, ExitProcess(a, p) PROVE R /\ S
    BY <2>1, <2>8 DEF ExitProcess
  <2>9. ASSUME NEW p \in Procs, SuspendProcess(a, p) \/ ResumeProcess(a, p) PROVE R /\ S
    BY <2>1, <2>9 DEF SuspendProcess, ResumeProcess, WalkProcess
  <2>10. ASSUME NEW u \in Threads, StartThread(a, u) PROVE R /\ S
    BY <2>1, <2>10 DEF StartThread, TypeOK
  <2>11. ASSUME NEW u \in Threads, KillThread(a, u) PROVE R /\ S
    BY <2>1, <2>11 DEF KillThread, Stop, Stopped, TypeOK
  <2> QED
    BY <1>1, <2>2, <2>3, <2>4, <2>5, <2>6, <2>7, <2>8, <2>9, <2>10, <2>11 DEF Call
<1>2. ASSUME NEW a \in Actors, ThreadStart(a)
      PROVE  /\ begun[t] => begun'[t]
             /\ On(a) # t => R /\ S
             /\ On(a) = t => runner[t] = "none" /\ tstate'[t] = "Running"
  <2>1. PICK u \in Threads : u = On(a)
    BY <1>2, FrameKinds DEF ThreadStart
  <2> QED
    BY <1>2, <2>1 DEF ThreadStart, TypeOK, StartsOnce
<1>3. ASSUME NEW a \in Actors, Continue(a), ~ThreadStart(a) PROVE R /\ S
  <2>1. CASE ProcKilling(a)
    <3>1. PICK u \in Left(a) : Stop(u, TRUE)
      BY <2>1 DEF ProcKilling
    <3>2. S
      BY <3>1 DEF Stop, Stopped, TypeOK
    <3> QED
      BY <2>1, <3>2 DEF ProcKilling
  <2>2. CASE UNCHANGED <<begun, runner, tstate>>
    BY <2>2
  <2> QED
    BY <1>3, <2>1, <2>2 DEF Continue, JobKill, KillLoop, KillNext, JobTerminate, RemoveChild,
       RemoveProcess, ProcExit, ProcSuspending, ProcResuming, ProcTerminate, RemoveThread,
       threadVars
<1>4. ASSUME NEW u \in Threads, Run(u) PROVE R /\ (S \/ DropThread(t))
  <2>1. CASE ExitThread(u)
    <3>1. MayCall(u, "exitThread") /\ Loop(u) /\ UNCHANGED begun /\ Stop(u, FALSE)
      BY <2>1 DEF ExitThread
    <3>2. R
      BY <3>1, LoopRunner
    <3>3. S
      BY <3>1 DEF Stop, Stopped, TypeOK
    <3> QED
      BY <3>2, <3>3
  <2>2. CASE RunThread(u) \/ Trap(u) \/ DropThread(u)
    BY <2>2 DEF RunThread, Trap, DropThread, LoopEnds, TypeOK
  <2> QED
    BY <1>4, <2>1, <2>2 DEF Run
<1>5. ASSUME UNCHANGED vars PROVE R /\ S
  BY <1>5 DEF vars, threadVars
<1>6. ASSUME NEW a \in Actors, ThreadStart(a), On(a) = t
      PROVE  /\ begun[t] => begun'[t]
             /\ runner[t] # "gone"
             /\ tstate'[t] # "Dead"
  BY <1>2, <1>6
<1>7. CASE \E a \in Actors : ThreadStart(a) /\ On(a) = t
  BY <1>6, <1>7
<1>8. CASE ~ \E a \in Actors : ThreadStart(a) /\ On(a) = t
  <2>1. R /\ (S \/ DropThread(t))
    BY <1>1, <1>2, <1>3, <1>4, <1>5, <1>8 DEF Next
  <2> QED
    BY <1>8, <2>1
<1> QED
  BY <1>7, <1>8

LEMMA StartsOnceStep ==
    ASSUME TypeOK, TreeOK, StartsOnce, [Next]_vars
    PROVE  StartsOnce'
<1>1. ASSUME NEW a \in Actors, ToStart(a)
      PROVE  /\ \A b \in Actors : b # a => pc'[b] = pc[b]
             /\ On(a)' \in Threads /\ ~begun[On(a)'] /\ begun'[On(a)']
             /\ runner[On(a)'] = "none" /\ runner'[On(a)'] = "none"
  <2>1. PICK t \in Threads : /\ StartThread(a, t) \/ \E p \in Procs : StartProcess(a, p, t)
                             /\ pc'[a] = Frame("thread.start", t, None)
    BY <1>1 DEF ToStart
  <2>2. On(a)' = t
    BY <2>1 DEF On, Frame
  <2>3. ~begun[t] /\ begun'[t] /\ runner[t] = "none" /\ \A b \in Actors : b # a => pc'[b] = pc[b]
    BY <2>1 DEF StartThread, StartProcess, TypeOK, Enter, StartsOnce
  <2>4. runner'[t] = runner[t]
    BY <2>1, <2>3, LoopRunner DEF StartThread, StartProcess
  <2> QED
    BY <2>1, <2>2, <2>3, <2>4
<1>2. ASSUME NEW a \in Actors, At(a, "thread.start")'
      PROVE  \/ pc'[a] = pc[a] /\ At(a, "thread.start")
             \/ pc'[a] # pc[a] /\ ToStart(a)
  BY <1>2, Labels DEF At
<1>3. ASSUME NEW a \in Actors, At(a, "thread.start"), pc'[a] = pc[a]
      PROVE  /\ On(a)' = On(a)
             /\ begun[On(a)] /\ begun'[On(a)] /\ runner'[On(a)] = "none"
  <2>1. PICK t \in Threads : t = On(a)
    BY <1>3, FrameKinds
  <2>2. begun[t] /\ runner[t] = "none" /\ begun'[t]
    BY <1>3, <2>1, RunnerStep DEF StartsOnce
  <2>3. ASSUME NEW b \in Actors, ThreadStart(b), On(b) = t PROVE FALSE
    <3>1. b = a
      BY <1>3, <2>1, <2>3 DEF StartsOnce, ThreadStart
    <3>2. pc'[a] = Idle
      BY <2>3, <3>1 DEF ThreadStart, Return, TypeOK
    <3> QED
      BY <1>3, <3>2 DEF At, Idle, Frame
  <2>4. runner'[t] = "none"
    BY <2>2, <2>3, RunnerStep
  <2> QED
    BY <1>3, <2>1, <2>2, <2>4 DEF On
<1>4. ASSUME NEW a \in Actors, At(a, "thread.start")'
      PROVE  /\ begun'[On(a)'] /\ runner'[On(a)'] = "none"
             /\ \A b \in Actors : At(b, "thread.start")' /\ On(b)' = On(a)' => a = b
  BY <1>1, <1>2, <1>3, <1>4 DEF StartsOnce
<1>5. ASSUME NEW t \in Threads PROVE (~begun[t] => runner[t] = "none")'
  <2>1. SUFFICES ASSUME ~begun'[t] PROVE runner'[t] = "none"
    OBVIOUS
  <2>2. ~begun[t] /\ runner[t] = "none"
    BY <2>1, RunnerStep DEF StartsOnce
  <2> QED
    BY <2>2, RunnerStep DEF StartsOnce, ThreadStart
<1>6. ASSUME NEW t \in Threads, tstate'[t] = "Dead" PROVE runner'[t] = "gone"
  <2>1. CASE DropThread(t)
    BY <2>1 DEF DropThread, TypeOK
  <2>2. CASE tstate[t] = "Dead"
    BY <2>2, RunnerStep DEF StartsOnce
  <2> QED
    BY <1>6, <2>1, <2>2, RunnerStep
<1> QED
  BY <1>4, <1>5, <1>6 DEF StartsOnce

-----------------------------------------------------------------------------
(* Jobs leave their parents *)

\* An actor inside a section moves on by that section.
LEMMA Mover ==
    ASSUME TypeOK, [Next]_vars, NEW b \in Actors, pc'[b] # pc[b], ~At(b, "idle")
    PROVE  Continue(b)
<1>1. ASSUME NEW a \in Actors, NEW f, pc' = [pc EXCEPT ![a] = f] PROVE a = b
  BY <1>1 DEF TypeOK
<1>2. ~Ready(b)
  BY DEF Ready, At, Idle, Frame
<1>3. ASSUME NEW a \in Actors, Call(a) PROVE FALSE
  <2>1. Ready(a)
    BY <1>3 DEF Call, MayCall, CreateJob, CreateProcess, KillJob, DropJob, StartProcess, CreateThread,
       ExitProcess, SuspendProcess, ResumeProcess, StartThread, KillThread
  <2>2. UNCHANGED pc \/ \E f : pc' = [pc EXCEPT ![a] = f]
    BY <1>3 DEF Call, CreateJob, CreateProcess, KillJob, DropJob, StartProcess, CreateThread,
       ExitProcess, SuspendProcess, ResumeProcess, WalkProcess, StartThread, KillThread, Enter
  <2> QED
    BY <1>1, <1>2, <2>1, <2>2
<1>4. ASSUME NEW t \in Threads, Run(t) PROVE FALSE
  <2>1. Ready(t) /\ (UNCHANGED pc \/ \E f : pc' = [pc EXCEPT ![t] = f])
    BY <1>4 DEF Run, ExitThread, MayCall, RunThread, Trap, DropThread, Enter
  <2> QED
    BY <1>1, <1>2, <2>1
<1>5. ASSUME NEW a \in Actors, Continue(a) PROVE \E f : pc' = [pc EXCEPT ![a] = f]
  BY <1>5 DEF Continue, ThreadStart, JobKill, KillLoop, KillNext, JobTerminate, RemoveChild,
     RemoveProcess, ProcExit, ProcKilling, ProcSuspending, ProcResuming, WalkOn,
     ProcTerminate, RemoveThread, LastThread, TerminateIfEmpty, Return, Enter
<1> QED
  BY <1>1, <1>3, <1>4, <1>5 DEF Next, vars

\* A job on its way out stays so until its parent's list loses it.
LEMMA LeavingStep ==
    ASSUME TypeOK, [Next]_vars, NEW j \in Jobs \ {RootJob}, Leaving(j)
    PROVE  Leaving(j)' \/ \E a \in Actors : RemoveChild(a) /\ Arg(a) = j
<1>1. PICK a \in Actors : Entering(a, "job.terminate", j)
                          \/ (At(a, "job.remove_child") /\ Arg(a) = j)
  BY DEF Leaving
<1>2. CASE pc'[a] = pc[a]
  BY <1>1, <1>2 DEF Leaving, Entering, At, On, Arg
<1>3. CASE pc'[a] # pc[a]
  <2>1. Continue(a)
    BY <1>1, <1>3, Mover DEF At, Entering
  <2>2. CASE Entering(a, "job.terminate", j)
    <3>1. JobTerminate(a)
      BY <2>1, <2>2 DEF Continue, Entering, At, ThreadStart, JobKill, KillLoop, Idle, Frame,
         RemoveChild, RemoveProcess, ProcExit, ProcKilling, ProcSuspending, ProcResuming,
         ProcTerminate, RemoveThread
    <3>2. pc'[a] = Frame("job.remove_child", parent[j], j)
      BY <2>2, <3>1 DEF Entering, JobTerminate, Enter, TypeOK
    <3> QED
      BY <3>2 DEF Leaving, At, Arg, Frame
  <2>3. CASE At(a, "job.remove_child") /\ Arg(a) = j
    <3>1. RemoveChild(a)
      BY <2>1, <2>3 DEF Continue, Entering, At, ThreadStart, JobKill, KillLoop, Idle, Frame,
         JobTerminate, RemoveProcess, ProcExit, ProcKilling, ProcSuspending, ProcResuming,
         ProcTerminate, RemoveThread
    <3> QED
      BY <2>3, <3>1
  <2> QED
    BY <1>1, <2>2, <2>3
<1> QED
  BY <1>2, <1>3

\* The steps that touch the fields of a job.
LEMMA JobSteps ==
    ASSUME [Next]_vars
    PROVE  \/ UNCHANGED jobVars
           \/ \E a \in Actors : \E j \in Jobs :
                \/ \E c \in Jobs : CreateJob(a, j, c)
                \/ \E p \in Procs : CreateProcess(a, j, p)
                \/ DropJob(a, j)
           \/ \E a \in Actors : JobKill(a) \/ RemoveChild(a) \/ RemoveProcess(a)
<1>1. ASSUME NEW a \in Actors, Call(a)
      PROVE  \/ UNCHANGED jobVars
             \/ \E j \in Jobs : \/ \E c \in Jobs : CreateJob(a, j, c)
                                \/ \E p \in Procs : CreateProcess(a, j, p)
                                \/ DropJob(a, j)
  BY <1>1 DEF Call, KillJob, StartProcess, CreateThread, ExitProcess, SuspendProcess,
              ResumeProcess, WalkProcess, StartThread, KillThread
<1>2. ASSUME NEW a \in Actors, Continue(a)
      PROVE  UNCHANGED jobVars \/ JobKill(a) \/ RemoveChild(a) \/ RemoveProcess(a)
  BY <1>2 DEF Continue, ThreadStart, KillLoop, KillNext, JobTerminate, ProcExit, ProcKilling,
              ProcSuspending, ProcResuming, ProcTerminate, RemoveThread
<1>3. ASSUME NEW t \in Threads, Run(t) PROVE UNCHANGED jobVars
  BY <1>3 DEF Run, ExitThread, RunThread, Trap, DropThread
<1> QED
  BY <1>1, <1>2, <1>3 DEF Next, vars

\* What a step does to a job that was there before it.
LEMMA OldJobStep ==
    ASSUME TypeOK, TreeOK, EndsInv, [Next]_vars, NEW j \in born \ {RootJob}
    PROVE  /\ j \in children'[parent[j]] => j \in children[parent[j]]
           /\ j \in children[parent[j]] /\ j \notin children'[parent[j]] =>
                \E a \in Actors : RemoveChild(a) /\ Arg(a) = j
           /\ Ending(j)' /\ ~Ending(j) => Leaving(j)'
<1>0. j \in Jobs /\ parent[j] \in Jobs
  BY DEF TypeOK, TreeOK, LinksOK
<1>1. CASE UNCHANGED jobVars
  BY <1>1 DEF jobVars, Ending, Childless
<1>2. ASSUME NEW a \in Actors, NEW k \in Jobs, NEW c \in Jobs, CreateJob(a, k, c)
      PROVE  /\ children[parent[j]] \subseteq children'[parent[j]]
             /\ j \in children'[parent[j]] => j \in children[parent[j]]
             /\ Ending(j)' => Ending(j)
  BY <1>0, <1>2 DEF CreateJob, Adopt, Ending, Childless, TypeOK
<1>3. ASSUME NEW a \in Actors, NEW k \in Jobs, NEW p \in Procs, CreateProcess(a, k, p)
      PROVE  UNCHANGED children /\ (Ending(j)' => Ending(j))
  BY <1>0, <1>3 DEF CreateProcess, Ending, Childless, TypeOK
<1>4. ASSUME NEW a \in Actors, NEW k \in Jobs, DropJob(a, k)
      PROVE  UNCHANGED children /\ (Ending(j)' /\ ~Ending(j) => Leaving(j)')
  <2>1. CASE k = j
    <3>1. pc'[a] = Frame("job.terminate", j, None)
      BY <1>4, <2>1 DEF DropJob, Enter, TypeOK
    <3> QED
      BY <1>4, <3>1 DEF DropJob, Leaving, Entering, At, On, Frame
  <2>2. CASE k # j
    BY <1>0, <1>4, <2>2 DEF DropJob, Ending, Childless
  <2> QED
    BY <2>1, <2>2
<1>5. ASSUME NEW a \in Actors, JobKill(a)
      PROVE  UNCHANGED children /\ (Ending(j)' /\ ~Ending(j) => Leaving(j)')
  <2>0. PICK k \in Jobs : k = On(a)
    BY <1>5, FrameKinds DEF JobKill
  <2>1. CASE k = j /\ ~killed[j] /\ Childless(j)
    <3>1. pc'[a] = Frame("job.terminate", j, None)
      BY <1>5, <2>0, <2>1 DEF JobKill, Enter, TypeOK
    <3> QED
      BY <1>5, <3>1 DEF JobKill, Leaving, Entering, At, On, Frame
  <2>2. CASE ~(k = j /\ ~killed[j] /\ Childless(j))
    BY <1>0, <1>5, <2>0, <2>2 DEF JobKill, Ending, Childless, TypeOK
  <2> QED
    BY <1>5, <2>1, <2>2 DEF JobKill
<1>6. ASSUME NEW a \in Actors, RemoveChild(a) \/ RemoveProcess(a)
      PROVE  Ending(j)' /\ ~Ending(j) => Leaving(j)'
  <2>0. PICK k \in Jobs : k = On(a)
    BY <1>6, FrameKinds DEF RemoveChild, RemoveProcess
  <2>1. CASE k # j
    BY <1>0, <1>6, <2>0, <2>1 DEF RemoveChild, RemoveProcess, Ending, Childless, TypeOK
  <2>2. ASSUME k = j, Ending(j)', ~Ending(j) PROVE Leaving(j)'
    <3>1. killed[j]
      BY <1>6, <2>2 DEF RemoveChild, RemoveProcess, Ending, EndsInv, JobsOK
    <3>2. TerminateIfEmpty(a, j)
      BY <1>6, <2>0, <2>2 DEF RemoveChild, RemoveProcess
    <3>3. pc'[a] = Frame("job.terminate", j, None)
      BY <2>2, <3>1, <3>2 DEF TerminateIfEmpty, Enter, TypeOK, Ending, Childless
    <3> QED
      BY <3>3 DEF Leaving, Entering, At, On, Frame
  <2> QED
    BY <2>1, <2>2
<1>7. ASSUME NEW a \in Actors, RemoveChild(a)
      PROVE  /\ children'[parent[j]] \subseteq children[parent[j]]
             /\ j \in children[parent[j]] /\ j \notin children'[parent[j]] => Arg(a) = j
  <2>1. PICK k, c : k = On(a) /\ c = Arg(a)
    OBVIOUS
  <2> QED
    BY <1>0, <1>7, <2>1 DEF RemoveChild, TypeOK
<1>8. ASSUME NEW a \in Actors, RemoveProcess(a) PROVE UNCHANGED children
  BY <1>8 DEF RemoveProcess
<1> QED
  BY <1>1, <1>2, <1>3, <1>4, <1>5, <1>6, <1>7, <1>8, JobSteps

LEMMA JobsStep ==
    ASSUME TypeOK, TreeOK, EndsInv, [Next]_vars
    PROVE  JobsOK'
<1>0. Steady
  BY SteadyStep DEF EndsInv
<1>1. ASSUME NEW j \in born \ {RootJob}
      PROVE  (IF j \in children[parent[j]] THEN Ending(j) => Leaving(j) ELSE Ending(j))'
  <2>1. parent'[j] = parent[j]
    BY <1>0 DEF Steady
  <2>2. ASSUME j \in children'[parent[j]], Ending(j)' PROVE Leaving(j)'
    <3>1. j \in children[parent[j]]
      BY <2>2, OldJobStep
    <3>2. CASE ~Ending(j)
      BY <2>2, <3>2, OldJobStep
    <3>3. CASE Leaving(j)
      <4>1. ASSUME NEW a \in Actors, RemoveChild(a), Arg(a) = j PROVE FALSE
        <5>1. On(a) = parent[j]
          BY <4>1 DEF EndsInv, Knows, RemoveChild
        <5>2. children' = [children EXCEPT ![parent[j]] = @ \ {j}]
          BY <4>1, <5>1 DEF RemoveChild
        <5> QED
          BY <2>2, <5>2 DEF TypeOK, TreeOK, LinksOK
      <4> QED
        BY <3>3, <4>1, LeavingStep DEF TypeOK
    <3> QED
      BY <3>1, <3>2, <3>3 DEF EndsInv, JobsOK
  <2>3. ASSUME j \notin children'[parent[j]] PROVE Ending(j)'
    <3>1. Ending(j)
      <4>1. CASE j \notin children[parent[j]]
        BY <4>1 DEF EndsInv, JobsOK
      <4>2. CASE j \in children[parent[j]]
        BY <2>3, <4>2, OldJobStep DEF EndsInv, Knows, RemoveChild
      <4> QED
        BY <4>1, <4>2
    <3> QED
      BY <1>0, <3>1 DEF Steady, Ending, Childless, TypeOK
  <2> QED
    BY <2>1, <2>2, <2>3
<1>2. ASSUME NEW a \in Actors, NEW k \in Jobs, NEW c \in Jobs, CreateJob(a, k, c)
      PROVE  JobsOK'
  <2>1. ASSUME NEW j \in born' \ {RootJob}
        PROVE  (IF j \in children[parent[j]] THEN Ending(j) => Leaving(j) ELSE Ending(j))'
    <3>1. CASE j \in born
      BY <1>1, <2>1, <3>1
    <3>2. CASE j = c
      <4>1. j \in children'[parent'[j]]
        BY <1>2, <3>2 DEF CreateJob, Adopt, TypeOK
      <4>2. ~Ending(j)'
        BY <1>2, <3>2 DEF CreateJob, Ending, EndsInv, JobsOK
      <4> QED
        BY <4>1, <4>2
    <3> QED
      BY <1>2, <2>1, <3>1, <3>2 DEF CreateJob
  <2>2. k \in born /\ k \notin freed /\ c \notin born
    BY <1>2 DEF CreateJob
  <2>3. /\ (freed \subseteq born \ {RootJob})' /\ parent'[RootJob] = None
    BY <1>2, <2>2 DEF CreateJob, Adopt, EndsInv, JobsOK, TreeOK, LinksOK, TypeOK
  <2>4. \A j \in Jobs \ born' : parent'[j] = None /\ ~killed'[j] /\ Childless(j)'
    BY <1>2, <2>2 DEF CreateJob, Adopt, EndsInv, JobsOK, Childless, TypeOK
  <2>5. \A j \in freed' : Childless(j)'
    BY <1>2, <2>2 DEF CreateJob, Adopt, EndsInv, JobsOK, Childless, TypeOK
  <2> QED
    BY <2>1, <2>3, <2>4, <2>5 DEF JobsOK
<1>3. ASSUME UNCHANGED <<born, parent>>, (freed \subseteq born \ {RootJob})',
             \A j \in Jobs \ born : ~killed'[j] /\ Childless(j)',
             \A j \in freed' : Childless(j)'
      PROVE  JobsOK'
  BY <1>1, <1>3 DEF JobsOK, EndsInv
<1>4. ASSUME NEW a \in Actors, NEW k \in Jobs, NEW p \in Procs, CreateProcess(a, k, p)
      PROVE  JobsOK'
  <2>1. k \in born /\ k \notin freed
    BY <1>4 DEF CreateProcess
  <2>2. \A j \in Jobs : j # k => (Childless(j)' <=> Childless(j))
    BY <1>4 DEF CreateProcess, Childless, TypeOK
  <2> QED
    BY <1>3, <1>4, <2>1, <2>2 DEF CreateProcess, EndsInv, JobsOK, TypeOK
<1>5. ASSUME NEW a \in Actors, NEW k \in Jobs, DropJob(a, k)
      PROVE  JobsOK'
  <2>1. k \in born \ {RootJob} /\ Childless(k)
    BY <1>5, UnreferencedEmpty DEF DropJob
  <2>2. \A j \in Jobs : Childless(j)' <=> Childless(j)
    BY <1>5 DEF DropJob, Childless
  <2> QED
    BY <1>3, <1>5, <2>1, <2>2 DEF DropJob, EndsInv, JobsOK, TypeOK
<1>6. ASSUME NEW a \in Actors, JobKill(a) \/ RemoveChild(a) \/ RemoveProcess(a)
      PROVE  JobsOK'
  <2>0. PICK k \in Jobs : k = On(a)
    BY <1>6, FrameKinds DEF JobKill, RemoveChild, RemoveProcess
  <2>1. k \in born
    BY <2>0 DEF TreeOK, ActorsOK, Exists
  <2>2. \A j \in Jobs : Childless(j) => Childless(j)'
    <3>1. /\ UNCHANGED children \/ \E i, c : children' = [children EXCEPT ![i] = @ \ {c}]
          /\ UNCHANGED processes \/ \E i, p : processes' = [processes EXCEPT ![i] = @ \ {p}]
      BY <1>6 DEF JobKill, RemoveChild, RemoveProcess
    <3>2. children \in [Jobs -> SUBSET Jobs] /\ processes \in [Jobs -> SUBSET Procs]
      BY DEF TypeOK
    <3>3. \A j \in Jobs : children'[j] \subseteq children[j]
      BY <3>1, <3>2, TakenOut
    <3>4. \A j \in Jobs : processes'[j] \subseteq processes[j]
      BY <3>1, <3>2, TakenOut
    <3> QED
      BY <3>3, <3>4 DEF Childless
  <2>3. UNCHANGED <<born, parent, freed>>
    BY <1>6 DEF JobKill, RemoveChild, RemoveProcess
  <2>4. \A j \in Jobs \ born : killed'[j] = killed[j]
    BY <1>6, <2>0, <2>1 DEF JobKill, RemoveChild, RemoveProcess, TypeOK
  <2> QED
    BY <1>3, <2>2, <2>3, <2>4 DEF EndsInv, JobsOK, TypeOK
<1>7. CASE UNCHANGED jobVars
  BY <1>3, <1>7 DEF jobVars, EndsInv, JobsOK, Childless
<1> QED
  BY <1>2, <1>4, <1>5, <1>6, <1>7, JobSteps

-----------------------------------------------------------------------------
(* Processes leave their jobs, threads their processes *)

\* The steps that touch the fields of a process, or a job's list of them.
LEMMA ProcSteps ==
    ASSUME [Next]_vars
    PROVE  \/ UNCHANGED <<processes, owner, status, retcode, threads>>
           \/ \E a \in Actors : \E p \in Procs :
                \/ \E j \in Jobs : CreateProcess(a, j, p)
                \/ \E t \in Threads : StartProcess(a, p, t) \/ CreateThread(a, p, t)
           \/ \E a \in Actors : RemoveProcess(a) \/ ProcExit(a) \/ ProcTerminate(a)
                                \/ RemoveThread(a)
<1>1. ASSUME NEW a \in Actors, Call(a)
      PROVE  \/ UNCHANGED <<processes, owner, status, retcode, threads>>
             \/ \E p \in Procs :
                  \/ \E j \in Jobs : CreateProcess(a, j, p)
                  \/ \E t \in Threads : StartProcess(a, p, t) \/ CreateThread(a, p, t)
  BY <1>1 DEF Call, CreateJob, Adopt, KillJob, DropJob, ExitProcess, SuspendProcess, ResumeProcess,
              WalkProcess, StartThread, KillThread, jobVars, procVars
<1>2. ASSUME NEW a \in Actors, Continue(a)
      PROVE  \/ UNCHANGED <<processes, owner, status, retcode, threads>>
             \/ RemoveProcess(a) \/ ProcExit(a) \/ ProcTerminate(a) \/ RemoveThread(a)
  BY <1>2 DEF Continue, ThreadStart, JobKill, KillLoop, KillNext, JobTerminate, RemoveChild,
              ProcKilling, ProcSuspending, ProcResuming, jobVars, procVars
<1>3. ASSUME NEW t \in Threads, Run(t)
      PROVE  UNCHANGED <<processes, owner, status, retcode, threads>>
  BY <1>3 DEF Run, ExitThread, RunThread, Trap, DropThread, jobVars, procVars
<1> QED
  BY <1>1, <1>2, <1>3 DEF Next, vars, jobVars, procVars

LEMMA ProcsStep ==
    ASSUME TypeOK, TreeOK, EndsInv, [Next]_vars
    PROVE  ProcsOK'
<1> USE DEF ProcsOK, Exited
<1>0. \A p \in Procs : owner[p] # None => p \in Procs /\ owner[p] \in Jobs
  BY DEF TypeOK
<1>1. CASE UNCHANGED <<processes, owner, status, retcode, threads>>
  BY <1>1 DEF EndsInv
<1>2. ASSUME NEW a \in Actors, NEW j \in Jobs, NEW p \in Procs, CreateProcess(a, j, p)
      PROVE  ProcsOK'
  BY <1>2, Kinds DEF CreateProcess, EndsInv, TypeOK
<1>3. ASSUME NEW a \in Actors, NEW p \in Procs, NEW t \in Threads,
             StartProcess(a, p, t) \/ CreateThread(a, p, t)
      PROVE  ProcsOK'
  BY <1>3 DEF StartProcess, CreateThread, jobVars, EndsInv, TypeOK
<1>4. ASSUME NEW a \in Actors, RemoveProcess(a)
      PROVE  ProcsOK'
  <2>1. PICK j \in Jobs, p \in Procs : j = On(a) /\ p = Arg(a)
    BY <1>4, FrameKinds DEF RemoveProcess
  <2>2. owner[p] = j /\ Exited(p)
    BY <1>4, <2>1 DEF RemoveProcess, EndsInv, Knows
  <2> QED
    BY <1>4, <2>1, <2>2 DEF RemoveProcess, procVars, EndsInv, TypeOK
<1>5. ASSUME NEW a \in Actors, ProcExit(a) \/ ProcTerminate(a)
      PROVE  ProcsOK'
  <2>1. PICK p \in Procs : p = On(a)
    BY <1>5, FrameKinds DEF ProcExit, ProcTerminate
  <2>2. owner[p] # None
    BY <2>1 DEF TreeOK, ActorsOK, Exists
  <2>3. UNCHANGED <<status, retcode>>
        \/ (status' = [status EXCEPT ![p] = "Exited"] /\ \E c : retcode' = [retcode EXCEPT ![p] = c])
    BY <1>5, <2>1 DEF ProcExit, ProcTerminate
  <2>4. UNCHANGED <<processes, owner>>
    BY <1>5 DEF ProcExit, ProcTerminate, jobVars
  <2>5. CASE UNCHANGED <<status, retcode>>
    BY <2>4, <2>5 DEF EndsInv
  <2>6. CASE status' = [status EXCEPT ![p] = "Exited"] /\ \E c : retcode' = [retcode EXCEPT ![p] = c]
    <3>1. status'[p] = "Exited" /\ \A r \in Procs : r # p => status'[r] = status[r]
      BY <2>6 DEF TypeOK
    <3>2. \A r \in Procs : r # p => retcode'[r] = retcode[r]
      BY <2>6 DEF TypeOK
    <3> QED
      BY <2>2, <2>4, <3>1, <3>2 DEF EndsInv
  <2> QED
    BY <2>3, <2>5, <2>6
<1>6. ASSUME NEW a \in Actors, RemoveThread(a)
      PROVE  ProcsOK'
  BY <1>6 DEF RemoveThread, jobVars, EndsInv
<1> QED
  BY <1>1, <1>2, <1>3, <1>4, <1>5, <1>6, ProcSteps

\* A process on its way out stays so until its job's list loses it.
LEMMA LeavingProcStep ==
    ASSUME TypeOK, [Next]_vars, NEW p \in Procs, LeavingProc(p)
    PROVE  LeavingProc(p)' \/ \E a \in Actors : RemoveProcess(a) /\ Arg(a) = p
<1>1. PICK a \in Actors : Entering(a, "proc.terminate", p)
                          \/ (At(a, "job.remove_process") /\ Arg(a) = p)
  BY DEF LeavingProc
<1>2. CASE pc'[a] = pc[a]
  BY <1>1, <1>2 DEF LeavingProc, Entering, At, On, Arg
<1>3. CASE pc'[a] # pc[a]
  <2>1. Continue(a)
    BY <1>1, <1>3, Mover DEF At, Entering
  <2>2. CASE Entering(a, "proc.terminate", p)
    <3>1. ProcTerminate(a)
      BY <2>1, <2>2 DEF Continue, Entering, At, ThreadStart, JobKill, KillLoop, Idle, Frame,
         JobTerminate, RemoveChild, RemoveProcess, ProcExit, ProcKilling, ProcSuspending,
         ProcResuming, RemoveThread
    <3>2. pc'[a] = Frame("job.remove_process", owner[p], p)
      BY <2>2, <3>1 DEF Entering, ProcTerminate, Enter, TypeOK
    <3> QED
      BY <3>2 DEF LeavingProc, At, Arg, Frame
  <2>3. CASE At(a, "job.remove_process") /\ Arg(a) = p
    <3>1. RemoveProcess(a)
      BY <2>1, <2>3 DEF Continue, Entering, At, ThreadStart, JobKill, KillLoop, Idle, Frame,
         JobTerminate, RemoveChild, ProcExit, ProcKilling, ProcSuspending, ProcResuming,
         ProcTerminate, RemoveThread
    <3> QED
      BY <2>3, <3>1
  <2> QED
    BY <1>1, <2>2, <2>3
<1> QED
  BY <1>2, <1>3

LEMMA EmptyExitedStep ==
    ASSUME TypeOK, TreeOK, EndsInv, [Next]_vars
    PROVE  EmptyExitedProcessLeaves'
<1> SUFFICES ASSUME NEW p \in Procs,
                    Exited(p)', threads'[p] = {}, p \in processes'[owner'[p]]
             PROVE  LeavingProc(p)'
  BY DEF EmptyExitedProcessLeaves
<1> USE DEF Exited
<1>0. ASSUME Exited(p), threads[p] = {}, p \in processes[owner[p]], UNCHANGED owner
      PROVE  LeavingProc(p)'
  <2>1. LeavingProc(p)
    BY <1>0 DEF EndsInv, EmptyExitedProcessLeaves
  <2>2. ASSUME NEW a \in Actors, RemoveProcess(a), Arg(a) = p PROVE FALSE
    <3>1. On(a) = owner[p]
      BY <2>2 DEF EndsInv, Knows, RemoveProcess
    <3>2. processes' = [processes EXCEPT ![owner[p]] = @ \ {p}]
      BY <2>2, <3>1 DEF RemoveProcess
    <3> QED
      BY <1>0, <3>2 DEF TypeOK, EndsInv, ProcsOK
  <2> QED
    BY <2>1, <2>2, LeavingProcStep
<1>1. CASE UNCHANGED <<processes, owner, status, retcode, threads>>
  BY <1>0, <1>1
<1>2. ASSUME NEW a \in Actors, NEW j \in Jobs, NEW r \in Procs, CreateProcess(a, j, r)
      PROVE  LeavingProc(p)'
  <2>1. p # r
    BY <1>2 DEF CreateProcess, TypeOK
  <2>2. owner[p] \in Jobs
    BY <2>1, <1>2 DEF CreateProcess, EndsInv, ProcsOK, TypeOK
  <2>3. Exited(p) /\ threads[p] = {} /\ p \in processes[owner[p]] /\ owner'[p] = owner[p]
    BY <1>2, <2>1, <2>2 DEF CreateProcess, TypeOK
  <2>4. LeavingProc(p)
    BY <2>3 DEF EndsInv, EmptyExitedProcessLeaves
  <2> QED
    BY <1>2, <2>4 DEF CreateProcess, LeavingProc, Entering, At, On, Arg
<1>3. ASSUME NEW a \in Actors, NEW r \in Procs, NEW t \in Threads,
             StartProcess(a, r, t) \/ CreateThread(a, r, t)
      PROVE  LeavingProc(p)'
  BY <1>0, <1>3 DEF StartProcess, CreateThread, jobVars, TypeOK
<1>4. ASSUME NEW a \in Actors, RemoveProcess(a)
      PROVE  LeavingProc(p)'
  <2>1. PICK j, r : j = On(a) /\ r = Arg(a)
    OBVIOUS
  <2>2. UNCHANGED <<owner, status, threads>> /\ processes' = [processes EXCEPT ![j] = @ \ {r}]
    BY <1>4, <2>1 DEF RemoveProcess, procVars
  <2>3. p \in processes[owner[p]]
    BY <2>2, Kinds DEF TypeOK, TreeOK, LinksOK, EndsInv, ProcsOK
  <2> QED
    BY <1>0, <2>2, <2>3
<1>5. ASSUME NEW a \in Actors, ProcExit(a)
      PROVE  LeavingProc(p)'
  <2>1. PICK r \in Procs : r = On(a)
    BY <1>5, FrameKinds DEF ProcExit
  <2>2. CASE r = p /\ status[p] # "Exited"
    <3>1. pc'[a] = Frame("proc.terminate", p, None)
      BY <1>5, <2>1, <2>2 DEF ProcExit, Enter, TypeOK
    <3> QED
      BY <3>1 DEF LeavingProc, Entering, At, On, Frame
  <2>3. CASE ~(r = p /\ status[p] # "Exited")
    BY <1>0, <1>5, <2>1, <2>3 DEF ProcExit, jobVars, TypeOK
  <2> QED
    BY <2>2, <2>3
<1>6. ASSUME NEW a \in Actors, ProcTerminate(a)
      PROVE  LeavingProc(p)'
  <2>1. PICK r \in Procs : r = On(a)
    BY <1>6, FrameKinds DEF ProcTerminate
  <2>2. CASE r = p
    <3>1. pc'[a] = Frame("job.remove_process", owner[p], p)
      BY <1>6, <2>1, <2>2 DEF ProcTerminate, Enter, TypeOK
    <3> QED
      BY <3>1 DEF LeavingProc, At, Arg, Frame
  <2>3. CASE r # p
    BY <1>0, <1>6, <2>1, <2>3 DEF ProcTerminate, jobVars, TypeOK
  <2> QED
    BY <2>2, <2>3
<1>7. ASSUME NEW a \in Actors, RemoveThread(a)
      PROVE  LeavingProc(p)'
  <2>1. PICK r \in Procs : r = On(a)
    BY <1>7, FrameKinds DEF RemoveThread
  <2>2. CASE r = p
    <3>1. LastThread(a, p)
      BY <1>7, <2>1, <2>2 DEF RemoveThread
    <3>2. pc'[a] = Frame("proc.terminate", p, None)
      BY <3>1 DEF LastThread, Enter, TypeOK
    <3> QED
      BY <3>2 DEF LeavingProc, Entering, At, On, Frame
  <2>3. CASE r # p
    BY <1>0, <1>7, <2>1, <2>3 DEF RemoveThread, jobVars, TypeOK
  <2> QED
    BY <2>2, <2>3
<1> QED
  BY <1>1, <1>2, <1>3, <1>4, <1>5, <1>6, <1>7, ProcSteps

\* What kills a thread stays; the dead stay dead.
LEMMA ThreadMarks ==
    ASSUME TypeOK, StartsOnce, [Next]_vars, NEW t \in Threads
    PROVE  /\ tkilled[t] => tkilled'[t]
           /\ tstate[t] = "Dead" => tstate'[t] = "Dead"
<1>1. ASSUME NEW u \in Threads, NEW kill \in BOOLEAN, Stop(u, kill)
      PROVE  /\ tkilled[t] => tkilled'[t]
             /\ tstate[t] = "Dead" => tstate'[t] = "Dead"
  BY <1>1 DEF Stop, Stopped, TypeOK
<1>2. ASSUME NEW a \in Actors, Call(a)
      PROVE  UNCHANGED <<tstate, tkilled>> \/ \E u \in Threads : Stop(u, TRUE)
  BY <1>2 DEF Call, CreateJob, CreateProcess, KillJob, DropJob, StartProcess, CreateThread,
              ExitProcess, SuspendProcess, ResumeProcess, WalkProcess, StartThread, KillThread
<1>3. ASSUME NEW a \in Actors, ThreadStart(a)
      PROVE  tkilled' = tkilled /\ (tstate[t] = "Dead" => tstate'[t] = "Dead")
  <2>1. PICK u \in Threads : u = On(a)
    BY <1>3, FrameKinds DEF ThreadStart
  <2>2. tstate[u] # "Dead"
    BY <1>3, <2>1 DEF ThreadStart, StartsOnce
  <2> QED
    BY <1>3, <2>1, <2>2 DEF ThreadStart, TypeOK
<1>4. ASSUME NEW a \in Actors, Continue(a), ~ThreadStart(a)
      PROVE  UNCHANGED <<tstate, tkilled>> \/ \E u \in Threads : Stop(u, TRUE)
  <2>1. CASE ProcKilling(a)
    BY <2>1, FrameKinds DEF ProcKilling
  <2> QED
    BY <1>4, <2>1 DEF Continue, JobKill, KillLoop, KillNext, JobTerminate, RemoveChild,
       RemoveProcess, ProcExit, ProcSuspending, ProcResuming, ProcTerminate, RemoveThread,
       threadVars
<1>5. ASSUME NEW u \in Threads, Run(u)
      PROVE  \/ UNCHANGED <<tstate, tkilled>>
             \/ Stop(u, FALSE)
             \/ tkilled' = tkilled /\ tstate' = [tstate EXCEPT ![u] = "Dead"]
  BY <1>5 DEF Run, ExitThread, RunThread, Trap, DropThread
<1>6. \/ UNCHANGED <<tstate, tkilled>>
      \/ \E a \in Actors : ThreadStart(a)
      \/ \E u \in Threads : \/ Stop(u, TRUE) \/ Stop(u, FALSE)
                            \/ tkilled' = tkilled /\ tstate' = [tstate EXCEPT ![u] = "Dead"]
  BY <1>2, <1>4, <1>5 DEF Next, vars, threadVars
<1> QED
  BY <1>1, <1>3, <1>6 DEF TypeOK

\* A thread ahead of an exiting actor is killed or stays ahead of it.
LEMMA KillingStep ==
    ASSUME TypeOK, [Next]_vars, NEW a \in Actors, NEW p \in Procs,
           Entering(a, "proc.killing", p), NEW t \in Left(a)
    PROVE  \/ Entering(a, "proc.killing", p)' /\ t \in Left(a)'
           \/ tkilled'[t] \/ tstate'[t] = "Dead"
<1>0. t \in Threads
  BY FrameKinds DEF Entering
<1>1. CASE pc'[a] = pc[a]
  BY <1>1 DEF Entering, At, On, Left
<1>2. CASE pc'[a] # pc[a]
  <2>1. Continue(a)
    BY <1>2, Mover DEF At, Entering
  <2>2. ProcKilling(a)
    BY <2>1 DEF Continue, Entering, At, ThreadStart, JobKill, KillLoop, Idle, Frame,
       JobTerminate, RemoveChild, RemoveProcess, ProcExit, ProcTerminate, ProcSuspending,
       ProcResuming, RemoveThread
  <2>3. PICK u \in Left(a) : Stop(u, TRUE) /\ WalkOn(a, u)
    BY <2>2 DEF ProcKilling
  <2>4. CASE u = t
    BY <1>0, <2>3, <2>4 DEF Stop, Stopped, TypeOK
  <2>5. CASE u # t
    <3>1. pc'[a] = Walk("proc.killing", p, Left(a) \ {u})
      BY <2>3, <2>5 DEF WalkOn, Enter, Entering, At, TypeOK
    <3> QED
      BY <2>5, <3>1 DEF Walk, Entering, At, On, Left
  <2> QED
    BY <2>4, <2>5
<1> QED
  BY <1>1, <1>2

LEMMA ExitReachesStep ==
    ASSUME TypeOK, TreeOK, EndsInv, [Next]_vars
    PROVE  ExitReachesThreads'
<1> DEFINE Reached(p, t) == \/ tkilled[t] \/ tstate[t] = "Dead"
                            \/ \E a \in Actors : Entering(a, "proc.killing", p) /\ t \in Left(a)
<1>1. ASSUME NEW p \in Procs, NEW t \in Threads, Reached(p, t) PROVE Reached(p, t)'
  BY <1>1, ThreadMarks, KillingStep DEF EndsInv
<1> SUFFICES ASSUME NEW p \in Procs, retcode'[p] \in {"kill", "user"}, NEW t \in threads'[p]
             PROVE  Reached(p, t)'
  BY DEF ExitReachesThreads
<1>0. t \in Threads \/ t \in threads[p]
  <2>1. \/ threads'[p] \subseteq threads[p]
        \/ \E a \in Actors : \E r \in Procs : \E u \in Threads : CreateThread(a, r, u)
    <3>1. ASSUME NEW a \in Actors, RemoveThread(a) PROVE threads'[p] \subseteq threads[p]
      BY <3>1 DEF RemoveThread, LeftBehind, TypeOK
    <3> QED
      BY <3>1, ProcSteps DEF CreateProcess, StartProcess, RemoveProcess, ProcExit,
         ProcTerminate, procVars
  <2>2. ASSUME NEW a \in Actors, NEW r \in Procs, NEW u \in Threads, CreateThread(a, r, u)
        PROVE  t \in threads[p] \cup {u}
    BY <2>2 DEF CreateThread, TypeOK
  <2> QED
    BY <2>1, <2>2
<1>2. t \in Threads
  BY <1>0 DEF TypeOK
<1>3. ASSUME retcode[p] \in {"kill", "user"}, t \in threads[p] PROVE Reached(p, t)'
  <2>1. Reached(p, t)
    BY <1>3 DEF EndsInv, ExitReachesThreads
  <2> QED
    BY <1>1, <1>2, <2>1
<1>4. CASE UNCHANGED <<processes, owner, status, retcode, threads>>
  BY <1>3, <1>4
<1>5. ASSUME NEW a \in Actors, NEW j \in Jobs, NEW r \in Procs, CreateProcess(a, j, r)
      PROVE  Reached(p, t)'
  BY <1>3, <1>5 DEF CreateProcess
<1>6. ASSUME NEW a \in Actors, NEW r \in Procs, NEW u \in Threads, StartProcess(a, r, u)
      PROVE  Reached(p, t)'
  BY <1>3, <1>6 DEF StartProcess
<1>7. ASSUME NEW a \in Actors, NEW r \in Procs, NEW u \in Threads, CreateThread(a, r, u)
      PROVE  Reached(p, t)'
  <2>1. retcode' = retcode /\ status[r] # "Exited" /\ threads' = [threads EXCEPT ![r] = @ \cup {u}]
    BY <1>7 DEF CreateThread, TakesThreads
  <2>2. Exited(p)
    BY <2>1, DistinctAssumption DEF EndsInv, ProcsOK, TypeOK, ExitCodes
  <2>3. t \in threads[p]
    BY <2>1, <2>2 DEF Exited, TypeOK
  <2> QED
    BY <1>3, <2>1, <2>3
<1>8. ASSUME NEW a \in Actors, RemoveProcess(a)
      PROVE  Reached(p, t)'
  BY <1>3, <1>8 DEF RemoveProcess, procVars
<1>9. ASSUME NEW a \in Actors, ProcExit(a)
      PROVE  Reached(p, t)'
  <2>1. PICK r \in Procs : r = On(a)
    BY <1>9, FrameKinds DEF ProcExit
  <2>2. CASE r = p /\ status[p] # "Exited"
    <3>1. pc'[a] = Walk("proc.killing", p, threads[p])
      BY <1>9, <2>1, <2>2 DEF ProcExit, Enter, TypeOK
    <3>2. threads' = threads
      BY <1>9 DEF ProcExit
    <3> QED
      BY <3>1, <3>2 DEF Entering, At, On, Left, Walk
  <2>3. CASE ~(r = p /\ status[p] # "Exited")
    BY <1>3, <1>9, <2>1, <2>3 DEF ProcExit, TypeOK
  <2> QED
    BY <2>2, <2>3
<1>10. ASSUME NEW a \in Actors, ProcTerminate(a)
       PROVE  Reached(p, t)'
  <2>1. PICK r \in Procs : r = On(a)
    BY <1>10, FrameKinds DEF ProcTerminate
  <2>2. threads' = threads /\ retcode' = [retcode EXCEPT ![r] = TerminalCode(r)]
    BY <1>10, <2>1 DEF ProcTerminate
  <2>3. retcode[p] = retcode'[p]
    BY <2>2 DEF TerminalCode, TypeOK
  <2> QED
    BY <1>3, <2>2, <2>3
<1>11. ASSUME NEW a \in Actors, RemoveThread(a)
       PROVE  Reached(p, t)'
  <2>1. retcode' = retcode /\ threads'[p] \subseteq threads[p]
    BY <1>11 DEF RemoveThread, LeftBehind, TypeOK
  <2> QED
    BY <1>3, <2>1
<1> QED
  BY <1>4, <1>5, <1>6, <1>7, <1>8, <1>9, <1>10, <1>11, ProcSteps

LEMMA DeadLeavesStep ==
    ASSUME TypeOK, TreeOK, EndsInv, [Next]_vars
    PROVE  DeadThreadLeaves'
<1> SUFFICES ASSUME NEW p \in Procs, NEW t \in threads'[p], tstate'[t] = "Dead"
             PROVE  At(t, "proc.remove_thread")' /\ Arg(t)' = t
  BY DEF DeadThreadLeaves
<1>0. \/ threads'[p] \subseteq threads[p]
      \/ \E a \in Actors : \E r \in Procs : \E u \in Threads : CreateThread(a, r, u)
  <2>1. ASSUME NEW a \in Actors, RemoveThread(a) PROVE threads'[p] \subseteq threads[p]
    BY <2>1 DEF RemoveThread, LeftBehind, TypeOK
  <2> QED
    BY <2>1, ProcSteps DEF CreateProcess, StartProcess, RemoveProcess, ProcExit,
       ProcTerminate, procVars
<1>1. CASE t \in threads[p]
  <2>0. t \in Threads
    BY <1>1 DEF TypeOK
  <2>1. CASE DropThread(t)
    <3>1. PICK f : f = Frame("proc.remove_thread", home[t], t)
      OBVIOUS
    <3>2. pc'[t] = f
      BY <2>0, <2>1, <3>1 DEF DropThread, Enter, TypeOK
    <3> QED
      BY <3>1, <3>2 DEF At, Arg, Frame
  <2>2. CASE ~DropThread(t)
    <3>1. tstate[t] = "Dead"
      BY <2>0, <2>2, RunnerStep DEF EndsInv
    <3>2. At(t, "proc.remove_thread") /\ Arg(t) = t
      BY <1>1, <3>1 DEF EndsInv, DeadThreadLeaves
    <3>3. ASSUME pc'[t] # pc[t] PROVE FALSE
      <4>1. Continue(t)
        BY <2>0, <3>2, <3>3, Mover DEF At
      <4>2. RemoveThread(t)
        BY <3>2, <4>1 DEF Continue, At, ThreadStart, JobKill, KillLoop, Idle, Frame,
           JobTerminate, RemoveChild, RemoveProcess, ProcExit, ProcKilling, ProcSuspending,
           ProcResuming, ProcTerminate
      <4>3. On(t) = p
        BY <1>1, <2>0, <3>2 DEF EndsInv, Knows, TreeOK, LinksOK
      <4>4. threads' = [threads EXCEPT ![p] = @ \ {t}]
        BY <3>2, <4>2, <4>3 DEF RemoveThread, LeftBehind
      <4> QED
        BY <4>4 DEF TypeOK
    <3> QED
      BY <3>2, <3>3 DEF At, Arg
  <2> QED
    BY <2>1, <2>2
<1>2. CASE t \notin threads[p]
  <2>1. PICK a \in Actors, r \in Procs, u \in Threads : CreateThread(a, r, u)
    BY <1>0, <1>2
  <2>2. t = u /\ home[t] = None /\ tstate[t] = "Dead"
    BY <1>2, <2>1 DEF CreateThread, TypeOK
  <2>3. runner[t] = "none"
    BY <2>1, <2>2, Kinds DEF TreeOK, LinksOK, TypeOK
  <2> QED
    BY <2>1, <2>2, <2>3 DEF EndsInv, StartsOnce
<1> QED
  BY <1>1, <1>2

LEMMA EndsStep == TypeOK /\ TreeOK /\ EndsInv /\ [Next]_vars => EndsInv'
<1> SUFFICES ASSUME TypeOK, TreeOK, EndsInv, [Next]_vars PROVE EndsInv'
  OBVIOUS
<1>1. \A a \in Actors : Knows(a)'
  BY KnowsStep
<1>2. StartsOnce'
  BY StartsOnceStep DEF EndsInv
<1> QED
  BY <1>1, <1>2, JobsStep, ProcsStep, EmptyExitedStep, ExitReachesStep, DeadLeavesStep
     DEF EndsInv

LEMMA EndsInit == Init => EndsInv
<1> SUFFICES ASSUME Init PROVE EndsInv
  OBVIOUS
<1>1. ASSUME NEW a \in Actors PROVE At(a, "idle")
  BY <1>1 DEF Init, At, Idle, Frame
<1>2. (\A a \in Actors : Knows(a)) /\ StartsOnce
  BY <1>1 DEF Knows, StartsOnce, At, Init
<1>3. JobsOK
  BY RootAssumption DEF Init, JobsOK, Childless
<1>4. ProcsOK /\ EmptyExitedProcessLeaves /\ ExitReachesThreads /\ DeadThreadLeaves
  BY DEF Init, ProcsOK, EmptyExitedProcessLeaves, ExitReachesThreads, DeadThreadLeaves, Exited
<1> QED
  BY <1>2, <1>3, <1>4 DEF EndsInv

LEMMA Ends == Spec => []EndsInv
BY EndsInit, EndsStep, TreeCorrect, PTL DEF Spec

\* The last one out closes the door: an empty killed job, and an exited process
\* without threads, is out of its parent's list or on the way out
\* (EmptyKilledJobLeaves, EmptyExitedProcessLeaves).
THEOREM EmptyOnesLeave == Spec => [](EmptyKilledJobLeaves /\ EmptyExitedProcessLeaves)
<1>1. EndsInv => EmptyKilledJobLeaves
  BY DEF EndsInv, JobsOK, EmptyKilledJobLeaves, Ending
<1>2. EndsInv => EmptyExitedProcessLeaves
  BY DEF EndsInv
<1> QED
  BY <1>1, <1>2, Ends, PTL

\* The exit of a process reaches every thread in its list, and a dead thread
\* is in that list only while its runner takes it out.
THEOREM ThreadsEnd == Spec => [](ExitReachesThreads /\ DeadThreadLeaves)
<1>1. EndsInv => ExitReachesThreads /\ DeadThreadLeaves
  BY DEF EndsInv
<1> QED
  BY <1>1, Ends, PTL

-----------------------------------------------------------------------------
(* TaskTree implements TaskLife *)

\* A job that takes members is in its parent's list.
LEMMA AcceptingIsLive ==
    ASSUME TypeOK, TreeOK, EndsInv, NEW j \in born \ freed, Accepts(j)
    PROVE  JobLife(j) = "live"
BY DEF Accepts, JobLife, EndsInv, JobsOK, Ending

\* A process that has not exited is in its job's list.
LEMMA UnexitedIsIn ==
    ASSUME TypeOK, TreeOK, EndsInv, NEW p \in Procs, owner[p] # None, ~Exited(p)
    PROVE  ProcLife(p) = status[p] /\ status[p] \in {"Init", "Running"}
BY DEF ProcLife, EndsInv, ProcsOK, Exited, TypeOK

LEMMA LifeStutter ==
    ASSUME UNCHANGED <<born, freed, parent, killed, children, processes, owner, status, retcode>>
    PROVE  UNCHANGED Life!vars
BY DEF Life!vars, JobLife, ProcLife

\* What doom, or the loss of a member, does to the stages of the jobs.
LEMMA DoomStep ==
    ASSUME TypeOK, UNCHANGED <<born, parent, children, processes, owner, status, retcode>>,
           NEW k \in Jobs,
           \A j \in Jobs \ {k} : killed'[j] = killed[j] /\ (j \in freed' <=> j \in freed),
           killed'[k] \/ k \in freed'
    PROVE  Life!DoomJob(k) \/ UNCHANGED Life!vars
<1>1. \A p \in Procs : ProcLife(p)' = ProcLife(p)
  BY DEF ProcLife
<1>2. \A j \in Jobs \ {k} : JobLife(j)' = JobLife(j)
  BY DEF JobLife
<1>3. JobLife(k)' = IF JobLife(k) = "live" THEN "dying" ELSE JobLife(k)
  BY DEF JobLife
<1>4. CASE JobLife(k) = "live"
  BY <1>1, <1>2, <1>3, <1>4 DEF Life!DoomJob
<1>5. CASE JobLife(k) # "live"
  BY <1>1, <1>2, <1>3, <1>5 DEF Life!vars
<1> QED
  BY <1>4, <1>5

LEMMA LifeOfJobs ==
    ASSUME TypeOK, TreeOK, EndsInv, NEW a \in Actors,
           \/ \E j \in Jobs : DropJob(a, j) \/ \E c \in Jobs : CreateJob(a, j, c)
           \/ JobKill(a) \/ RemoveChild(a)
    PROVE  [Life!Next]_(Life!vars)
<1>1. ASSUME NEW j \in Jobs, NEW c \in Jobs, CreateJob(a, j, c) PROVE Life!AddJob(j, c)
  <2>1. /\ j \in born \ freed /\ Accepts(j) /\ c \notin born
        /\ born' = born \cup {c}
        /\ parent' = [parent EXCEPT ![c] = j]
        /\ children' = [children EXCEPT ![j] = @ \cup {c}]
        /\ UNCHANGED <<freed, killed, processes, owner, status, retcode>>
    BY <1>1 DEF CreateJob, Adopt, procVars
  <2>2. JobLife(j) = "live" /\ JobLife(c) = "none"
    BY <2>1, AcceptingIsLive DEF JobLife
  <2>3. JobLife(c)' = "live"
    BY <2>1 DEF JobLife, EndsInv, JobsOK, TypeOK
  <2>4. ASSUME NEW k \in Jobs \ {c} PROVE JobLife(k)' = JobLife(k)
    <3>1. CASE k \notin born
      BY <2>1, <3>1 DEF JobLife
    <3>2. CASE k = RootJob
      BY <2>1, <3>2 DEF JobLife
    <3>3. CASE k \in born \ {RootJob}
      <4>1. parent[k] \in Jobs /\ parent'[k] = parent[k]
        BY <2>1, <3>3 DEF TreeOK, LinksOK, TypeOK
      <4>2. k \in children'[parent[k]] <=> k \in children[parent[k]]
        BY <2>1, <4>1 DEF TypeOK
      <4> QED
        BY <2>1, <3>3, <4>1, <4>2 DEF JobLife
    <3> QED
      BY <3>1, <3>2, <3>3
  <2>5. \A p \in Procs : ProcLife(p)' = ProcLife(p)
    BY <2>1 DEF ProcLife
  <2> QED
    BY <2>1, <2>2, <2>3, <2>4, <2>5 DEF Life!AddJob
<1>2. ASSUME NEW j \in Jobs, DropJob(a, j) PROVE Life!DoomJob(j) \/ UNCHANGED Life!vars
  <2>1. /\ freed' = freed \cup {j}
        /\ UNCHANGED <<born, parent, killed, children, processes, owner, status, retcode>>
    BY <1>2 DEF DropJob, procVars
  <2> QED
    BY <2>1, DoomStep
<1>3. ASSUME JobKill(a) PROVE \E j \in Jobs : Life!DoomJob(j) \/ UNCHANGED Life!vars
  <2>0. PICK k \in Jobs : k = On(a)
    BY <1>3, FrameKinds DEF JobKill
  <2>1. /\ killed' = [killed EXCEPT ![k] = TRUE]
        /\ UNCHANGED <<born, freed, parent, children, processes, owner, status, retcode>>
    BY <1>3, <2>0 DEF JobKill, procVars
  <2>2. Life!DoomJob(k) \/ UNCHANGED Life!vars
    <3>1. killed'[k] /\ \A j \in Jobs \ {k} : killed'[j] = killed[j]
      BY <2>1 DEF TypeOK
    <3> QED
      BY <2>1, <3>1, DoomStep
  <2> QED
    BY <2>2
<1>4. ASSUME RemoveChild(a) PROVE \E j \in Jobs : Life!LeaveJob(j) \/ UNCHANGED Life!vars
  <2>0. PICK j \in Jobs, c \in Jobs : j = On(a) /\ c = Arg(a)
    BY <1>4, FrameKinds DEF RemoveChild
  <2>1. c \in born \ {RootJob} /\ j = parent[c] /\ Ending(c)
    BY <1>4, <2>0 DEF RemoveChild, EndsInv, Knows
  <2>2. /\ children' = [children EXCEPT ![j] = @ \ {c}]
        /\ UNCHANGED <<born, freed, parent, killed, processes, owner, status, retcode>>
    BY <1>4, <2>0 DEF RemoveChild, procVars
  <2>3. \A p \in Procs : ProcLife(p)' = ProcLife(p)
    BY <2>2 DEF ProcLife
  <2>4. ASSUME NEW k \in Jobs \ {c} PROVE JobLife(k)' = JobLife(k)
    <3>1. CASE k \notin born \/ k = RootJob
      BY <2>2, <3>1 DEF JobLife
    <3>2. CASE k \in born \ {RootJob}
      <4>1. parent[k] \in Jobs
        BY <3>2 DEF TreeOK, LinksOK, TypeOK
      <4>2. k \in children'[parent[k]] <=> k \in children[parent[k]]
        BY <2>2, <4>1 DEF TypeOK
      <4> QED
        BY <2>2, <3>2, <4>2 DEF JobLife
    <3> QED
      BY <3>1, <3>2
  <2>5. JobLife(c)' = "out"
    BY <2>1, <2>2 DEF JobLife, TypeOK
  <2>6. CASE c \in children[j]
    <3>1. JobLife(c) = "dying"
      BY <2>1, <2>6 DEF JobLife, Ending
    <3>2. ASSUME NEW d \in Jobs, parent[d] = c PROVE JobLife(d) = "out"
      <4>1. d \in born \ {RootJob}
        BY <3>2, Kinds DEF EndsInv, JobsOK
      <4>2. d \notin children[c]
        BY <2>1 DEF Ending, Childless
      <4> QED
        BY <3>2, <4>1, <4>2 DEF JobLife
    <3>3. ASSUME NEW p \in Procs, owner[p] = c PROVE ProcLife(p) = "out"
      BY <2>1, <3>3, Kinds DEF Ending, Childless, ProcLife
    <3>4. Life!Emptied(c)
      BY <3>2, <3>3 DEF Life!Emptied
    <3>5. Life!LeaveJob(c)
      BY <2>1, <2>2, <2>3, <2>4, <2>5, <3>1, <3>4 DEF Life!LeaveJob
    <3> QED
      BY <3>5
  <2>7. CASE c \notin children[j]
    <3>1. JobLife(c) = "out"
      BY <2>1, <2>7 DEF JobLife
    <3> QED
      BY <2>2, <2>3, <2>4, <2>5, <3>1 DEF Life!vars
  <2> QED
    BY <2>6, <2>7
<1> QED
  BY <1>1, <1>2, <1>3, <1>4 DEF Life!Next

LEMMA LifeOfProcesses ==
    ASSUME TypeOK, TreeOK, EndsInv, NEW a \in Actors,
           \/ \E p \in Procs : \/ \E j \in Jobs : CreateProcess(a, j, p)
                               \/ \E t \in Threads : StartProcess(a, p, t)
           \/ ProcExit(a) \/ ProcTerminate(a) \/ RemoveProcess(a)
    PROVE  [Life!Next]_(Life!vars)
<1>0. ASSUME UNCHANGED <<born, freed, parent, killed, children>>
      PROVE  \A j \in Jobs : JobLife(j)' = JobLife(j)
  BY <1>0 DEF JobLife
<1>1. ASSUME NEW j \in Jobs, NEW p \in Procs, CreateProcess(a, j, p) PROVE Life!AddProc(j, p)
  <2>1. /\ j \in born \ freed /\ Accepts(j) /\ owner[p] = None
        /\ owner' = [owner EXCEPT ![p] = j]
        /\ processes' = [processes EXCEPT ![j] = @ \cup {p}]
        /\ status' = [status EXCEPT ![p] = "Init"]
        /\ UNCHANGED <<born, freed, parent, killed, children, retcode>>
    BY <1>1 DEF CreateProcess
  <2>2. JobLife(j) = "live" /\ ProcLife(p) = "none"
    BY <2>1, AcceptingIsLive DEF ProcLife
  <2>3. ProcLife(p)' = "Init"
    BY <2>1, Kinds DEF ProcLife, TypeOK
  <2>4. ASSUME NEW r \in Procs \ {p} PROVE ProcLife(r)' = ProcLife(r)
    <3>1. CASE owner[r] = None
      BY <2>1, <3>1 DEF ProcLife, TypeOK
    <3>2. CASE owner[r] # None
      BY <2>1, <3>2 DEF ProcLife, TypeOK
    <3> QED
      BY <3>1, <3>2
  <2> QED
    BY <1>0, <2>1, <2>2, <2>3, <2>4 DEF Life!AddProc
<1>2. ASSUME NEW p \in Procs, owner[p] # None, ~Exited(p), NEW s \in {"Running", "Exited"},
             status' = [status EXCEPT ![p] = s],
             UNCHANGED <<born, freed, parent, killed, children, processes, owner>>
      PROVE  /\ ProcLife(p) = status[p] /\ status[p] \in {"Init", "Running"}
             /\ [r \in Procs |-> ProcLife(r)]' = [[r \in Procs |-> ProcLife(r)] EXCEPT ![p] = s]
             /\ [j \in Jobs |-> JobLife(j)]' = [j \in Jobs |-> JobLife(j)]
  <2>1. ProcLife(p)' = s
    BY <1>2 DEF ProcLife, EndsInv, ProcsOK, TypeOK
  <2>2. \A r \in Procs \ {p} : ProcLife(r)' = ProcLife(r)
    BY <1>2 DEF ProcLife, TypeOK
  <2> QED
    BY <1>0, <1>2, <2>1, <2>2, UnexitedIsIn
<1>3. ASSUME NEW p \in Procs, NEW t \in Threads, StartProcess(a, p, t) PROVE Life!StartProc(p)
  <2>1. /\ status[p] = "Init" /\ status' = [status EXCEPT ![p] = "Running"]
        /\ UNCHANGED <<born, freed, parent, killed, children, processes, owner, retcode>>
    BY <1>3 DEF StartProcess, jobVars
  <2>2. owner[p] # None /\ ~Exited(p)
    BY <2>1 DEF EndsInv, ProcsOK, Exited
  <2> QED
    BY <1>2, <2>1, <2>2 DEF Life!StartProc
<1>4. ASSUME ProcExit(a) \/ ProcTerminate(a)
      PROVE  \E p \in Procs : \/ \E c \in ExitCodes : Life!ExitProc(p, c)
                              \/ UNCHANGED Life!vars
  <2>0. PICK p \in Procs : p = On(a)
    BY <1>4, FrameKinds DEF ProcExit, ProcTerminate
  <2>1. owner[p] # None
    BY <2>0 DEF TreeOK, ActorsOK, Exists
  <2>2. UNCHANGED <<born, freed, parent, killed, children, processes, owner>>
    BY <1>4 DEF ProcExit, ProcTerminate, jobVars
  <2>3. CASE Exited(p)
    <3>1. UNCHANGED <<status, retcode>>
      BY <1>4, <2>0, <2>3 DEF ProcExit, ProcTerminate, TerminalCode, Exited, TypeOK
    <3> QED
      BY <2>2, <3>1, LifeStutter
  <2>4. CASE ~Exited(p)
    <3>1. PICK c \in ExitCodes : /\ status' = [status EXCEPT ![p] = "Exited"]
                                 /\ retcode' = [retcode EXCEPT ![p] = c]
      BY <1>4, <2>0, <2>4, FrameKinds DEF ProcExit, ProcTerminate, TerminalCode, Exited, ExitCodes
    <3>2. Life!ExitProc(p, c)
      BY <1>2, <2>1, <2>2, <2>4, <3>1 DEF Life!ExitProc
    <3> QED
      BY <3>2
  <2> QED
    BY <2>3, <2>4
<1>5. ASSUME RemoveProcess(a) PROVE \E p \in Procs : Life!LeaveProc(p) \/ UNCHANGED Life!vars
  <2>0. PICK j \in Jobs, p \in Procs : j = On(a) /\ p = Arg(a)
    BY <1>5, FrameKinds DEF RemoveProcess
  <2>1. owner[p] = j /\ Exited(p)
    BY <1>5, <2>0 DEF RemoveProcess, EndsInv, Knows
  <2>2. /\ processes' = [processes EXCEPT ![j] = @ \ {p}]
        /\ UNCHANGED <<born, freed, parent, killed, children, owner, status, retcode>>
    BY <1>5, <2>0 DEF RemoveProcess, procVars
  <2>3. \A r \in Procs \ {p} : ProcLife(r)' = ProcLife(r)
    BY <2>2 DEF ProcLife, TypeOK
  <2>4. ProcLife(p)' = "out"
    BY <2>1, <2>2, Kinds DEF ProcLife, TypeOK
  <2>5. CASE p \in processes[j]
    <3>1. ProcLife(p) = "Exited"
      BY <2>1, <2>5, Kinds DEF ProcLife, Exited
    <3> QED
      BY <1>0, <2>2, <2>3, <2>4, <3>1 DEF Life!LeaveProc
  <2>6. CASE p \notin processes[j]
    <3>1. ProcLife(p) = "out"
      BY <2>1, <2>6, Kinds DEF ProcLife
    <3> QED
      BY <1>0, <2>2, <2>3, <2>4, <3>1 DEF Life!vars
  <2> QED
    BY <2>5, <2>6
<1> QED
  BY <1>1, <1>3, <1>4, <1>5 DEF Life!Next, Life!ExitCodes, ExitCodes

LEMMA LifeInit == Init => Life!Init
<1> SUFFICES ASSUME Init PROVE Life!Init
  OBVIOUS
<1>1. \A j \in Jobs : JobLife(j) = IF j = RootJob THEN "live" ELSE "none"
  BY DEF Init, JobLife
<1>2. \A p \in Procs : ProcLife(p) = "none"
  BY DEF Init, ProcLife
<1> QED
  BY <1>1, <1>2 DEF Init, Life!Init

LEMMA LifeStep ==
    TypeOK /\ TreeOK /\ EndsInv /\ [Next]_vars => [Life!Next]_(Life!vars)
<1> SUFFICES ASSUME TypeOK, TreeOK, EndsInv, [Next]_vars PROVE [Life!Next]_(Life!vars)
  OBVIOUS
<1>1. \/ UNCHANGED <<born, freed, parent, killed, children, processes, owner, status, retcode>>
      \/ \E a \in Actors :
           \/ \E j \in Jobs : DropJob(a, j) \/ \E c \in Jobs : CreateJob(a, j, c)
           \/ JobKill(a) \/ RemoveChild(a)
           \/ \E p \in Procs : \/ \E j \in Jobs : CreateProcess(a, j, p)
                               \/ \E t \in Threads : StartProcess(a, p, t)
           \/ ProcExit(a) \/ ProcTerminate(a) \/ RemoveProcess(a)
  <2>1. ASSUME NEW a \in Actors,
               RemoveThread(a) \/ \E p \in Procs : \E t \in Threads : CreateThread(a, p, t)
        PROVE  UNCHANGED <<born, freed, parent, killed, children, processes, owner, status, retcode>>
    BY <2>1 DEF RemoveThread, CreateThread, jobVars
  <2>2. UNCHANGED jobVars => UNCHANGED <<born, freed, parent, killed, children, processes>>
    BY DEF jobVars
  <2> QED
    BY <2>1, <2>2, JobSteps, ProcSteps
<1> QED
  BY <1>1, LifeStutter, LifeOfJobs, LifeOfProcesses

\* The task tree implements the abstract life cycle of jobs and processes: seen
\* through the lists and flags, every step of the lock-level code is a step of
\* TaskLife or none at all (LifeSpec).
THEOREM TreeImplementsLife == Spec => LifeSpec
<1>1. Init => Life!Init
  BY LifeInit
<1>2. TypeOK /\ TreeOK /\ EndsInv /\ [Next]_vars => [Life!Next]_(Life!vars)
  BY LifeStep
<1> QED
  BY <1>1, <1>2, TreeCorrect, Ends, PTL DEF Spec, LifeSpec, Life!Spec

-----------------------------------------------------------------------------
(* Locks.  They form an order but for one place: a section that rises       *)
(* through the jobs holds the jobs below the one it wants, whoever wants a   *)
(* process waits for an actor on its way up or for one that walks over the   *)
(* threads, and a thread's lock is kept only by its own end.                 *)

\* A job is not below itself, through any number of parents.
Acyclic == \A S \in SUBSET born : S # {} => \E j \in S : parent[j] \notin S

\* Sections on the way up through the jobs, and those that walk over the threads
\* of a process
Rising == {"job.terminate", "job.remove_child"}
Walking == {"proc.killing", "proc.suspending", "proc.resuming"}

Holders ==
    /\ lock[RootJob] = None
    /\ \A j \in Jobs : lock[j] # None =>
         /\ j \in born \ {RootJob}
         /\ \/ lock[parent[j]] = lock[j]
            \/ On(lock[j]) = parent[j] /\ pc[lock[j]].at \in Rising
    /\ \A p \in Procs : lock[p] # None =>
         pc[lock[p]].at \in Rising \cup Walking \cup {"job.remove_process"}
    /\ \A x \in Locks : lock[x] # None =>
         pc[lock[x]].at \notin {"idle", "job.kill", "proc.exit", "thread.start"}

\* An actor that walks over the threads of a process has it locked, and those
\* still ahead are on its list.
Walkers == \A a \in Actors : pc[a].at \in Walking =>
    lock[On(a)] = a /\ Left(a) # {} /\ Left(a) \subseteq threads[On(a)]
EndsLocked == \A t \in Threads : lock[t] # None => lock[t] = t /\ tstate[t] = "Dead"

LocksInv == Acyclic /\ Holders /\ Walkers /\ EndsLocked

LEMMA OneDeadlockFromLocks ==
    ASSUME TypeOK, TreeOK, EndsInv, LocksInv
    PROVE  OneDeadlock
<1> SUFFICES ASSUME NEW D \in (SUBSET Actors) \ {{}}, Stuck(D)
             PROVE  \E a \in D : Left(a) # {} /\ \A t \in Left(a) : Crossed(a, t)
  BY DEF OneDeadlock, BlockedWalk
<1>1. None \notin D /\ \A a \in D : a \in Actors
  BY Kinds
<1>2. ASSUME NEW a \in D
      PROVE  /\ ~At(a, "idle")
             /\ Left(a) = {} => lock[On(a)] \in D
             /\ \A t \in Left(a) : lock[t] \in D
  BY <1>2 DEF Stuck, Wanted
<1>3. ASSUME NEW a \in Actors
      PROVE  Left(a) # {} <=> pc[a].at \in Walking
  <2>1. pc[a] \in Frames
    BY DEF TypeOK
  <2>2. Left(a) # {} => pc[a].at \in Walking
    BY <2>1 DEF Frames, Left, Walking
  <2> QED
    BY <2>2 DEF LocksInv, Walkers
<1>4. ASSUME NEW j \in born, lock[j] \in D PROVE FALSE
  <2> DEFINE S == {k \in born : lock[k] \in D}
  <2>1. PICK k \in S : parent[k] \notin S
    <3>1. S \in SUBSET born /\ S # {}
      BY <1>4
    <3> QED
      BY <3>1 DEF LocksInv, Acyclic
  <2>2. k \in Jobs /\ lock[k] # None /\ lock[k] \in Actors
    BY <1>1 DEF TypeOK
  <2>3. k \in born \ {RootJob} /\ parent[k] \in born
    BY <2>2 DEF LocksInv, Holders, TreeOK, LinksOK
  <2>4. lock[parent[k]] = lock[k]
        \/ (On(lock[k]) = parent[k] /\ pc[lock[k]].at \notin Walking)
    BY <2>2 DEF LocksInv, Holders, Rising, Walking
  <2>5. lock[parent[k]] \in D
    BY <1>2, <1>3, <2>2, <2>4
  <2> QED
    BY <2>1, <2>3, <2>5
<1>5. ASSUME NEW a \in D, pc[a].at \in {"job.kill", "job.terminate", "job.remove_child",
                                       "job.remove_process"}
      PROVE  FALSE
  <2>1. On(a) \in born
    BY <1>1, <1>5, FrameKinds DEF At, TreeOK, ActorsOK, Exists
  <2>2. Left(a) = {}
    BY <1>1, <1>3, <1>5 DEF Walking
  <2> QED
    BY <1>2, <1>4, <2>1, <2>2
<1>6. ASSUME NEW a \in D, pc[a].at \in Walking
      PROVE  Left(a) # {} /\ \A t \in Left(a) : Crossed(a, t)
  <2>1. PICK p \in Procs : p = On(a) /\ lock[p] = a /\ Left(a) \subseteq threads[p] /\ Left(a) # {}
    BY <1>1, <1>6, FrameKinds DEF LocksInv, Walkers, Walking, At
  <2>2. ASSUME NEW t \in Left(a) PROVE Crossed(a, t)
    <3>1. t \in Threads /\ t \in threads[p] /\ home[t] = p
      BY <2>1 DEF TypeOK, TreeOK, LinksOK
    <3>2. lock[t] = t /\ tstate[t] = "Dead"
      BY <1>1, <1>2, <3>1 DEF LocksInv, EndsLocked
    <3>3. At(t, "proc.remove_thread") /\ On(t) = home[t]
      BY <3>1, <3>2 DEF EndsInv, DeadThreadLeaves, Knows, Actors
    <3> QED
      BY <2>1, <3>1, <3>2, <3>3 DEF Crossed, Entering
  <2> QED
    BY <2>1, <2>2
<1>7. PICK a \in D : TRUE
  OBVIOUS
<1>8. CASE At(a, "thread.start")
  <2>1. On(a) \in Threads /\ lock[On(a)] # None
    BY <1>1, <1>2, <1>3, <1>8, FrameKinds DEF At, Walking
  <2>2. tstate[On(a)] = "Dead"
    BY <2>1 DEF LocksInv, EndsLocked
  <2> QED
    BY <1>1, <1>8, <2>1, <2>2 DEF EndsInv, StartsOnce
<1>9. CASE On(a) \in Procs /\ pc[a].at \notin Walking
  <2>1. PICK b \in D : b = lock[On(a)]
    BY <1>1, <1>2, <1>3, <1>9
  <2>2. pc[b].at \in Rising \cup Walking \cup {"job.remove_process"}
    BY <1>1, <1>9, <2>1 DEF LocksInv, Holders
  <2> QED
    BY <1>5, <1>6, <2>1, <2>2 DEF Rising
<1>10. \/ At(a, "idle") \/ At(a, "thread.start") \/ On(a) \in Procs
       \/ pc[a].at \in {"job.kill", "job.terminate", "job.remove_child", "job.remove_process"}
  <2>1. pc[a] \in Frames
    BY <1>1 DEF TypeOK
  <2> QED
    BY <2>1 DEF Frames, At, On
<1> QED
  BY <1>2, <1>5, <1>6, <1>8, <1>9, <1>10

LEMMA AcyclicStep ==
    ASSUME TypeOK, TreeOK, EndsInv, Acyclic, [Next]_vars
    PROVE  Acyclic'
<1>1. ASSUME UNCHANGED <<born, parent>> PROVE Acyclic'
  BY <1>1 DEF Acyclic
<1>2. ASSUME NEW a \in Actors, NEW k \in Jobs, NEW c \in Jobs, CreateJob(a, k, c)
      PROVE  Acyclic'
  <2>1. /\ k \in born /\ c \notin born
        /\ born' = born \cup {c}
        /\ parent' = [parent EXCEPT ![c] = k]
    BY <1>2 DEF CreateJob, Adopt
  <2> SUFFICES ASSUME NEW S \in SUBSET (born \cup {c}), S # {}
               PROVE  \E j \in S : parent'[j] \notin S
    BY <2>1 DEF Acyclic
  <2>2. CASE S = {c}
    BY <2>1, <2>2 DEF TypeOK
  <2>3. CASE S # {c}
    <3>1. S \ {c} \in SUBSET born /\ S \ {c} # {}
      BY <2>3
    <3>2. PICK j \in S \ {c} : parent[j] \notin S \ {c}
      BY <3>1 DEF Acyclic
    <3>3. parent[j] # c
      BY <2>1, <3>1, Kinds DEF EndsInv, JobsOK, TreeOK, LinksOK
    <3> QED
      BY <2>1, <3>1, <3>2, <3>3 DEF TypeOK
  <2> QED
    BY <2>2, <2>3
<1>3. UNCHANGED <<born, parent>>
      \/ \E a \in Actors : \E k \in Jobs : \E c \in Jobs : CreateJob(a, k, c)
  BY JobSteps DEF jobVars, CreateProcess, DropJob, JobKill, RemoveChild, RemoveProcess
<1> QED
  BY <1>1, <1>2, <1>3

-----------------------------------------------------------------------------
(* Who holds what *)

\* The locks stay as they are; the actor that moves holds none.
LEMMA HoldersKept ==
    ASSUME TypeOK, Holders, TreeOK, Steady, UNCHANGED lock,
           NEW a \in Actors, \A b \in Actors : b # a => pc'[b] = pc[b],
           pc'[a] = pc[a] \/ \A x \in Locks : lock[x] # a
    PROVE  Holders'
<1>1. \A x \in Locks : lock[x] # None => pc'[lock[x]] = pc[lock[x]]
  BY DEF TypeOK
<1>2. \A j \in Jobs : lock[j] # None => j \in born' \ {RootJob} /\ parent'[j] = parent[j]
  BY DEF Holders, Steady
<1> QED
  BY <1>1, <1>2 DEF Holders, On

LEMMA HoldersReturn ==
    ASSUME TypeOK, Holders, TreeOK, UNCHANGED <<born, parent>>, NEW a \in Actors, Return(a)
    PROVE  Holders'
<1>1. \A x \in Locks : lock'[x] # None => lock'[x] = lock[x] /\ lock[x] # a
  BY DEF Return, TypeOK
<1>2. \A x \in Locks : lock'[x] # None => pc'[lock[x]] = pc[lock[x]]
  BY <1>1 DEF Return, TypeOK, On
<1>3. \A x \in Locks : lock[x] # a => lock'[x] = lock[x]
  BY DEF Return
<1>4. ASSUME NEW j \in Jobs, lock'[j] # None
      PROVE  /\ j \in born' \ {RootJob}
             /\ \/ lock'[parent'[j]] = lock'[j]
                \/ pc'[lock'[j]].on = parent'[j] /\ pc'[lock'[j]].at \in Rising
  <2>1. lock[j] # None /\ lock[j] # a /\ lock'[j] = lock[j]
    BY <1>1, <1>4
  <2>2. parent[j] \in Jobs /\ j \in born \ {RootJob}
    BY <2>1 DEF Holders, TreeOK, LinksOK, TypeOK
  <2> QED
    BY <1>2, <1>3, <1>4, <2>1, <2>2 DEF Holders, On
<1>5. lock'[RootJob] = None
  BY <1>1, RootAssumption DEF Holders
<1> QED
  BY <1>1, <1>2, <1>4, <1>5 DEF Holders, On

LEMMA IdleHoldsNone ==
    ASSUME TypeOK, Holders, NEW a \in Actors,
           pc[a].at \in {"idle", "job.kill", "proc.exit", "thread.start"}
    PROVE  \A x \in Locks : lock[x] # a
BY Kinds DEF Holders

\* An actor goes on with all its locks, and takes at most the one it waited for.
LEMMA HoldersGoOn ==
    ASSUME TypeOK, Holders, TreeOK, UNCHANGED <<born, parent>>, NEW a \in Actors, NEW f,
           pc' = [pc EXCEPT ![a] = f],
           NEW y, y \notin Jobs, UNCHANGED lock \/ (Free(y) /\ lock' = [lock EXCEPT ![y] = a]),
           f.at \notin {"idle", "job.kill", "proc.exit", "thread.start"},
           \A j \in Jobs : lock[j] = a => lock[parent[j]] = a \/ (f.on = parent[j] /\ f.at \in Rising),
           \A p \in Procs : lock'[p] = a =>
               f.at \in Rising \cup Walking \cup {"job.remove_process"}
    PROVE  Holders'
<1>0. RootJob # y /\ \A j \in Jobs : j # y
  BY RootAssumption
<1>1. \A x \in Locks : x # y => lock'[x] = lock[x]
  BY DEF TypeOK
<1>2. y \in Locks => lock'[y] \in {lock[y], a}
  BY DEF TypeOK
<1>3. \A b \in Actors : b # a => pc'[b] = pc[b]
  BY DEF TypeOK
<1>4. pc'[a] = f
  BY DEF TypeOK
<1>5. ASSUME NEW j \in Jobs, lock'[j] # None
      PROVE  /\ j \in born' \ {RootJob}
             /\ \/ lock'[parent'[j]] = lock'[j]
                \/ pc'[lock'[j]].on = parent'[j] /\ pc'[lock'[j]].at \in Rising
  <2>1. lock'[j] = lock[j] /\ lock[j] \in Actors
    BY <1>0, <1>1, <1>5 DEF TypeOK
  <2>2. j \in born \ {RootJob} /\ parent[j] \in Jobs
    BY <1>5, <2>1 DEF Holders, TreeOK, LinksOK, TypeOK
  <2>3. lock'[parent[j]] = lock[parent[j]]
    BY <1>0, <1>1, <2>2
  <2>4. CASE lock[j] = a
    BY <1>4, <2>1, <2>2, <2>3, <2>4
  <2>5. CASE lock[j] # a
    BY <1>3, <1>5, <2>1, <2>2, <2>3, <2>5 DEF Holders, On
  <2> QED
    BY <2>4, <2>5
<1>6. lock'[RootJob] = None
  BY <1>0, <1>1, RootAssumption DEF Holders
<1>7. ASSUME NEW x \in Locks, lock'[x] # None
      PROVE  pc'[lock'[x]].at \notin {"idle", "job.kill", "proc.exit", "thread.start"}
  <2>1. CASE lock'[x] = a
    BY <1>4, <2>1
  <2>2. CASE lock'[x] # a
    <3>1. lock'[x] = lock[x] /\ lock[x] \in Actors
      BY <1>1, <1>2, <1>7, <2>2 DEF TypeOK
    <3> QED
      BY <1>3, <1>7, <2>2, <3>1 DEF Holders
  <2> QED
    BY <2>1, <2>2
<1>8. ASSUME NEW p \in Procs, lock'[p] # None
      PROVE  pc'[lock'[p]].at \in Rising \cup Walking \cup {"job.remove_process"}
  <2>1. CASE lock'[p] = a
    BY <1>4, <2>1
  <2>2. CASE lock'[p] # a
    <3>1. lock'[p] = lock[p] /\ lock[p] \in Actors
      BY <1>1, <1>2, <1>8, <2>2 DEF TypeOK
    <3> QED
      BY <1>3, <1>8, <2>2, <3>1 DEF Holders
  <2> QED
    BY <2>1, <2>2
<1> QED
  BY <1>5, <1>6, <1>7, <1>8 DEF Holders, On

LEMMA HoldersStep ==
    ASSUME TypeOK, TreeOK, EndsInv, LocksInv, [Next]_vars
    PROVE  Holders'
<1> USE DEF Enter
<1>0. Steady /\ Holders
  BY SteadyStep DEF EndsInv, LocksInv
<1>1. ASSUME UNCHANGED <<lock, pc>> PROVE Holders'
  <2>1. CASE \E a : a \in Actors
    BY <1>0, <1>1, <2>1, HoldersKept
  <2>2. CASE ~ \E a : a \in Actors
    <3>1. \A x \in Locks : lock[x] = None
      BY <2>2 DEF TypeOK
    <3> QED
      BY <1>1, <3>1, RootAssumption DEF Holders
  <2> QED
    BY <2>1, <2>2
<1>2. ASSUME NEW a \in Actors, UNCHANGED lock, NEW f, pc' = [pc EXCEPT ![a] = f],
             pc[a].at \in {"idle", "job.kill", "proc.exit", "thread.start"}
      PROVE  Holders'
  <2>1. \A x \in Locks : lock[x] # a
    BY <1>0, <1>2, IdleHoldsNone
  <2>2. \A b \in Actors : b # a => pc'[b] = pc[b]
    BY <1>2 DEF TypeOK
  <2> QED
    BY <1>0, <1>2, <2>1, <2>2, HoldersKept
<1>18. ASSUME NEW a \in Actors, NEW p \in Procs, SuspendProcess(a, p) \/ ResumeProcess(a, p)
       PROVE  Holders'
  <2>1. PICK at \in {"proc.suspending", "proc.resuming"} : WalkProcess(a, p, at)
    BY <1>18 DEF SuspendProcess, ResumeProcess
  <2>2. pc[a].at = "idle"
    BY <1>18 DEF SuspendProcess, ResumeProcess, MayCall, Ready, Idle, Frame
  <2>3. CASE UNCHANGED <<lock, pc>>
    BY <1>1, <2>3
  <2>4. CASE pc' = [pc EXCEPT ![a] = Walk(at, p, threads[p])] /\ lock' = [lock EXCEPT ![p] = a]
    <3>1. PICK f : f = Walk(at, p, threads[p])
      OBVIOUS
    <3>2. f.at \in Walking /\ pc' = [pc EXCEPT ![a] = f]
      BY <2>4, <3>1 DEF Walk, Walking
    <3>3. \A x \in Locks : lock[x] # a
      BY <1>0, <2>2, IdleHoldsNone
    <3>4. Free(p) /\ UNCHANGED <<born, parent>>
      BY <2>1 DEF WalkProcess, jobVars
    <3>5. f.at \notin {"idle", "job.kill", "proc.exit", "thread.start"}
      BY <3>2 DEF Walking
    <3> QED
      BY <1>0, <2>4, <3>2, <3>3, <3>4, <3>5, Kinds, HoldersGoOn
  <2> QED
    BY <2>1, <2>3, <2>4 DEF WalkProcess
<1>3. ASSUME NEW a \in Actors, Call(a) PROVE Holders'
  <2>1. \/ UNCHANGED lock /\ (UNCHANGED pc \/ \E f : pc' = [pc EXCEPT ![a] = f])
        \/ \E p \in Procs : SuspendProcess(a, p) \/ ResumeProcess(a, p)
    BY <1>3 DEF Call, CreateJob, CreateProcess, KillJob, DropJob, StartProcess,
       CreateThread, ExitProcess, StartThread, KillThread
  <2>2. Ready(a)
    BY <1>3 DEF Call, MayCall, CreateJob, CreateProcess, KillJob, DropJob,
       StartProcess, CreateThread, ExitProcess, SuspendProcess, ResumeProcess, StartThread, KillThread
  <2>3. pc[a].at = "idle"
    BY <2>2 DEF Ready, Idle, Frame
  <2> QED
    BY <1>1, <1>2, <1>18, <2>1, <2>3
<1>4. ASSUME NEW t \in Threads, Run(t) PROVE Holders'
  <2>1. CASE RunThread(t) \/ Trap(t) \/ ExitThread(t)
    BY <1>1, <2>1 DEF RunThread, Trap, ExitThread
  <2>2. CASE DropThread(t)
    <3>1. PICK f : f = Frame("proc.remove_thread", home[t], t)
      OBVIOUS
    <3>2. /\ pc' = [pc EXCEPT ![t] = f] /\ f.at = "proc.remove_thread"
          /\ Free(t) /\ lock' = [lock EXCEPT ![t] = t]
          /\ UNCHANGED <<born, parent>>
      BY <2>2, <3>1 DEF DropThread, Frame, jobVars
    <3>3. \A x \in Locks : lock[x] # t
      BY <1>0, <2>2, IdleHoldsNone DEF DropThread, Ready, Idle, Frame
    <3>4. \A p \in Procs : lock'[p] # t
      BY <3>2, <3>3, Kinds DEF TypeOK
    <3> QED
      BY <1>0, <3>2, <3>3, <3>4, Kinds, HoldersGoOn
  <2> QED
    BY <1>4, <2>1, <2>2 DEF Run
<1>5. ASSUME NEW a \in Actors, UNCHANGED <<born, parent>>, Return(a) PROVE Holders'
  BY <1>0, <1>5, HoldersReturn
<1>6. ASSUME NEW a \in Actors, NEW j \in Jobs, On(a) = j, At(a, "job.remove_child") \/ At(a, "job.remove_process"),
             UNCHANGED <<born, parent>>, TerminateIfEmpty(a, j)
      PROVE  Holders'
  <2>1. PICK f : f = Frame("job.terminate", j, None)
    OBVIOUS
  <2>2. CASE Return(a)
    BY <1>5, <1>6, <2>2
  <2>3. CASE pc' = [pc EXCEPT ![a] = f] /\ UNCHANGED lock
    <3>1. f.at = "job.terminate" /\ f.on = j
      BY <2>1 DEF Frame
    <3>2. \A i \in Jobs : lock[i] = a => lock[parent[i]] = a \/ f.on = parent[i]
      BY <1>0, <1>6, <3>1, Kinds DEF Holders
    <3>3. f.at \in Rising /\ f.at \notin {"idle", "job.kill", "proc.exit", "thread.start"}
      BY <3>1 DEF Rising
    <3>4. \A i \in Jobs : lock[i] = a =>
              lock[parent[i]] = a \/ (f.on = parent[i] /\ f.at \in Rising)
      BY <3>2, <3>3
    <3>5. \A p \in Procs : lock'[p] = a =>
              f.at \in Rising \cup Walking \cup {"job.remove_process"}
      BY <3>3
    <3>6. None \notin Jobs
      BY Kinds
    <3> QED
      BY <1>0, <1>6, <2>3, <3>3, <3>4, <3>5, <3>6, HoldersGoOn
  <2> QED
    BY <1>6, <2>1, <2>2, <2>3 DEF TerminateIfEmpty
<1>7. ASSUME NEW a \in Actors, JobTerminate(a), On(a) # RootJob PROVE Holders'
  <2>0. PICK j \in Jobs : j = On(a)
    BY <1>7, FrameKinds DEF JobTerminate
  <2>1. /\ Free(j) /\ lock' = [lock EXCEPT ![j] = a]
        /\ pc' = [pc EXCEPT ![a] = Frame("job.remove_child", parent[j], j)]
        /\ UNCHANGED <<born, parent>>
    BY <1>7, <2>0 DEF JobTerminate, jobVars
  <2>2. j \in born \ {RootJob} /\ a # None
    BY <1>7, <2>0, Kinds DEF TreeOK, ActorsOK, Exists
  <2>3. /\ pc'[a].at = "job.remove_child" /\ pc'[a].on = parent[j]
        /\ \A b \in Actors : b # a => pc'[b] = pc[b]
    BY <2>1 DEF TypeOK, Frame
  <2>4. ASSUME NEW i \in Jobs, lock'[i] # None
        PROVE  /\ i \in born \ {RootJob}
               /\ \/ lock'[parent[i]] = lock'[i]
                  \/ pc'[lock'[i]].on = parent[i] /\ pc'[lock'[i]].at \in Rising
    <3>1. CASE i = j
      BY <2>1, <2>2, <2>3, <3>1 DEF TypeOK, Rising
    <3>2. CASE i # j
      <4>1. lock'[i] = lock[i] /\ lock[i] \in Actors
        BY <2>1, <2>4, <3>2 DEF TypeOK
      <4>2. i \in born \ {RootJob} /\ parent[i] \in Jobs
        BY <2>4, <4>1, <1>0 DEF Holders, TreeOK, LinksOK, TypeOK
      <4>3. parent[i] = j => lock'[parent[i]] = a
        BY <2>1, <4>2 DEF TypeOK
      <4>4. parent[i] # j => lock'[parent[i]] = lock[parent[i]]
        BY <2>1, <4>2 DEF TypeOK
      <4>5. lock[parent[i]] = lock[i] \/ (On(lock[i]) = parent[i] /\ pc[lock[i]].at \in Rising)
        BY <2>4, <4>1, <1>0 DEF Holders
      <4>6. lock[j] = None
        BY <2>1 DEF Free
      <4>7. CASE lock[i] = a
        <5>1. lock'[parent[i]] = a
          BY <2>0, <4>3, <4>4, <4>5, <4>7
        <5> QED
          BY <4>1, <4>2, <4>7, <5>1
      <4>8. CASE lock[i] # a
        <5>1. lock[parent[i]] = lock[i] => parent[i] # j
          BY <2>4, <4>1, <4>6
        <5> QED
          BY <2>3, <4>1, <4>2, <4>4, <4>5, <4>8, <5>1 DEF On
      <4> QED
        BY <4>7, <4>8
    <3> QED
      BY <3>1, <3>2
  <2>5. \A x \in Locks : lock'[x] \in {lock[x], a}
    BY <2>1 DEF TypeOK
  <2>6. lock'[RootJob] = None
    BY <2>1, <2>2, <1>0, RootAssumption DEF Holders, TypeOK
  <2>7. \A x \in Locks : lock'[x] # None =>
           /\ pc'[lock'[x]].at \notin {"idle", "job.kill", "proc.exit", "thread.start"}
           /\ x \in Procs => pc'[lock'[x]].at \in Rising \cup Walking \cup {"job.remove_process"}
    <3> SUFFICES ASSUME NEW x \in Locks, lock'[x] # None
                 PROVE  /\ pc'[lock'[x]].at \notin {"idle", "job.kill", "proc.exit", "thread.start"}
                        /\ x \in Procs => pc'[lock'[x]].at \in Rising \cup Walking \cup {"job.remove_process"}
      OBVIOUS
    <3>1. CASE lock'[x] = a
      BY <2>3, <3>1 DEF Rising
    <3>2. CASE lock'[x] # a
      <4>1. lock'[x] = lock[x] /\ lock[x] \in Actors
        BY <2>5, <3>2 DEF TypeOK
      <4> QED
        BY <2>3, <3>2, <4>1, <1>0 DEF Holders
    <3> QED
      BY <3>1, <3>2
  <2> QED
    BY <2>1, <2>4, <2>6, <2>7 DEF Holders, On
<1>8. ASSUME NEW a \in Actors, ProcExit(a) PROVE Holders'
  <2>0. PICK p \in Procs : p = On(a)
    BY <1>8, FrameKinds DEF ProcExit
  <2>1. pc[a].at = "proc.exit" /\ UNCHANGED <<born, parent>> /\ Free(p)
    BY <1>8, <2>0 DEF ProcExit, At, jobVars
  <2>2. CASE Return(a)
    BY <1>5, <2>1, <2>2
  <2>3. CASE pc' = [pc EXCEPT ![a] = Frame("proc.terminate", p, None)] /\ UNCHANGED lock
    BY <1>2, <2>1, <2>3
  <2>4. CASE /\ pc' = [pc EXCEPT ![a] = Walk("proc.killing", p, threads[p])]
             /\ lock' = [lock EXCEPT ![p] = a]
    <3>1. PICK f : f = Walk("proc.killing", p, threads[p])
      OBVIOUS
    <3>2. f.at = "proc.killing" /\ f.at \in Walking /\ pc' = [pc EXCEPT ![a] = f]
      BY <2>4, <3>1 DEF Walk, Walking
    <3>3. \A x \in Locks : lock[x] # a
      BY <1>0, <2>1, IdleHoldsNone
    <3> QED
      BY <1>0, <2>1, <2>4, <3>2, <3>3, Kinds, HoldersGoOn
  <2> QED
    BY <1>8, <2>0, <2>2, <2>3, <2>4 DEF ProcExit
<1>9. ASSUME NEW a \in Actors, ProcKilling(a) \/ ProcSuspending(a) \/ ProcResuming(a)
      PROVE  Holders'
  <2>1. PICK t \in Left(a) : WalkOn(a, t)
    BY <1>9 DEF ProcKilling, ProcSuspending, ProcResuming
  <2>2. pc[a].at \in Walking /\ UNCHANGED <<born, parent>>
    BY <1>9 DEF ProcKilling, ProcSuspending, ProcResuming, At, jobVars, Walking
  <2>3. CASE Return(a)
    BY <1>5, <2>2, <2>3
  <2>4. CASE /\ pc' = [pc EXCEPT ![a] = Walk(pc[a].at, On(a), Left(a) \ {t})]
             /\ UNCHANGED lock
    <3>1. PICK f : f = Walk(pc[a].at, On(a), Left(a) \ {t})
      OBVIOUS
    <3>2. f.at \in Walking /\ pc' = [pc EXCEPT ![a] = f]
      BY <2>2, <2>4, <3>1 DEF Walk
    <3>3. \A j \in Jobs : lock[j] = a => lock[parent[j]] = a
      BY <1>0, <2>2, Kinds DEF Holders, Rising, Walking
    <3>4. f.at \notin {"idle", "job.kill", "proc.exit", "thread.start"}
      BY <3>2 DEF Walking
    <3> QED
      BY <1>0, <2>2, <2>4, <3>2, <3>3, <3>4, Kinds, HoldersGoOn
  <2> QED
    BY <2>1, <2>3, <2>4 DEF WalkOn
<1>10. ASSUME NEW a \in Actors, ProcTerminate(a) PROVE Holders'
  <2>0. PICK p \in Procs : p = On(a)
    BY <1>10, FrameKinds DEF ProcTerminate
  <2>1. PICK f : f = Frame("job.remove_process", owner[p], p)
    OBVIOUS
  <2>2. /\ pc[a].at = "proc.terminate" /\ UNCHANGED <<born, parent>>
        /\ Free(p) /\ lock' = [lock EXCEPT ![p] = a]
        /\ pc' = [pc EXCEPT ![a] = f] /\ f.at = "job.remove_process"
    BY <1>10, <2>0, <2>1 DEF ProcTerminate, At, jobVars, Frame
  <2>3. \A j \in Jobs : lock[j] = a => lock[parent[j]] = a
    BY <1>0, <2>2, Kinds DEF Holders, Rising
  <2> QED
    BY <1>0, <2>2, <2>3, Kinds, HoldersGoOn, ZenonT(60)
<1>11. ASSUME NEW a \in Actors, RemoveThread(a) PROVE Holders'
  <2>0. PICK p \in Procs : p = On(a)
    BY <1>11, FrameKinds DEF RemoveThread
  <2>1. PICK f : f = Frame("proc.terminate", p, None)
    OBVIOUS
  <2>2. /\ pc[a].at = "proc.remove_thread" /\ UNCHANGED <<born, parent>>
        /\ Return(a) \/ (pc' = [pc EXCEPT ![a] = f] /\ UNCHANGED lock)
        /\ f.at = "proc.terminate"
    BY <1>11, <2>0, <2>1 DEF RemoveThread, LastThread, At, jobVars, Frame
  <2>3. /\ \A j \in Jobs : lock[j] = a => lock[parent[j]] = a
        /\ \A r \in Procs : lock[r] # a
    BY <1>0, <2>2, Kinds DEF Holders, Rising, Walking
  <2>4. CASE Return(a)
    BY <1>5, <2>2, <2>4
  <2>5. CASE pc' = [pc EXCEPT ![a] = f] /\ UNCHANGED lock
    BY <1>0, <2>2, <2>3, <2>5, Kinds, HoldersGoOn
  <2> QED
    BY <2>2, <2>4, <2>5
<1>12. ASSUME NEW a \in Actors, ThreadStart(a) PROVE Holders'
  BY <1>5, <1>12 DEF ThreadStart, jobVars
<1>13. ASSUME NEW a \in Actors, JobKill(a) PROVE Holders'
  <2>1. UNCHANGED lock /\ pc[a].at = "job.kill" /\ \E f : pc' = [pc EXCEPT ![a] = f]
    BY <1>13 DEF JobKill, At
  <2> QED
    BY <1>2, <2>1
<1>14. ASSUME NEW a \in Actors, KillLoop(a) PROVE Holders'
  <2>1. UNCHANGED lock /\ \E f : pc' = [pc EXCEPT ![a] = f]
    BY <1>14 DEF KillLoop, KillNext
  <2>2. pc[a].at = "idle"
    BY <1>14 DEF KillLoop, Idle, Frame
  <2> QED
    BY <1>2, <2>1, <2>2
<1>15. ASSUME NEW a \in Actors, JobTerminate(a), On(a) = RootJob PROVE Holders'
  BY <1>5, <1>15 DEF JobTerminate, jobVars
<1>16. ASSUME NEW a \in Actors, RemoveChild(a) \/ RemoveProcess(a) PROVE Holders'
  <2>0. PICK j \in Jobs : j = On(a)
    BY <1>16, FrameKinds DEF RemoveChild, RemoveProcess
  <2> QED
    BY <1>6, <1>16, <2>0 DEF RemoveChild, RemoveProcess
<1>17. ASSUME NEW a \in Actors, Continue(a) PROVE Holders'
  BY <1>7, <1>8, <1>9, <1>10, <1>11, <1>12, <1>13, <1>14, <1>15, <1>16, <1>17 DEF Continue
<1> QED
  BY <1>1, <1>3, <1>4, <1>17 DEF Next, vars

-----------------------------------------------------------------------------
(* Who takes and gives back a lock *)

LEMMA LockStep ==
    ASSUME TypeOK, [Next]_vars, NEW x \in Locks
    PROVE  \/ lock'[x] = lock[x]
           \/ lock[x] = None /\ (x \in Threads => DropThread(x) /\ lock'[x] = x)
           \/ \E a \in Actors : lock[x] = a /\ Return(a)
<1>1. ASSUME NEW a \in Actors, Call(a)
      PROVE  UNCHANGED lock \/ \E y \in Jobs \cup Procs : Free(y) /\ lock' = [lock EXCEPT ![y] = a]
  BY <1>1 DEF Call, CreateJob, CreateProcess, KillJob, DropJob, StartProcess,
     CreateThread, ExitProcess, StartThread, KillThread, SuspendProcess, ResumeProcess, WalkProcess
<1>2. ASSUME NEW t \in Threads, Run(t)
      PROVE  UNCHANGED lock \/ (Free(t) /\ lock' = [lock EXCEPT ![t] = t] /\ DropThread(t))
  BY <1>2 DEF Run, ExitThread, RunThread, Trap, DropThread
<1>3. ASSUME NEW a \in Actors, Return(a)
      PROVE  lock'[x] = lock[x] \/ lock[x] = a
  BY <1>3 DEF Return
<1>4. ASSUME NEW a \in Actors, Continue(a)
      PROVE  \/ UNCHANGED lock \/ Return(a)
             \/ \E y \in Jobs \cup Procs : Free(y) /\ lock' = [lock EXCEPT ![y] = a]
  <2>1. CASE JobTerminate(a)
    <3>1. PICK j \in Jobs : j = On(a)
      BY <2>1, FrameKinds DEF JobTerminate
    <3> QED
      BY <2>1, <3>1 DEF JobTerminate
  <2>2. CASE ProcExit(a) \/ ProcTerminate(a)
    <3>1. PICK p \in Procs : p = On(a)
      BY <2>2, FrameKinds DEF ProcExit, ProcTerminate
    <3> QED
      BY <2>2, <3>1 DEF ProcExit, ProcTerminate
  <2>3. CASE RemoveChild(a) \/ RemoveProcess(a)
    BY <2>3 DEF RemoveChild, RemoveProcess, TerminateIfEmpty
  <2>4. CASE RemoveThread(a) \/ ProcKilling(a) \/ ProcSuspending(a) \/ ProcResuming(a)
    BY <2>4 DEF RemoveThread, LastThread, ProcKilling, ProcSuspending, ProcResuming, WalkOn
  <2>5. CASE ThreadStart(a) \/ JobKill(a) \/ KillLoop(a)
    BY <2>5 DEF ThreadStart, JobKill, KillLoop, KillNext
  <2> QED
    BY <1>4, <2>1, <2>2, <2>3, <2>4, <2>5 DEF Continue
<1>5. ASSUME NEW y \in Jobs \cup Procs, Free(y), NEW a \in Actors, lock' = [lock EXCEPT ![y] = a]
      PROVE  lock'[x] = lock[x] \/ (lock[x] = None /\ x \notin Threads)
  BY <1>5, Kinds DEF Free, TypeOK
<1>6. ASSUME NEW t \in Threads, Free(t), lock' = [lock EXCEPT ![t] = t], DropThread(t)
      PROVE  lock'[x] = lock[x] \/ (lock[x] = None /\ DropThread(x) /\ lock'[x] = x)
  BY <1>6 DEF Free, TypeOK
<1>7. ASSUME NEW a \in Actors, Return(a)
      PROVE  lock'[x] = lock[x] \/ \E b \in Actors : lock[x] = b /\ Return(b)
  BY <1>3, <1>7
<1>8. \/ UNCHANGED lock
      \/ \E a \in Actors : Return(a)
      \/ \E a \in Actors : \E y \in Jobs \cup Procs : Free(y) /\ lock' = [lock EXCEPT ![y] = a]
      \/ \E t \in Threads : Free(t) /\ lock' = [lock EXCEPT ![t] = t] /\ DropThread(t)
  BY <1>1, <1>2, <1>4 DEF Next, vars
<1> QED
  BY <1>5, <1>6, <1>7, <1>8

LEMMA EndsLockedStep ==
    ASSUME TypeOK, EndsInv, LocksInv, [Next]_vars
    PROVE  EndsLocked'
<1> SUFFICES ASSUME NEW t \in Threads, lock'[t] # None
             PROVE  lock'[t] = t /\ tstate'[t] = "Dead"
  BY DEF EndsLocked
<1>1. lock'[t] = lock[t] \/ (DropThread(t) /\ lock'[t] = t)
  BY LockStep DEF Return
<1>2. CASE DropThread(t) /\ lock'[t] = t
  BY <1>2 DEF DropThread, TypeOK
<1>3. CASE lock'[t] = lock[t]
  BY <1>3, ThreadMarks DEF LocksInv, EndsLocked, EndsInv
<1> QED
  BY <1>1, <1>2, <1>3

\* How a step changes the threads of a process.
LEMMA ThreadsStep ==
    ASSUME TypeOK, [Next]_vars, NEW p \in Procs
    PROVE  \/ threads'[p] = threads[p]
           \/ \E a \in Actors : \E t \in Threads :
                CreateThread(a, p, t) /\ threads'[p] = threads[p] \cup {t}
           \/ \E a \in Actors : /\ RemoveThread(a) /\ On(a) = p
                                /\ threads'[p] = threads[p] \ {Arg(a)}
<1>1. ASSUME NEW a \in Actors, NEW r \in Procs, NEW t \in Threads, CreateThread(a, r, t)
      PROVE  threads'[p] = threads[p] \/ (r = p /\ threads'[p] = threads[p] \cup {t})
  BY <1>1 DEF CreateThread, TypeOK
<1>2. ASSUME NEW a \in Actors, RemoveThread(a)
      PROVE  threads'[p] = threads[p] \/ (On(a) = p /\ threads'[p] = threads[p] \ {Arg(a)})
  BY <1>2 DEF RemoveThread, LeftBehind, TypeOK
<1>3. \/ UNCHANGED threads
      \/ \E a \in Actors : \/ RemoveThread(a)
                           \/ \E r \in Procs : \E t \in Threads : CreateThread(a, r, t)
  BY ProcSteps DEF CreateProcess, StartProcess, RemoveProcess, ProcExit, ProcTerminate, procVars
<1> QED
  BY <1>1, <1>2, <1>3

LEMMA WalkersStep ==
    ASSUME TypeOK, TreeOK, EndsInv, LocksInv, [Next]_vars
    PROVE  Walkers'
<1> SUFFICES ASSUME NEW b \in Actors, pc'[b].at \in Walking
             PROVE  lock'[On(b)'] = b /\ Left(b)' # {} /\ Left(b)' \subseteq threads'[On(b)']
  BY DEF Walkers
<1>0. ~Return(b)
  BY DEF Return, Idle, Frame, TypeOK, Walking
<1>1. CASE pc'[b] = pc[b]
  <2>1. pc[b].at \in Walking /\ On(b)' = On(b) /\ Left(b)' = Left(b)
    BY <1>1 DEF On, Left
  <2>2. PICK p \in Procs : p = On(b) /\ lock[p] = b /\ Left(b) # {} /\ Left(b) \subseteq threads[p]
    BY <2>1, FrameKinds DEF LocksInv, Walkers, Walking, At
  <2>3. lock'[p] = b
    BY <1>0, <2>2, LockStep, Kinds
  <2>4. threads[p] \subseteq threads'[p]
    <3>1. ASSUME NEW a \in Actors, RemoveThread(a), On(a) = p PROVE FALSE
      BY <2>2, <3>1, Kinds DEF RemoveThread, Free
    <3> QED
      BY <3>1, ThreadsStep
  <2> QED
    BY <2>1, <2>2, <2>3, <2>4
<1>2. ASSUME NEW p \in Procs, NEW at \in Walking, pc'[b] = Walk(at, p, threads[p]),
             lock' = [lock EXCEPT ![p] = b], threads[p] # {}, UNCHANGED threads
      PROVE  lock'[On(b)'] = b /\ Left(b)' # {} /\ Left(b)' \subseteq threads'[On(b)']
  BY <1>2 DEF Walk, On, Left, TypeOK
<1>3. CASE ToKilling(b)
  BY <1>2, <1>3 DEF ToKilling, ProcExit, Walking
<1>4. CASE ProcKilling(b) \/ ProcSuspending(b) \/ ProcResuming(b)
  <2>1. PICK p \in Procs : p = On(b) /\ lock[p] = b /\ Left(b) \subseteq threads[p]
    BY <1>4, FrameKinds DEF LocksInv, Walkers, Walking, At, ProcKilling, ProcSuspending, ProcResuming
  <2>2. PICK t \in Left(b) : WalkOn(b, t)
    BY <1>4 DEF ProcKilling, ProcSuspending, ProcResuming
  <2>3. pc' = [pc EXCEPT ![b] = Walk(pc[b].at, p, Left(b) \ {t})] /\ UNCHANGED lock /\ Left(b) # {t}
    BY <1>0, <2>1, <2>2 DEF WalkOn, Enter
  <2>4. UNCHANGED threads
    BY <1>4 DEF ProcKilling, ProcSuspending, ProcResuming, procVars
  <2>5. On(b)' = p /\ Left(b)' = Left(b) \ {t}
    BY <2>3 DEF Walk, On, Left, TypeOK
  <2> QED
    BY <2>1, <2>2, <2>3, <2>4, <2>5
<1>5. ASSUME NEW p \in Procs, SuspendProcess(b, p) \/ ResumeProcess(b, p), pc'[b] # pc[b]
      PROVE  lock'[On(b)'] = b /\ Left(b)' # {} /\ Left(b)' \subseteq threads'[On(b)']
  <2>1. PICK at \in {"proc.suspending", "proc.resuming"} : WalkProcess(b, p, at)
    BY <1>5 DEF SuspendProcess, ResumeProcess
  <2>2. /\ pc'[b] = Walk(at, p, threads[p]) /\ lock' = [lock EXCEPT ![p] = b]
        /\ threads[p] # {} /\ UNCHANGED threads /\ at \in Walking
    BY <1>5, <2>1 DEF WalkProcess, Enter, Walking, TypeOK
  <2> QED
    BY <1>2, <2>2
<1>6. CASE pc'[b] # pc[b]
  <2>1. ToKilling(b) \/ KillingOn(b) \/ ToWalk(b)
    BY <1>6, Labels DEF At, Walking
  <2> QED
    BY <1>3, <1>4, <1>5, <1>6, <2>1 DEF KillingOn, ToWalk
<1> QED
  BY <1>1, <1>6

LEMMA Locked == Spec => []LocksInv
<1>1. Init => LocksInv
  <2> SUFFICES ASSUME Init PROVE LocksInv
    OBVIOUS
  <2>1. Acyclic
    BY RootAssumption, Kinds DEF Init, Acyclic
  <2>2. Holders
    BY RootAssumption DEF Init, Holders
  <2>3. Walkers
    BY DEF Init, Walkers, Idle, Frame, Walking
  <2>4. EndsLocked
    BY DEF Init, EndsLocked
  <2> QED
    BY <2>1, <2>2, <2>3, <2>4 DEF LocksInv
<1>2. TypeOK /\ TreeOK /\ EndsInv /\ LocksInv /\ [Next]_vars => LocksInv'
  BY AcyclicStep, HoldersStep, WalkersStep, EndsLockedStep DEF LocksInv, EndsInv
<1> QED
  BY <1>1, <1>2, TreeCorrect, Ends, PTL DEF Spec

\* Actors wait for each other in a circle for one reason only: somebody walks over
\* the threads of a process that are about to leave it.  Without the thread lock
\* that the drop of CurrentThread keeps there, no circle could close.
THEOREM WaitsForEndsOnly == Spec => []OneDeadlock
<1>1. TypeOK /\ TreeOK /\ EndsInv /\ LocksInv => OneDeadlock
  BY OneDeadlockFromLocks
<1> QED
  BY <1>1, TreeCorrect, Ends, Locked, PTL

-----------------------------------------------------------------------------
(* As long as nobody kills or suspends a single thread, that takes threads *)
(* that end on their own                                                   *)

\* The calls that kill one thread of a process that goes on, or that walk over
\* threads which may have been killed before.
Quiet == Calls \cap {"killThread", "suspendProc"} = {}

\* A walk that kills has not reached the threads still ahead of it; a killed
\* thread is one of an exited process; nobody suspends.
Killers == \A a \in Actors :
    /\ At(a, "proc.killing") => Exited(On(a)) /\ \A t \in Left(a) : ~tkilled[t]
    /\ ~At(a, "proc.suspending") /\ ~At(a, "proc.resuming")
KilledThreads ==
    /\ \A t \in Threads : home[t] = None => ~tkilled[t]
    /\ \A p \in Procs : ~Exited(p) => \A t \in threads[p] : ~tkilled[t]
    /\ \A p \in Procs : tokens[p] = 0
QuietInv == Killers /\ KilledThreads

\* The calls of a quiet environment
LEMMA QuietCalls ==
    ASSUME Quiet, QuietInv, NEW a \in Actors
    PROVE  /\ \A t \in Threads : ~KillThread(a, t)
           /\ \A p \in Procs : ~SuspendProcess(a, p) /\ ~ResumeProcess(a, p)
BY DEF Quiet, KillThread, SuspendProcess, ResumeProcess, MayCall, HasToken,
       QuietInv, KilledThreads

\* A thread carries the flag once a walk has killed it.
LEMMA TkilledStep ==
    ASSUME Quiet, TypeOK, QuietInv, [Next]_vars, NEW t \in Threads, tkilled'[t]
    PROVE  tkilled[t] \/ \E a \in Actors : ProcKilling(a) /\ t \in Left(a)
<1>1. ASSUME NEW a \in Actors, Call(a) PROVE UNCHANGED tkilled
  BY <1>1, QuietCalls DEF Call, CreateJob, CreateProcess, KillJob, DropJob, StartProcess,
     CreateThread, ExitProcess, StartThread
<1>2. ASSUME NEW u \in Threads, Run(u) PROVE tkilled[t]
  <2>1. CASE ExitThread(u)
    BY <2>1 DEF ExitThread, Stop, TypeOK
  <2>2. CASE ~ExitThread(u)
    BY <1>2, <2>2 DEF Run, RunThread, Trap, DropThread
  <2> QED
    BY <2>1, <2>2
<1>3. ASSUME NEW a \in Actors, ProcKilling(a) PROVE tkilled[t] \/ t \in Left(a)
  <2>1. PICK u \in Left(a) : Stop(u, TRUE)
    BY <1>3 DEF ProcKilling
  <2> QED
    BY <2>1 DEF Stop, TypeOK
<1>4. ASSUME NEW a \in Actors, Continue(a), ~ProcKilling(a)
      PROVE  UNCHANGED tkilled
  BY <1>4 DEF Continue, ThreadStart, JobKill, KillLoop, KillNext, JobTerminate, RemoveChild,
     RemoveProcess, ProcExit, ProcSuspending, ProcResuming, ProcTerminate, RemoveThread, threadVars
<1> QED
  BY <1>1, <1>2, <1>3, <1>4 DEF Next, vars, threadVars

LEMMA KilledThreadsStep ==
    ASSUME Quiet, TypeOK, TreeOK, EndsInv, LocksInv, QuietInv, [Next]_vars
    PROVE  KilledThreads'
<1>0. Steady
  BY SteadyStep DEF EndsInv
<1>2. ASSUME NEW a \in Actors, ProcKilling(a), NEW t \in Left(a)
      PROVE  t \in Threads /\ home[t] = On(a) /\ On(a) \in Procs /\ Exited(On(a))
  <2>1. /\ On(a) \in Procs /\ Left(a) \in SUBSET Threads
        /\ Left(a) \subseteq threads[On(a)] /\ Exited(On(a))
    BY <1>2, FrameKinds DEF ProcKilling, At, LocksInv, Walkers, Walking, QuietInv, Killers
  <2> QED
    BY <2>1 DEF TreeOK, LinksOK
<1>3. ASSUME NEW t \in Threads, home'[t] = None PROVE ~tkilled'[t]
  <2>1. home[t] = None
    BY <1>0, <1>3 DEF Steady
  <2> QED
    BY <1>2, <2>1, TkilledStep, Kinds DEF QuietInv, KilledThreads
<1>4. ASSUME NEW p \in Procs, ~Exited(p)', NEW t \in threads'[p] PROVE ~tkilled'[t]
  <2>0. ~Exited(p)
    BY <1>0, <1>4 DEF Steady
  <2>1. t \in threads[p] \/ \E a \in Actors : \E u \in Threads : CreateThread(a, p, u) /\ u = t
    BY <1>4, ThreadsStep
  <2>2. CASE t \in threads[p]
    <3>1. t \in Threads /\ home[t] = p /\ ~tkilled[t]
      BY <2>0, <2>2 DEF TypeOK, TreeOK, LinksOK, QuietInv, KilledThreads
    <3> QED
      BY <1>2, <2>0, <3>1, TkilledStep
  <2>3. ASSUME NEW a \in Actors, t \in Threads, CreateThread(a, p, t) PROVE ~tkilled'[t]
    <3>1. home[t] = None /\ tkilled' = tkilled
      BY <2>3 DEF CreateThread
    <3> QED
      BY <2>3, <3>1 DEF QuietInv, KilledThreads
  <2> QED
    BY <2>1, <2>2, <2>3
<1>5. UNCHANGED tokens
  <2>1. ASSUME NEW a \in Actors, Call(a) PROVE UNCHANGED tokens
    BY <2>1, QuietCalls DEF Call, CreateJob, CreateProcess, KillJob, DropJob, StartProcess,
       CreateThread, ExitProcess, StartThread, procVars
  <2>2. ASSUME NEW a \in Actors, Continue(a) PROVE UNCHANGED tokens
    BY <2>2 DEF Continue, ThreadStart, JobKill, KillLoop, KillNext, JobTerminate, RemoveChild,
       RemoveProcess, ProcExit, ProcKilling, ProcSuspending, ProcResuming, ProcTerminate,
       RemoveThread, procVars
  <2>3. ASSUME NEW t \in Threads, Run(t) PROVE UNCHANGED tokens
    BY <2>3 DEF Run, ExitThread, RunThread, Trap, DropThread, procVars
  <2> QED
    BY <2>1, <2>2, <2>3 DEF Next, vars, procVars
<1> QED
  BY <1>3, <1>4, <1>5 DEF KilledThreads, QuietInv

LEMMA KillersStep ==
    ASSUME Quiet, TypeOK, TreeOK, EndsInv, LocksInv, QuietInv, [Next]_vars
    PROVE  Killers'
<1>0. Steady
  BY SteadyStep DEF EndsInv
<1> SUFFICES ASSUME NEW b \in Actors
             PROVE  /\ At(b, "proc.killing")' =>
                         Exited(On(b))' /\ \A t \in Left(b)' : ~tkilled'[t]
                    /\ ~At(b, "proc.suspending")' /\ ~At(b, "proc.resuming")'
  BY DEF Killers
<1>1. ~At(b, "proc.suspending")' /\ ~At(b, "proc.resuming")'
  <2>1. ~ToWalk(b)
    BY QuietCalls DEF ToWalk, ProcSuspending, ProcResuming, QuietInv, Killers
  <2>2. pc'[b] # pc[b] => ~At(b, "proc.suspending")' /\ ~At(b, "proc.resuming")'
    BY <2>1, Labels
  <2> QED
    BY <2>2 DEF At, QuietInv, Killers
<1>2. ASSUME At(b, "proc.killing")', pc'[b] = pc[b]
      PROVE  Exited(On(b))' /\ \A t \in Left(b)' : ~tkilled'[t]
  <2>1. At(b, "proc.killing") /\ On(b)' = On(b) /\ Left(b)' = Left(b)
    BY <1>2 DEF At, On, Left
  <2>2. PICK p \in Procs : p = On(b)
    BY <2>1, FrameKinds
  <2>3. /\ lock[p] = b /\ Exited(p) /\ Left(b) # {} /\ Left(b) \subseteq threads[p]
        /\ \A t \in Left(b) : ~tkilled[t]
    BY <2>1, <2>2 DEF LocksInv, Walkers, Walking, At, QuietInv, Killers
  <2>5. Exited(p)'
    BY <1>0, <2>3 DEF Steady
  <2>7. ASSUME NEW t \in Left(b) PROVE ~tkilled'[t]
    <3>1. t \in Threads /\ home[t] = p
      BY <2>3 DEF TypeOK, TreeOK, LinksOK
    <3>2. ASSUME NEW a \in Actors, ProcKilling(a), t \in Left(a) PROVE FALSE
      <4>1. On(a) \in Procs /\ lock[On(a)] = a /\ t \in threads[On(a)]
        BY <3>2, FrameKinds DEF ProcKilling, At, LocksInv, Walkers, Walking
      <4>2. a = b
        BY <2>3, <3>1, <4>1 DEF TreeOK, LinksOK
      <4>3. PICK u \in Left(b) : WalkOn(b, u)
        BY <3>2, <4>2 DEF ProcKilling
      <4>4. pc'[b] = Idle \/ Left(b)' = Left(b) \ {u}
        BY <4>3 DEF WalkOn, Return, Enter, Walk, Left, TypeOK
      <4> QED
        BY <1>2, <2>1, <4>3, <4>4 DEF At, Idle, Frame
    <3> QED
      BY <2>3, <3>1, <3>2, TkilledStep
  <2> QED
    BY <2>1, <2>2, <2>3, <2>5, <2>7
<1>3. ASSUME ToKilling(b)
      PROVE  Exited(On(b))' /\ \A t \in Left(b)' : ~tkilled'[t]
  <2>1. PICK p \in Procs : /\ ProcExit(b) /\ On(b) = p
                           /\ status[p] # "Exited" /\ threads[p] # {}
                           /\ pc'[b] = Walk("proc.killing", p, threads[p])
    BY <1>3 DEF ToKilling
  <2>2. On(b)' = p /\ Left(b)' = threads[p]
    BY <2>1 DEF On, Left, Walk
  <2>3. Exited(p)' /\ UNCHANGED tkilled
    BY <2>1 DEF ProcExit, Exited, TypeOK, threadVars
  <2>4. \A t \in threads[p] : ~tkilled'[t]
    BY <2>1, <2>3 DEF QuietInv, KilledThreads, Exited
  <2> QED
    BY <2>1, <2>2, <2>3, <2>4
<1>4. ASSUME KillingOn(b)
      PROVE  Exited(On(b))' /\ \A t \in Left(b)' : ~tkilled'[t]
  <2>1. PICK p \in Procs, t \in Left(b) :
           /\ ProcKilling(b) /\ On(b) = p /\ Stop(t, TRUE) /\ Left(b) # {t}
           /\ pc'[b] = Walk("proc.killing", p, Left(b) \ {t})
    BY <1>4 DEF KillingOn
  <2>2. On(b)' = p /\ Left(b)' = Left(b) \ {t}
    BY <2>1 DEF On, Left, Walk
  <2>3. Exited(p) /\ Left(b) \in SUBSET Threads /\ \A u \in Left(b) : ~tkilled[u]
    BY <2>1, FrameKinds DEF ProcKilling, QuietInv, Killers
  <2>6. Exited(p)'
    BY <2>1, <2>3 DEF ProcKilling, procVars, Exited
  <2>7. \A u \in Left(b) \ {t} : ~tkilled'[u]
    BY <2>1, <2>3 DEF Stop, TypeOK
  <2> QED
    BY <2>1, <2>2, <2>3, <2>6, <2>7
<1> QED
  BY <1>1, <1>2, <1>3, <1>4, Labels

\* Kills and exits of jobs and processes alone never make actors wait for each
\* other in a circle: while no call kills or suspends a single thread, whatever
\* waits like that waits for threads that have ended on their own, by an exit, a
\* return or a trap their runner does not know (OnlyOwnEndsBlock).
THEOREM OwnEndsBlock ==
    ASSUME Quiet
    PROVE  Spec => []OnlyOwnEndsBlock
<1>1. Init => QuietInv
  BY DEF Init, QuietInv, Killers, At, Idle, Frame, KilledThreads
<1>2. TypeOK /\ TreeOK /\ EndsInv /\ LocksInv /\ QuietInv /\ [Next]_vars => QuietInv'
  BY KillersStep, KilledThreadsStep DEF QuietInv
<1>3. TypeOK /\ QuietInv /\ OneDeadlock => OnlyOwnEndsBlock
  <2> SUFFICES ASSUME TypeOK, QuietInv, OneDeadlock,
                      NEW D \in (SUBSET Actors) \ {{}}, Stuck(D)
               PROVE  \E a \in D : BlockedWalk(a) /\ \A t \in Left(a) : ~tkilled[t]
    BY DEF OnlyOwnEndsBlock
  <2>1. PICK a \in D : BlockedWalk(a)
    BY DEF OneDeadlock
  <2>2. a \in Actors /\ pc[a] \in Frames
    BY <2>1 DEF TypeOK
  <2>3. At(a, "proc.killing")
    BY <2>1, <2>2 DEF Frames, Left, At, QuietInv, Killers, BlockedWalk
  <2>4. \A t \in Left(a) : ~tkilled[t]
    BY <2>2, <2>3 DEF QuietInv, Killers
  <2> QED
    BY <2>1, <2>4
<1> QED
  BY <1>1, <1>2, <1>3, TreeCorrect, Ends, WaitsForEndsOnly, Locked, PTL DEF Spec
=============================================================================
