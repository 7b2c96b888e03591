---------------------------- MODULE TaskChapters ----------------------------
(***************************************************************************)
(* The task tree in the earlier chapters.  The repository keeps the kernel *)
(* as it stands at the end of each chapter, and the tree of jobs,          *)
(* processes and threads is in five of these snapshots besides ch04-03.    *)
(* From ch02-03 on the code below is the same text: the specification of   *)
(* such a chapter puts together the parts it has, and TaskTreeProofs shows *)
(* that it is Spec, so that what holds of ch04-03 holds there.  ch02-02 is *)
(* less: threads do not run, and a process that exits stays in its job.    *)
(***************************************************************************)
EXTENDS TaskTree

-----------------------------------------------------------------------------
(* The parts *)

\* Job::create_child and remove_child
ChildJobs(a) == RemoveChild(a) \/ \E j, c \in Jobs : CreateJob(a, j, c)
\* Job::add_process and remove_process
JobProcesses(a) == RemoveProcess(a) \/ \E j \in Jobs, p \in Procs : CreateProcess(a, j, p)
\* Job::terminate, <Job as Task>::kill
JobEnd(a) == \/ JobKill(a) \/ KillLoop(a) \/ JobTerminate(a)
             \/ \E j \in Jobs : KillJob(a, j)
\* <Job as Drop>::drop
LastArc(a) == \E j \in Jobs : DropJob(a, j)
\* Process::start
ProcessBegin(a) == \E p \in Procs, t \in Threads : StartProcess(a, p, t)
\* Process::exit and terminate
ProcessEnd(a) == \/ ProcExit(a) \/ ProcKilling(a) \/ ProcTerminate(a)
                 \/ \E p \in Procs : ExitProcess(a, p)
\* Process::add_thread and remove_thread
ProcessThreads(a) == \/ RemoveThread(a)
                     \/ \E p \in Procs, t \in Threads : CreateThread(a, p, t)
\* <Process as Task>::suspend and resume
ProcessHalt(a) == \/ ProcSuspending(a) \/ ProcResuming(a)
                  \/ \E p \in Procs : SuspendProcess(a, p) \/ ResumeProcess(a, p)
\* Thread::create and start
ThreadBegin(a) == \/ ThreadStart(a)
                  \/ \E p \in Procs, t \in Threads : CreateThread(a, p, t)
                  \/ \E t \in Threads : StartThread(a, t)
\* Thread::stop, called by kill
ThreadEnd(a) == \E t \in Threads : KillThread(a, t)
\* CurrentThread: the runner of a thread, its exit and its drop
Current(t) == ExitThread(t) \/ RunThread(t) \/ Trap(t) \/ DropThread(t)

\* All of them
Parts == \/ \E a \in Actors :
              \/ ChildJobs(a) \/ JobProcesses(a) \/ JobEnd(a) \/ LastArc(a)
              \/ ProcessBegin(a) \/ ProcessEnd(a) \/ ProcessThreads(a) \/ ProcessHalt(a)
              \/ ThreadBegin(a) \/ ThreadEnd(a)
         \/ \E t \in Threads : Current(t)

-----------------------------------------------------------------------------
(* ch02-02: Process::start does nothing, so no thread runs, and          *)
(* Process::exit only sets the status.                                   *)

jobVars_02_02 == jobVars
procVars_02_02 == <<owner, status, retcode, threads, tokens>>
vars_02_02 == <<jobVars_02_02, procVars_02_02, threadVars, lock, pc, victims>>
Init_02_02 == Init

ChildJobs_02_02(a) == ChildJobs(a)
JobProcesses_02_02(a) == \E j \in Jobs, p \in Procs : CreateProcess(a, j, p)
JobEnd_02_02(a) == JobEnd(a)
LastArc_02_02(a) == LastArc(a)
\* Thread::create, Process::add_thread
ThreadBegin_02_02(a) == \E p \in Procs, t \in Threads : CreateThread(a, p, t)
ProcessThreads_02_02(a) == ThreadBegin_02_02(a)

\* Process::exit
ProcExit_02_02(a) ==
    LET p == On(a) IN
    /\ At(a, "proc.exit")
    /\ Free(p)
    /\ IF status[p] = "Exited" THEN UNCHANGED <<status, retcode>>
       ELSE /\ status' = [status EXCEPT ![p] = "Exited"]
            /\ retcode' = [retcode EXCEPT ![p] = Arg(a)]
    /\ Return(a)
    /\ UNCHANGED <<jobVars, owner, threads, tokens, threadVars, victims>>
\* <Process as Task>::kill, or exit, is called from outside
ProcessEnd_02_02(a) == ProcExit_02_02(a) \/ \E p \in Procs : ExitProcess(a, p)

Next_02_02 == \E a \in Actors :
    \/ ChildJobs_02_02(a) \/ JobProcesses_02_02(a) \/ JobEnd_02_02(a) \/ LastArc_02_02(a)
    \/ ThreadBegin_02_02(a) \/ ProcessThreads_02_02(a) \/ ProcessEnd_02_02(a)
Spec_02_02 == Init_02_02 /\ [][Next_02_02]_vars_02_02

-----------------------------------------------------------------------------
(* ch02-03 *)

jobVars_02_03 == jobVars
procVars_02_03 == procVars
threadVars_02_03 == threadVars
vars_02_03 == <<jobVars_02_03, procVars_02_03, threadVars_02_03, lock, pc, victims>>
Init_02_03 == Init

ChildJobs_02_03(a) == ChildJobs(a)
JobProcesses_02_03(a) == JobProcesses(a)
JobEnd_02_03(a) == JobEnd(a)
LastArc_02_03(a) == LastArc(a)
ProcessBegin_02_03(a) == ProcessBegin(a)
ProcessEnd_02_03(a) == ProcessEnd(a)
ProcessThreads_02_03(a) == ProcessThreads(a)
ProcessHalt_02_03(a) == ProcessHalt(a)
ThreadBegin_02_03(a) == ThreadBegin(a)
ThreadEnd_02_03(a) == ThreadEnd(a)
Current_02_03(t) == Current(t)

Next_02_03 ==
    \/ \E a \in Actors :
         \/ ChildJobs_02_03(a) \/ JobProcesses_02_03(a) \/ JobEnd_02_03(a)
         \/ LastArc_02_03(a) \/ ProcessBegin_02_03(a) \/ ProcessEnd_02_03(a)
         \/ ProcessThreads_02_03(a) \/ ProcessHalt_02_03(a)
         \/ ThreadBegin_02_03(a) \/ ThreadEnd_02_03(a)
    \/ \E t \in Threads : Current_02_03(t)
Spec_02_03 == Init_02_03 /\ [][Next_02_03]_vars_02_03

-----------------------------------------------------------------------------
(* ch03-02 *)

jobVars_03_02 == jobVars
procVars_03_02 == procVars
threadVars_03_02 == threadVars
vars_03_02 == <<jobVars_03_02, procVars_03_02, threadVars_03_02, lock, pc, victims>>
Init_03_02 == Init

ChildJobs_03_02(a) == ChildJobs(a)
JobProcesses_03_02(a) == JobProcesses(a)
JobEnd_03_02(a) == JobEnd(a)
LastArc_03_02(a) == LastArc(a)
ProcessBegin_03_02(a) == ProcessBegin(a)
ProcessEnd_03_02(a) == ProcessEnd(a)
ProcessThreads_03_02(a) == ProcessThreads(a)
ProcessHalt_03_02(a) == ProcessHalt(a)
ThreadBegin_03_02(a) == ThreadBegin(a)
ThreadEnd_03_02(a) == ThreadEnd(a)
Current_03_02(t) == Current(t)

Next_03_02 ==
    \/ \E a \in Actors :
         \/ ChildJobs_03_02(a) \/ JobProcesses_03_02(a) \/ JobEnd_03_02(a)
         \/ LastArc_03_02(a) \/ ProcessBegin_03_02(a) \/ ProcessEnd_03_02(a)
         \/ ProcessThreads_03_02(a) \/ ProcessHalt_03_02(a)
         \/ ThreadBegin_03_02(a) \/ ThreadEnd_03_02(a)
    \/ \E t \in Threads : Current_03_02(t)
Spec_03_02 == Init_03_02 /\ [][Next_03_02]_vars_03_02

-----------------------------------------------------------------------------
(* ch03-04 *)

jobVars_03_04 == jobVars
procVars_03_04 == procVars
threadVars_03_04 == threadVars
vars_03_04 == <<jobVars_03_04, procVars_03_04, threadVars_03_04, lock, pc, victims>>
Init_03_04 == Init

ChildJobs_03_04(a) == ChildJobs(a)
JobProcesses_03_04(a) == JobProcesses(a)
JobEnd_03_04(a) == JobEnd(a)
LastArc_03_04(a) == LastArc(a)
ProcessBegin_03_04(a) == ProcessBegin(a)
ProcessEnd_03_04(a) == ProcessEnd(a)
ProcessThreads_03_04(a) == ProcessThreads(a)
ProcessHalt_03_04(a) == ProcessHalt(a)
ThreadBegin_03_04(a) == ThreadBegin(a)
ThreadEnd_03_04(a) == ThreadEnd(a)
Current_03_04(t) == Current(t)

Next_03_04 ==
    \/ \E a \in Actors :
         \/ ChildJobs_03_04(a) \/ JobProcesses_03_04(a) \/ JobEnd_03_04(a)
         \/ LastArc_03_04(a) \/ ProcessBegin_03_04(a) \/ ProcessEnd_03_04(a)
         \/ ProcessThreads_03_04(a) \/ ProcessHalt_03_04(a)
         \/ ThreadBegin_03_04(a) \/ ThreadEnd_03_04(a)
    \/ \E t \in Threads : Current_03_04(t)
Spec_03_04 == Init_03_04 /\ [][Next_03_04]_vars_03_04

-----------------------------------------------------------------------------
(* ch04-01 *)

jobVars_04_01 == jobVars
procVars_04_01 == procVars
threadVars_04_01 == threadVars
vars_04_01 == <<jobVars_04_01, procVars_04_01, threadVars_04_01, lock, pc, victims>>
Init_04_01 == Init

ChildJobs_04_01(a) == ChildJobs(a)
JobProcesses_04_01(a) == JobProcesses(a)
JobEnd_04_01(a) == JobEnd(a)
LastArc_04_01(a) == LastArc(a)
ProcessBegin_04_01(a) == ProcessBegin(a)
ProcessEnd_04_01(a) == ProcessEnd(a)
ProcessThreads_04_01(a) == ProcessThreads(a)
ProcessHalt_04_01(a) == ProcessHalt(a)
ThreadBegin_04_01(a) == ThreadBegin(a)
ThreadEnd_04_01(a) == ThreadEnd(a)
Current_04_01(t) == Current(t)

Next_04_01 ==
    \/ \E a \in Actors :
         \/ ChildJobs_04_01(a) \/ JobProcesses_04_01(a) \/ JobEnd_04_01(a)
         \/ LastArc_04_01(a) \/ ProcessBegin_04_01(a) \/ ProcessEnd_04_01(a)
         \/ ProcessThreads_04_01(a) \/ ProcessHalt_04_01(a)
         \/ ThreadBegin_04_01(a) \/ ThreadEnd_04_01(a)
    \/ \E t \in Threads : Current_04_01(t)
Spec_04_01 == Init_04_01 /\ [][Next_04_01]_vars_04_01
=============================================================================
