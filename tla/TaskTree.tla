------------------------------ MODULE TaskTree ------------------------------
(***************************************************************************)
(* The task tree of zircon-object: jobs hold child jobs and processes,     *)
(* processes hold threads (task/job.rs, task/process.rs, task/thread.rs).  *)
(*                                                                         *)
(* Every Job, Process and Thread guards its fields with one spin lock.  An *)
(* actor (a kernel caller, or the runner task of a thread) works through   *)
(* an operation one critical section at a time; a section that calls into  *)
(* another object while it keeps its own lock is split at that call, and   *)
(* "lock" records who keeps what.  Releases are merged with the step that  *)
(* precedes them: giving a lock up never waits.                            *)
(*                                                                         *)
(* The context a thread lends to its runner, wakers and the suspended      *)
(* runner are the subject of ThreadRun; policies are in JobPolicy; handles *)
(* in ChannelSyscall.                                                      *)
(***************************************************************************)
EXTENDS Naturals, Sequences, FiniteSets

CONSTANTS
    Jobs, Procs, Threads,   \* pools the kernel allocates objects from
    Callers,                \* kernel code that calls the task API
    RootJob,                \* the job made by Job::root()
    None,                   \* no object, or a lock nobody holds
    Calls,                  \* names of the API calls a run's environment makes
    MaxSuspend              \* bound: suspend tokens on one process

Actors == Callers \cup Threads
Locks == Jobs \cup Procs \cup Threads
ExitCodes == {"zero", "kill", "user"}

ASSUME RootAssumption == RootJob \in Jobs
ASSUME DistinctAssumption ==
    /\ Jobs \cap Procs = {}
    /\ Jobs \cap Threads = {}
    /\ Procs \cap Threads = {}
    /\ Callers \cap Locks = {}
    /\ None \notin Locks \cup Callers \cup ExitCodes
ASSUME MaxSuspendAssumption == MaxSuspend \in Nat

VARIABLES
    born,       \* jobs that exist
    freed,      \* jobs whose last Arc is gone (Drop has begun)
    parent,     \* Job::parent
    killed,     \* JobInner::killed
    children,   \* JobInner::children (weak references)
    processes,  \* JobInner::processes
    owner,      \* Process::job; None before Process::create
    status,     \* ProcessInner::status
    retcode,    \* the code inside Status::Exited
    threads,    \* ProcessInner::threads
    tokens,     \* suspensions of a process its callers have not undone
    home,       \* Thread::proc; None before Thread::create
    tstate,     \* ThreadInner::state
    tkilled,    \* ThreadInner::killed
    suspends,   \* ThreadInner::suspend_count
    begun,      \* Thread::start was called on the thread
    runner,     \* the runner task spawned by Thread::start
    lock,       \* holder of each object's Mutex
    pc,         \* the critical section each actor runs next
    victims     \* what the Job::kill loops of each actor have still to kill

jobVars == <<born, freed, parent, killed, children, processes>>
procVars == <<owner, status, retcode, threads, tokens>>
threadVars == <<home, tstate, tkilled, suspends, begun, runner>>
vars == <<jobVars, procVars, threadVars, lock, pc, victims>>

-----------------------------------------------------------------------------
(* Control *)

Frame(at, on, arg) == [at |-> at, on |-> on, arg |-> arg, left |-> {}]
\* A loop over the threads of process p has those in "left" still ahead.
Walk(at, p, left) == [at |-> at, on |-> p, arg |-> None, left |-> left]
Idle == Frame("idle", None, None)

Free(x) == lock[x] = None

\* An actor between two operations, with no Job::kill loop left to finish.
Ready(a) == /\ pc[a] = Idle
            /\ victims[a] = <<>>

\* A kernel caller is always entitled to call; the runner of a thread calls
\* only while it is out of wait_for_run, handling a trap of its own code.
MayCall(a, call) ==
    /\ call \in Calls
    /\ Ready(a)
    /\ a \in Threads => runner[a] = "busy"

\* A runner goes back to the top of its loop after the call.
Loop(a) == runner' = IF a \in Threads THEN [runner EXCEPT ![a] = "wait"]
                                      ELSE runner

Enter(a, frame) == pc' = [pc EXCEPT ![a] = frame]

\* The operation is over: every lock kept along the way is given up.
Return(a) == /\ pc' = [pc EXCEPT ![a] = Idle]
             /\ lock' = [x \in Locks |-> IF lock[x] = a THEN None ELSE lock[x]]

\* Batches of tasks to kill, the innermost Job::kill loop first.
Members(queue) == UNION {queue[i] : i \in DOMAIN queue}
Push(batch, queue) == IF batch = {} THEN queue ELSE <<batch>> \o queue

\* JobInner::is_empty
Childless(j) == children[j] = {} /\ processes[j] = {}

\* A job that is not killed takes new children; a process that has not exited
\* takes new threads; Thread::stop leaves a dead thread dead.
AcceptsMutant(j) == TRUE
Accepts(j) == ~killed[j]
TakesThreadsMutant(p) == TRUE
TakesThreads(p) == status[p] # "Exited"
Stopped(t) == IF tstate[t] = "Dead" THEN "Dead" ELSE "Dying"

\* The code a process ends with when its last thread goes.
TerminalCodeMutant(p) == "zero"
TerminalCode(p) == IF status[p] = "Exited" THEN retcode[p] ELSE "zero"

\* Nothing is left of job c but weak references: its Drop has run to its end.
Gone(c) == /\ c \in freed
           /\ Free(c)
           /\ \A a \in Actors : pc[a].on # c

\* No Arc<Job> to j is left outside the callers' own variables.
Unreferenced(j) ==
    /\ Free(j)
    /\ \A a \in Actors : pc[a].on # j
    /\ \A c \in born \ {RootJob} : parent[c] = j => Gone(c)
    /\ \A p \in Procs : owner[p] = j =>
         /\ p \notin processes[j]
         /\ threads[p] = {}
         /\ Free(p)
         /\ \A a \in Actors : pc[a].on # p

-----------------------------------------------------------------------------
(* Calls on jobs *)

\* Job::create_child links both ways: the child's parent, the parent's list.
Adopt(j, c) == /\ parent' = [parent EXCEPT ![c] = j]
               /\ children' = [children EXCEPT ![j] = @ \cup {c}]

\* Job::create_child
CreateJob(a, j, c) ==
    /\ MayCall(a, "createJob")
    /\ j \in born \ freed
    /\ c \in Jobs \ born
    /\ Free(j)
    /\ Accepts(j)
    /\ born' = born \cup {c}
    /\ Adopt(j, c)
    /\ Loop(a)
    /\ UNCHANGED <<freed, killed, processes, procVars, home, tstate, tkilled,
                   suspends, begun, lock, pc, victims>>

\* Process::create, Job::add_process
CreateProcess(a, j, p) ==
    /\ MayCall(a, "createProc")
    /\ j \in born \ freed
    /\ owner[p] = None
    /\ Free(j)
    /\ Accepts(j)
    /\ owner' = [owner EXCEPT ![p] = j]
    /\ processes' = [processes EXCEPT ![j] = @ \cup {p}]
    /\ status' = [status EXCEPT ![p] = "Init"]
    /\ Loop(a)
    /\ UNCHANGED <<born, freed, parent, killed, children, retcode, threads,
                   tokens, home, tstate, tkilled, suspends, begun, lock, pc,
                   victims>>

\* <Job as Task>::kill is called from outside
KillJob(a, j) ==
    /\ MayCall(a, "killJob")
    /\ j \in born \ freed
    /\ Enter(a, Frame("job.kill", j, None))
    /\ Loop(a)
    /\ UNCHANGED <<jobVars, procVars, home, tstate, tkilled, suspends, begun,
                   lock, victims>>

\* The last Arc of a job goes away: <Job as Drop>::drop
DropJob(a, j) ==
    /\ MayCall(a, "dropJob")
    /\ j \in born \ (freed \cup {RootJob})
    /\ Unreferenced(j)
    /\ freed' = freed \cup {j}
    /\ Enter(a, Frame("job.terminate", j, None))
    /\ Loop(a)
    /\ UNCHANGED <<born, parent, killed, children, processes, procVars, home,
                   tstate, tkilled, suspends, begun, lock, victims>>

-----------------------------------------------------------------------------
(* Calls on processes *)

\* Process::start up to the call of Thread::start
StartProcess(a, p, t) ==
    /\ MayCall(a, "startProc")
    /\ Free(p)
    /\ t \in threads[p]
    /\ status[p] = "Init"
    /\ ~begun[t]
    /\ status' = [status EXCEPT ![p] = "Running"]
    /\ begun' = [begun EXCEPT ![t] = TRUE]
    /\ Enter(a, Frame("thread.start", t, None))
    /\ Loop(a)
    /\ UNCHANGED <<jobVars, owner, retcode, threads, tokens, home, tstate,
                   tkilled, suspends, lock, victims>>

\* Process::exit, or <Process as Task>::kill, is called from outside
ExitProcess(a, p) ==
    /\ MayCall(a, "exitProc")
    /\ owner[p] # None
    /\ Enter(a, Frame("proc.exit", p, "user"))
    /\ Loop(a)
    /\ UNCHANGED <<jobVars, procVars, home, tstate, tkilled, suspends, begun,
                   lock, victims>>

\* <Process as Task>::suspend and ::resume keep the process lock while they
\* walk over the threads.
WalkProcess(a, p, at) ==
    /\ owner[p] # None
    /\ Free(p)
    /\ IF threads[p] = {}
       THEN UNCHANGED <<lock, pc>>
       ELSE /\ lock' = [lock EXCEPT ![p] = a]
            /\ Enter(a, Walk(at, p, threads[p]))
    /\ Loop(a)
    /\ UNCHANGED <<jobVars, owner, status, retcode, threads, home, tstate,
                   tkilled, suspends, begun, victims>>

SuspendProcess(a, p) ==
    /\ MayCall(a, "suspendProc")
    /\ tokens[p] < MaxSuspend
    /\ tokens' = [tokens EXCEPT ![p] = @ + 1]
    /\ WalkProcess(a, p, "proc.suspending")

\* a process is resumed only by a caller that has suspended it before
HasToken(p) == tokens[p] # 0
ResumeProcess(a, p) ==
    /\ MayCall(a, "resumeProc")
    /\ HasToken(p)
    /\ tokens' = [tokens EXCEPT ![p] = @ - 1]
    /\ WalkProcess(a, p, "proc.resuming")

-----------------------------------------------------------------------------
(* Calls on threads *)

\* Thread::create, Process::add_thread
CreateThread(a, p, t) ==
    /\ MayCall(a, "createThread")
    /\ home[t] = None
    /\ owner[p] # None
    /\ Free(p)
    /\ TakesThreads(p)
    /\ home' = [home EXCEPT ![t] = p]
    /\ threads' = [threads EXCEPT ![p] = @ \cup {t}]
    /\ Loop(a)
    /\ UNCHANGED <<jobVars, owner, status, retcode, tokens, tstate, tkilled,
                   suspends, begun, lock, pc, victims>>

\* Thread::start, called for a thread that is not the first of its process
StartThread(a, t) ==
    /\ MayCall(a, "startThread")
    /\ home[t] # None
    /\ ~begun[t]
    /\ begun' = [begun EXCEPT ![t] = TRUE]
    /\ Enter(a, Frame("thread.start", t, None))
    /\ Loop(a)
    /\ UNCHANGED <<jobVars, procVars, home, tstate, tkilled, suspends, lock,
                   victims>>

\* Thread::stop: what it leaves in the thread's state and killed flag
Stop(t, kill) ==
    /\ tstate' = [tstate EXCEPT ![t] = Stopped(t)]
    /\ tkilled' = [tkilled EXCEPT ![t] = @ \/ (kill /\ tstate[t] # "Dead")]

\* <Thread as Task>::kill is called from outside
KillThread(a, t) ==
    /\ MayCall(a, "killThread")
    /\ home[t] # None
    /\ Free(t)
    /\ Stop(t, TRUE)
    /\ Loop(a)
    /\ UNCHANGED <<jobVars, procVars, home, suspends, begun, lock, pc, victims>>

\* CurrentThread::exit
ExitThread(t) ==
    /\ MayCall(t, "exitThread")
    /\ Free(t)
    /\ Stop(t, FALSE)
    /\ Loop(t)
    /\ UNCHANGED <<jobVars, procVars, home, suspends, begun, lock, pc, victims>>

-----------------------------------------------------------------------------
(* The runner of a thread (the thread_fn passed to Thread::start) *)

\* wait_for_run is ready and the thread is not Dying: run its code
RunThread(t) ==
    /\ runner[t] = "wait"
    /\ Ready(t)
    /\ Free(t)
    /\ tstate[t] # "Dying"
    /\ suspends[t] = 0
    /\ runner' = [runner EXCEPT ![t] = "busy"]
    /\ UNCHANGED <<jobVars, procVars, home, tstate, tkilled, suspends, begun,
                   lock, pc, victims>>

\* the code traps for something that concerns no other task; a trap the runner
\* does not know ends it (LoopEnds)
Trap(t) ==
    /\ runner[t] = "busy"
    /\ Ready(t)
    /\ runner' = [runner EXCEPT ![t] = "wait"]
    /\ UNCHANGED <<jobVars, procVars, home, tstate, tkilled, suspends, begun,
                   lock, pc, victims>>

\* The thread function lets go of its CurrentThread: its loop sees Dying, or it
\* ends on its own, in any state of the thread, when it panics over a trap that
\* it does not know or returns.
LoopEnds(t) == (runner[t] = "wait" /\ tstate[t] = "Dying") \/ runner[t] = "busy"

\* <CurrentThread as Drop>::drop, which keeps the thread lock during
\* Process::remove_thread
DropThread(t) ==
    /\ LoopEnds(t)
    /\ Ready(t)
    /\ Free(t)
    /\ tstate' = [tstate EXCEPT ![t] = "Dead"]
    /\ runner' = [runner EXCEPT ![t] = "gone"]
    /\ lock' = [lock EXCEPT ![t] = t]
    /\ Enter(t, Frame("proc.remove_thread", home[t], t))
    /\ UNCHANGED <<jobVars, procVars, home, tkilled, suspends, begun, victims>>

-----------------------------------------------------------------------------
(* Sections of a call in progress *)

At(a, label) == pc[a].at = label
On(a) == pc[a].on
Arg(a) == pc[a].arg
Left(a) == pc[a].left

\* Thread::start: its own critical section, then the runner is spawned
ThreadStart(a) ==
    /\ At(a, "thread.start")
    /\ Free(On(a))
    /\ tstate' = [tstate EXCEPT ![On(a)] = "Running"]
    /\ runner' = [runner EXCEPT ![On(a)] = "wait"]
    /\ Return(a)
    /\ UNCHANGED <<jobVars, procVars, home, tkilled, suspends, begun, victims>>

\* Job::kill: mark, snapshot the children and processes, unlock
JobKill(a) ==
    LET j == On(a) IN
    /\ At(a, "job.kill")
    /\ Free(j)
    /\ killed' = [killed EXCEPT ![j] = TRUE]
    /\ victims' = [victims EXCEPT ![a] =
           IF killed[j] THEN @ ELSE Push(children[j], Push(processes[j], @))]
    /\ Enter(a, IF ~killed[j] /\ Childless(j)
                THEN Frame("job.terminate", j, None) ELSE Idle)
    /\ UNCHANGED <<born, freed, parent, children, processes, procVars,
                   threadVars, lock>>

\* Job::kill: the next task of the snapshot; a freed child is skipped
KillNext(a) ==
    \E v \in Head(victims[a]) :
        /\ victims' = [victims EXCEPT ![a] =
               Push(Head(@) \ {v}, Tail(@))]
        /\ Enter(a, IF v \in freed THEN Idle
                    ELSE IF v \in Jobs THEN Frame("job.kill", v, None)
                    ELSE Frame("proc.exit", v, "kill"))
        /\ UNCHANGED <<jobVars, procVars, threadVars, lock>>
KillLoop(a) == pc[a] = Idle /\ victims[a] # <<>> /\ KillNext(a)

\* Job::terminate: keeps the job's lock during the parent's remove_child
JobTerminate(a) ==
    LET j == On(a) IN
    /\ At(a, "job.terminate")
    /\ IF j = RootJob
       THEN Return(a)
       ELSE /\ Free(j)
            /\ lock' = [lock EXCEPT ![j] = a]
            /\ Enter(a, Frame("job.remove_child", parent[j], j))
    /\ UNCHANGED <<jobVars, procVars, threadVars, victims>>

\* The end of Job::remove_child and Job::remove_process: a killed job that
\* has become empty terminates, with the job's own lock dropped.
TerminateIfEmptyMutant(a, j) == Return(a)
TerminateNonEmptyMutant(a, j) ==
    IF killed[j] /\ processes'[j] = {}
    THEN /\ Enter(a, Frame("job.terminate", j, None))
         /\ UNCHANGED lock
    ELSE Return(a)
TerminateLockedMutant(a, j) ==
    IF killed[j] /\ children'[j] = {} /\ processes'[j] = {}
    THEN /\ Enter(a, Frame("job.terminate", j, None))
         /\ lock' = [lock EXCEPT ![j] = a]
    ELSE Return(a)
TerminateIfEmpty(a, j) ==
    IF killed[j] /\ children'[j] = {} /\ processes'[j] = {}
    THEN /\ Enter(a, Frame("job.terminate", j, None))
         /\ UNCHANGED lock
    ELSE Return(a)

\* Job::remove_child
RemoveChild(a) ==
    LET j == On(a) IN
    /\ At(a, "job.remove_child")
    /\ Free(j)
    /\ children' = [children EXCEPT ![j] = @ \ {Arg(a)}]
    /\ UNCHANGED processes
    /\ TerminateIfEmpty(a, j)
    /\ UNCHANGED <<born, freed, parent, killed, procVars, threadVars, victims>>

\* Job::remove_process
RemoveProcess(a) ==
    LET j == On(a) IN
    /\ At(a, "job.remove_process")
    /\ Free(j)
    /\ processes' = [processes EXCEPT ![j] = @ \ {Arg(a)}]
    /\ UNCHANGED children
    /\ TerminateIfEmpty(a, j)
    /\ UNCHANGED <<born, freed, parent, killed, procVars, threadVars, victims>>

\* Process::exit up to the loop over its threads
ProcExit(a) ==
    LET p == On(a) IN
    /\ At(a, "proc.exit")
    /\ Free(p)
    /\ IF status[p] = "Exited"
       THEN Return(a) /\ UNCHANGED <<status, retcode>>
       ELSE /\ status' = [status EXCEPT ![p] = "Exited"]
            /\ retcode' = [retcode EXCEPT ![p] = Arg(a)]
            /\ IF threads[p] = {}
               THEN /\ Enter(a, Frame("proc.terminate", p, None))
                    /\ UNCHANGED lock
               ELSE /\ Enter(a, Walk("proc.killing", p, threads[p]))
                    /\ lock' = [lock EXCEPT ![p] = a]
    /\ UNCHANGED <<jobVars, owner, threads, tokens, threadVars, victims>>

\* One turn of a loop over the threads of a process, under the process lock
WalkOn(a, t) ==
    IF Left(a) = {t} THEN Return(a)
    ELSE /\ Enter(a, Walk(pc[a].at, On(a), Left(a) \ {t}))
         /\ UNCHANGED lock

\* Process::exit kills each thread
ProcKilling(a) ==
    /\ At(a, "proc.killing")
    /\ \E t \in Left(a) :
        /\ Free(t)
        /\ Stop(t, TRUE)
        /\ WalkOn(a, t)
    /\ UNCHANGED <<jobVars, procVars, home, suspends, begun, runner, victims>>

\* Process::suspend suspends each thread
ProcSuspending(a) ==
    /\ At(a, "proc.suspending")
    /\ \E t \in Left(a) :
        /\ Free(t)
        /\ suspends' = [suspends EXCEPT ![t] = @ + 1]
        /\ WalkOn(a, t)
    /\ UNCHANGED <<jobVars, procVars, home, tstate, tkilled, begun, runner,
                   victims>>

\* Process::resume resumes each thread; a thread that has no suspend token
\* fails the assertion of Thread::resume, and the actor stops there
ProcResuming(a) ==
    /\ At(a, "proc.resuming")
    /\ \E t \in Left(a) :
        /\ Free(t)
        /\ suspends[t] # 0
        /\ suspends' = [suspends EXCEPT ![t] = @ - 1]
        /\ WalkOn(a, t)
    /\ UNCHANGED <<jobVars, procVars, home, tstate, tkilled, begun, runner,
                   victims>>

\* Process::terminate: keeps the process lock during Job::remove_process
ProcTerminate(a) ==
    LET p == On(a) IN
    /\ At(a, "proc.terminate")
    /\ Free(p)
    /\ status' = [status EXCEPT ![p] = "Exited"]
    /\ retcode' = [retcode EXCEPT ![p] = TerminalCode(p)]
    /\ lock' = [lock EXCEPT ![p] = a]
    /\ Enter(a, Frame("job.remove_process", owner[p], p))
    /\ UNCHANGED <<jobVars, owner, threads, tokens, threadVars, victims>>

\* The last thread out is left in the list.
LeftBehindMutant(p, t) == IF threads[p] = {t} THEN {t} ELSE threads[p] \ {t}
LeftBehind(p, t) == threads[p] \ {t}
LastThreadMutant(a, p) == Return(a)
LastThreadLockedMutant(a, p) ==
    /\ Enter(a, Frame("proc.terminate", p, None))
    /\ lock' = [lock EXCEPT ![p] = a]
LastThread(a, p) ==
    /\ Enter(a, Frame("proc.terminate", p, None))
    /\ UNCHANGED lock

\* Process::remove_thread: the last thread out terminates the process, with
\* the process lock dropped in between
RemoveThread(a) ==
    LET p == On(a) IN
    /\ At(a, "proc.remove_thread")
    /\ Free(p)
    /\ threads' = [threads EXCEPT ![p] = LeftBehind(p, Arg(a))]
    /\ IF threads'[p] = {} THEN LastThread(a, p) ELSE Return(a)
    /\ UNCHANGED <<jobVars, owner, status, retcode, tokens, threadVars, victims>>

-----------------------------------------------------------------------------
Init ==
    /\ born = {RootJob}
    /\ freed = {}
    /\ parent = [j \in Jobs |-> None]
    /\ killed = [j \in Jobs |-> FALSE]
    /\ children = [j \in Jobs |-> {}]
    /\ processes = [j \in Jobs |-> {}]
    /\ owner = [p \in Procs |-> None]
    /\ status = [p \in Procs |-> "absent"]
    /\ retcode = [p \in Procs |-> None]
    /\ threads = [p \in Procs |-> {}]
    /\ tokens = [p \in Procs |-> 0]
    /\ home = [t \in Threads |-> None]
    /\ tstate = [t \in Threads |-> "New"]
    /\ tkilled = [t \in Threads |-> FALSE]
    /\ suspends = [t \in Threads |-> 0]
    /\ begun = [t \in Threads |-> FALSE]
    /\ runner = [t \in Threads |-> "none"]
    /\ lock = [x \in Locks |-> None]
    /\ pc = [a \in Actors |-> Idle]
    /\ victims = [a \in Actors |-> <<>>]

\* A new operation begins.
Call(a) ==
    \/ \E j \in Jobs : \/ \E c \in Jobs : CreateJob(a, j, c)
                       \/ \E p \in Procs : CreateProcess(a, j, p)
                       \/ KillJob(a, j)
                       \/ DropJob(a, j)
    \/ \E p \in Procs : \/ \E t \in Threads : \/ StartProcess(a, p, t)
                                              \/ CreateThread(a, p, t)
                        \/ ExitProcess(a, p)
                        \/ SuspendProcess(a, p)
                        \/ ResumeProcess(a, p)
    \/ \E t \in Threads : StartThread(a, t) \/ KillThread(a, t)

\* An operation in progress takes its next step.
Continue(a) ==
    \/ ThreadStart(a)
    \/ JobKill(a)
    \/ KillLoop(a)
    \/ JobTerminate(a)
    \/ RemoveChild(a)
    \/ RemoveProcess(a)
    \/ ProcExit(a)
    \/ ProcKilling(a)
    \/ ProcSuspending(a)
    \/ ProcResuming(a)
    \/ ProcTerminate(a)
    \/ RemoveThread(a)

Run(t) == ExitThread(t) \/ RunThread(t) \/ Trap(t) \/ DropThread(t)

Next == \/ \E a \in Actors : Call(a) \/ Continue(a)
        \/ \E t \in Threads : Run(t)

Spec == Init /\ [][Next]_vars

\* A section that can go on does: a spin lock that stays free is taken, and
\* the executor polls every runner task that can be polled.  User code comes
\* back to the kernel (it traps).  Nothing forces a caller to call.
Fairness ==
    /\ \A a \in Actors : WF_vars(Continue(a))
    /\ \A t \in Threads : /\ WF_vars(RunThread(t))
                         /\ WF_vars(Trap(t))
                         /\ WF_vars(DropThread(t))

FairSpec == Spec /\ Fairness

-----------------------------------------------------------------------------
(* Types *)

Frames ==
    [at : {"idle"}, on : {None}, arg : {None}, left : {{}}]
    \cup [at : {"thread.start"}, on : Threads, arg : {None}, left : {{}}]
    \cup [at : {"job.kill", "job.terminate"}, on : Jobs, arg : {None},
          left : {{}}]
    \cup [at : {"job.remove_child"}, on : Jobs, arg : Jobs, left : {{}}]
    \cup [at : {"job.remove_process"}, on : Jobs, arg : Procs, left : {{}}]
    \cup [at : {"proc.exit"}, on : Procs, arg : ExitCodes, left : {{}}]
    \cup [at : {"proc.killing", "proc.suspending", "proc.resuming"},
          on : Procs, arg : {None}, left : SUBSET Threads]
    \cup [at : {"proc.terminate"}, on : Procs, arg : {None}, left : {{}}]
    \cup [at : {"proc.remove_thread"}, on : Procs, arg : Threads, left : {{}}]

\* Every field holds a value of its Rust type.
TypeOK ==
    /\ born \in SUBSET Jobs
    /\ freed \in SUBSET Jobs
    /\ parent \in [Jobs -> Jobs \cup {None}]
    /\ killed \in [Jobs -> BOOLEAN]
    /\ children \in [Jobs -> SUBSET Jobs]
    /\ processes \in [Jobs -> SUBSET Procs]
    /\ owner \in [Procs -> Jobs \cup {None}]
    /\ status \in [Procs -> {"absent", "Init", "Running", "Exited"}]
    /\ retcode \in [Procs -> ExitCodes \cup {None}]
    /\ threads \in [Procs -> SUBSET Threads]
    /\ tokens \in [Procs -> 0 .. MaxSuspend]
    /\ home \in [Threads -> Procs \cup {None}]
    /\ tstate \in [Threads -> {"New", "Running", "Dying", "Dead"}]
    /\ tkilled \in [Threads -> BOOLEAN]
    /\ suspends \in [Threads -> Nat]
    /\ begun \in [Threads -> BOOLEAN]
    /\ runner \in [Threads -> {"none", "wait", "busy", "gone"}]
    /\ lock \in [Locks -> Actors \cup {None}]
    /\ pc \in [Actors -> Frames]
    /\ victims \in [Actors -> Seq(SUBSET (Jobs \cup Procs))]

-----------------------------------------------------------------------------
(* Safety *)

\* The links of the tree agree in both directions: a list holds an object
\* only under its owner, and every owner exists.
LinksOK ==
    /\ RootJob \in born
    /\ \A j \in born \ {RootJob} : parent[j] \in born
    /\ \A j \in Jobs : \A c \in children[j] :
         c \in born \ {RootJob} /\ parent[c] = j
    /\ \A j \in Jobs : \A p \in processes[j] : owner[p] = j
    /\ \A p \in Procs : owner[p] \in born \/ (owner[p] = None /\ threads[p] = {})
    /\ \A p \in Procs : \A t \in threads[p] : home[t] = p
    /\ \A t \in Threads :
         \/ (home[t] \in Procs /\ owner[home[t]] # None)
         \/ (home[t] = None /\ runner[t] = "none" /\ ~begun[t])

\* Actors work only on objects that exist, and hunt only such objects.
Exists(x) == /\ x \in Jobs => x \in born
             /\ x \in Procs => owner[x] # None
             /\ x \in Threads => home[x] # None
Killable == (born \ {RootJob}) \cup {p \in Procs : owner[p] # None}
ActorsOK == \A a \in Actors : /\ Exists(On(a))
                             /\ Members(victims[a]) \subseteq Killable

\* No list, frame or snapshot ever names an object that does not exist or
\* that belongs elsewhere.
TreeOK == LinksOK /\ ActorsOK

Exited(p) == status[p] = "Exited"

\* Actor a's Job::kill loops still hold task v in a snapshot.
Hunted(a, v) == v \in Members(victims[a])
Entering(a, label, x) == At(a, label) /\ On(a) = x

\* No process escapes a kill: in a killed job every process has exited, or a
\* Job::kill in progress still has it in its snapshot or is about to exit it.
\* (job.rs: the killed flag is checked under the lock that takes the snapshot.)
KillReachesProcesses ==
    \A j \in Jobs : killed[j] => \A p \in processes[j] :
        Exited(p) \/ \E a \in Actors : Hunted(a, p) \/ Entering(a, "proc.exit", p)

\* The same for the child jobs, but for those whose last Arc is gone.
KillReachesChildren ==
    \A j \in Jobs : killed[j] => \A c \in children[j] \ freed :
        killed[c] \/ \E a \in Actors : Hunted(a, c) \/ Entering(a, "job.kill", c)

\* The last one out closes the door: a killed job with nothing under it has
\* left its parent, or some actor is on its way to take it out.  The code
\* decides this in three places (kill, remove_child, remove_process).
Leaving(j) == \E a \in Actors :
    \/ Entering(a, "job.terminate", j)
    \/ At(a, "job.remove_child") /\ Arg(a) = j
EmptyKilledJobLeaves ==
    \A j \in born \ {RootJob} :
        killed[j] /\ Childless(j) /\ j \in children[parent[j]] => Leaving(j)

\* The same one level down: an exited process without threads has left its
\* job, or some actor is on its way to take it out.
LeavingProc(p) == \E a \in Actors :
    \/ Entering(a, "proc.terminate", p)
    \/ At(a, "job.remove_process") /\ Arg(a) = p
EmptyExitedProcessLeaves ==
    \A p \in Procs : Exited(p) /\ threads[p] = {} /\ p \in processes[owner[p]]
        => LeavingProc(p)

\* Process::exit reaches every thread the process holds: each one carries the
\* killed flag, or the exiting actor still has it ahead of it.
ExitReachesThreads ==
    \A p \in Procs : retcode[p] \in {"kill", "user"} => \A t \in threads[p] :
        tkilled[t] \/ tstate[t] = "Dead"
          \/ \E a \in Actors : Entering(a, "proc.killing", p) /\ t \in Left(a)

\* A thread whose runner has ended is in its process's list only while that
\* runner takes it out.
DeadThreadLeaves ==
    \A p \in Procs : \A t \in threads[p] : tstate[t] = "Dead" =>
        At(t, "proc.remove_thread") /\ Arg(t) = t

\* The locks actor a has to take before it can go on: one object's, or that
\* of any thread still ahead of it.
Wanted(a) == IF At(a, "idle") THEN {}
             ELSE IF Left(a) # {} THEN Left(a) ELSE {On(a)}

\* What anyone in D waits for is kept by somebody in D.
Stuck(D) == \A a \in D : Wanted(a) # {} /\ \A x \in Wanted(a) : lock[x] \in D

\* No set of actors waits only for locks its own members keep.
NoDeadlock == \A D \in (SUBSET Actors) \ {{}} : ~Stuck(D)

\* Whoever does wait like that waits for one cause: an actor walks over the
\* threads of a process, which it keeps locked, and all that are left to it
\* are ending and want to leave that process, each with its own lock kept.
\* (thread.rs: the drop of CurrentThread keeps the thread's lock when it
\* calls Process::remove_thread.)
Crossed(a, t) == lock[On(a)] = a /\ lock[t] = t /\ Entering(t, "proc.remove_thread", On(a))
BlockedWalk(a) == Left(a) # {} /\ \A t \in Left(a) : Crossed(a, t)
OneDeadlock ==
    \A D \in (SUBSET Actors) \ {{}} : Stuck(D) => \E a \in D : BlockedWalk(a)

\* While nobody kills or suspends single threads, it takes more than kills and
\* exits of jobs and processes to wait like that: the threads in the way have
\* all ended on their own, and no kill has reached any of them.
OnlyOwnEndsBlock ==
    \A D \in (SUBSET Actors) \ {{}} : Stuck(D) =>
        \E a \in D : BlockedWalk(a) /\ \A t \in Left(a) : ~tkilled[t]

-----------------------------------------------------------------------------
(* Action properties *)

\* The exit code of a process never changes, however many exits, kills and
\* thread deaths race; an exited process never starts again.
ExitIsFinal ==
    [][\A p \in Procs : Exited(p) => status'[p] = "Exited"
                                     /\ retcode'[p] = retcode[p]]_vars

-----------------------------------------------------------------------------
(* Liveness *)

\* Job k is job j, or below it (in the trees of the runs, of depth three).
Under(k, j) == j = k \/ parent[k] = j

\* A process of job j, or of a job below it
Below(p, j) == \E k \in Jobs : Under(k, j) /\ owner[p] = k

\* A thread below job j that no kill can end: it was never started, so no
\* runner will drop it, or its start overtook the kill and it runs again.
Stranded(t, j) ==
    /\ home[t] # None
    /\ Below(home[t], j)
    /\ runner[t] = "none" \/ (tkilled[t] /\ tstate[t] = "Running")

\* The end of a process below job j has met threads that end on their own.
Blocked(j) == \E a \in Actors :
    At(a, "proc.killing") /\ Below(On(a), j) /\ BlockedWalk(a)

\* A killed job leaves the tree after all that is in it, unless it holds a
\* stranded thread, or the locks that the end of a thread takes stop the kill.
JobTerminates ==
    \A j \in Jobs \ {RootJob} :
        killed[j] ~>
            \/ \A k \in Jobs : j \notin children[k]
            \/ \E t \in Threads : Stranded(t, j)
            \/ Blocked(j)
=============================================================================
