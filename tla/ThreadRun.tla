------------------------------ MODULE ThreadRun ------------------------------
(***************************************************************************)
(* How a thread runs (task/thread.rs, the thread function of the loader):  *)
(* Thread::start spawns a runner task, which takes the user context out of *)
(* the thread (wait_for_run), runs user code on it, puts it back           *)
(* (end_running), handles the trap and starts over.  A suspended thread    *)
(* keeps its context: the runner leaves its waker in the thread and sleeps *)
(* until the last resume, or a kill, wakes it.                             *)
(*                                                                         *)
(* Every action is one critical section of the thread's mutex, or one step *)
(* of a runner outside it.  Nothing stops callers of Thread::start from    *)
(* starting a thread twice; Restart says whether they do.  TaskTree covers *)
(* what the end of the thread does to its process.                         *)
(***************************************************************************)
EXTENDS Naturals

CONSTANTS
    Runners,    \* runner tasks, one for each call of Thread::start
    Thread,     \* the place of the context inside the thread object
    None,       \* no waker; also: the context is gone
    Restart,    \* whether a thread may be started again
    MaxSuspend  \* bound: suspend tokens at a time

ASSUME NamesAssumption == /\ Thread \notin Runners
                          /\ None \notin Runners \cup {Thread}
ASSUME RestartAssumption == Restart \in BOOLEAN
ASSUME SuspendAssumption == MaxSuspend \in Nat

VARIABLES
    state,      \* ThreadInner::state
    suspends,   \* ThreadInner::suspend_count
    context,    \* who has the one UserContext: the thread, a runner, or nobody
    waker,      \* the runner whose waker ThreadInner::waker holds
    phase,      \* where each runner stands in the thread function
    scheduled,  \* the executor will poll the runner
    panicked    \* runners that unwrapped a context that was not there

vars == <<state, suspends, context, waker, phase, scheduled, panicked>>
threadVars == <<state, suspends, context, waker>>

-----------------------------------------------------------------------------
\* ThreadInner::state(): a suspended thread is Suspended only while it has its
\* context, and not when it is dying or dead
Reported == IF suspends = 0 \/ context # Thread \/ state \in {"Dying", "Dead"}
            THEN state ELSE "Suspended"

\* Waker::wake on the waker of the thread, if there is one
WakeMutant == UNCHANGED <<waker, scheduled>>
Wake == /\ waker' = None
        /\ scheduled' = [r \in Runners |-> scheduled[r] \/ r = waker]

Goto(r, p) == phase' = [phase EXCEPT ![r] = p]

\* The runner unwinds: its locals go, CurrentThread last.
Unwind(r) == Goto(r, "drop")

\* the next pass of the loop starts in the same poll, without a wake-up
Again(r) == /\ Goto(r, "poll")
            /\ scheduled' = [scheduled EXCEPT ![r] = TRUE]

-----------------------------------------------------------------------------
(* Callers *)

\* Thread::start, its critical section; without a context it is BAD_STATE
Start(r) ==
    /\ phase[r] = "none"
    /\ Restart \/ \A q \in Runners : phase[q] = "none"
    /\ context = Thread
    /\ state' = "Running"
    /\ Goto(r, "spawn")
    /\ UNCHANGED <<suspends, context, waker, scheduled, panicked>>

\* Thread::start, after it: the runner task is spawned
Spawn(r) ==
    /\ phase[r] = "spawn"
    /\ Again(r)
    /\ UNCHANGED <<threadVars, panicked>>

\* Thread::stop (kill, or CurrentThread::exit)
Stop == /\ state \notin {"Dying", "Dead"}
        /\ state' = "Dying"
        /\ Wake
Kill ==
    /\ Stop
    /\ UNCHANGED <<suspends, context, phase, panicked>>

\* <Thread as Task>::suspend
Suspend ==
    /\ suspends < MaxSuspend
    /\ suspends' = suspends + 1
    /\ UNCHANGED <<state, context, waker, phase, scheduled, panicked>>

\* <Thread as Task>::resume, by a caller that has suspended
HasToken == suspends > 0
LastTokenMutant == suspends > 1
LastToken == suspends = 1
Resume ==
    /\ HasToken
    /\ suspends' = suspends - 1
    /\ IF LastToken THEN Wake ELSE UNCHANGED <<waker, scheduled>>
    /\ UNCHANGED <<state, context, phase, panicked>>

-----------------------------------------------------------------------------
(* The runner *)

Polled(r) == phase[r] = "poll" /\ scheduled[r]

\* RunnableChecker::poll is ready: the context is taken; where there is none
\* the unwrap panics
Ready == Reported # "Suspended"
Lend(r) == context' = r
Take(r) ==
    /\ Polled(r)
    /\ Ready
    /\ IF context = Thread
       THEN Lend(r) /\ Goto(r, "held") /\ UNCHANGED panicked
       ELSE panicked' = panicked \cup {r} /\ Unwind(r) /\ UNCHANGED context
    /\ UNCHANGED <<state, suspends, waker, scheduled>>

\* RunnableChecker::poll is pending: the waker is left in the thread
Sleep(r) ==
    /\ Polled(r)
    /\ ~Ready
    /\ waker' = r
    /\ scheduled' = [scheduled EXCEPT ![r] = FALSE]
    /\ UNCHANGED <<state, suspends, context, phase, panicked>>

\* new_thread: after wait_for_run; the context goes down with a dying loop
ChecksDyingMutant == FALSE
ChecksDying == state = "Dying"
Check(r) ==
    /\ phase[r] = "held"
    /\ IF ChecksDying THEN Unwind(r) /\ context' = None
                      ELSE Goto(r, "user") /\ UNCHANGED context
    /\ UNCHANGED <<state, suspends, waker, scheduled, panicked>>

\* context_run returns and end_running puts the context back; a system call
\* is handled next, any other trap panics
EndRunningMutant == UNCHANGED context
EndRunning == context' = Thread
Trap(r) ==
    /\ phase[r] = "user"
    /\ EndRunning
    /\ Goto(r, "handle") \/ Unwind(r)
    /\ UNCHANGED <<state, suspends, waker, scheduled, panicked>>

\* handle_syscall reads its arguments through with_context, and later writes
\* its result the same way: both unwrap the context
UseContext(r, from, next) ==
    /\ phase[r] = from
    /\ IF context = Thread
       THEN next /\ UNCHANGED panicked
       ELSE panicked' = panicked \cup {r} /\ Unwind(r) /\ UNCHANGED scheduled
    /\ UNCHANGED threadVars
Fetch(r) == UseContext(r, "handle", Goto(r, "handling") /\ UNCHANGED scheduled)
Answer(r) == UseContext(r, "handling", Again(r))

\* <CurrentThread as Drop>::drop
Drop(r) ==
    /\ phase[r] = "drop"
    /\ state' = "Dead"
    /\ Goto(r, "gone")
    /\ UNCHANGED <<suspends, context, waker, scheduled, panicked>>

-----------------------------------------------------------------------------
Init ==
    /\ state = "New"
    /\ suspends = 0
    /\ context = Thread
    /\ waker = None
    /\ phase = [r \in Runners |-> "none"]
    /\ scheduled = [r \in Runners |-> FALSE]
    /\ panicked = {}

Run(r) == \/ Spawn(r) \/ Take(r) \/ Sleep(r) \/ Check(r) \/ Trap(r)
          \/ Fetch(r) \/ Answer(r) \/ Drop(r)

Next == \/ Kill \/ Suspend \/ Resume
        \/ \E r \in Runners : Start(r) \/ Run(r)

Spec == Init /\ [][Next]_vars

\* The executor polls what is scheduled and a poll runs to its end; user code
\* traps.  No caller is obliged to call.
FairSpec == Spec /\ \A r \in Runners : WF_vars(Run(r))

-----------------------------------------------------------------------------
States == {"New", "Running", "Dying", "Dead"}
Phases == {"none", "spawn", "poll", "held", "user", "handle", "handling",
           "drop", "gone"}

\* Every field holds a value of its Rust type; the runners stand somewhere.
TypeOK ==
    /\ state \in States
    /\ suspends \in 0 .. MaxSuspend
    /\ context \in Runners \cup {Thread, None}
    /\ waker \in Runners \cup {None}
    /\ phase \in [Runners -> Phases]
    /\ scheduled \in [Runners -> BOOLEAN]
    /\ panicked \in SUBSET Runners

Asleep(r) == phase[r] = "poll" /\ ~scheduled[r]
Holds(r) == phase[r] \in {"held", "user"}
Active == {r \in Runners : phase[r] \notin {"none", "gone"}}

\* No wake-up is lost: a runner sleeps only while its thread is suspended, and
\* then the thread has its waker, whatever resumes and kills come in between.
NoLostWakeup ==
    \A r \in Runners : Asleep(r) => Reported = "Suspended" /\ waker = r

\* The context is never unwrapped while it is out: wait_for_run and
\* handle_syscall always find it in the thread.
NoPanic == panicked = {}

\* "Dead: The thread has stopped running" (ThreadState): no runner of a dead
\* thread is at work or will be.
DeadHasStopped == state = "Dead" => Active = {}

\* The runner that holds the context is the one the thread lent it to; user
\* code never runs on a context somebody else could read or write.
LentToOne == \A r \in Runners : Holds(r) <=> context = r

\* A thread that was started and then killed dies: its runner is woken, sees
\* Dying and drops the thread, or it has panicked and dropped it before.
KilledDies ==
    \A r \in Runners : phase[r] # "none" /\ state = "Dying" ~> state = "Dead"

\* A runner is not left in wait_for_run for ever while nobody suspends.
ResumedRuns ==
    \A r \in Runners : ~ <>[](phase[r] = "poll" /\ suspends = 0)
=============================================================================
