--------------------------- MODULE ThreadChapters ---------------------------
(***************************************************************************)
(* The thread runner in the earlier chapters.  task/thread.rs is the same  *)
(* file from ch02-03 on.  Until ch03-04 whoever starts a thread brings the *)
(* thread function along, and the one of ch04-03 stands for it.  The one   *)
(* of ch04-01 enters user code once, without a look at the state, and      *)
(* panics when it comes back, with the context in its hands.               *)
(***************************************************************************)
EXTENDS ThreadRun

-----------------------------------------------------------------------------
(* The parts *)

\* Thread::start
Starting(r) == Start(r) \/ Spawn(r)
\* Thread::stop
Stopping == Kill
\* <Thread as Task>::suspend and resume
Halting == Suspend \/ Resume
\* CurrentThread::wait_for_run
Waiting(r) == Take(r) \/ Sleep(r)
\* CurrentThread::end_running and with_context
UsingContext(r) == Trap(r) \/ Fetch(r) \/ Answer(r)
\* <CurrentThread as Drop>::drop
Dropping(r) == Drop(r)

-----------------------------------------------------------------------------
(* ch02-03 *)

threadVars_02_03 == threadVars
vars_02_03 == <<threadVars_02_03, phase, scheduled, panicked>>
Init_02_03 == Init
Reported_02_03 == Reported
Starting_02_03(r) == Starting(r)
Waiting_02_03(r) == Waiting(r)
Dropping_02_03(r) == Dropping(r)
Stopping_02_03 == Stopping
Halting_02_03 == Halting
UsingContext_02_03(r) == UsingContext(r)

Next_02_03 ==
    \/ Stopping_02_03 \/ Halting_02_03
    \/ \E r \in Runners : \/ Starting_02_03(r) \/ Waiting_02_03(r) \/ Check(r)
                          \/ UsingContext_02_03(r) \/ Dropping_02_03(r)
Spec_02_03 == Init_02_03 /\ [][Next_02_03]_vars_02_03

-----------------------------------------------------------------------------
(* ch03-02 *)

threadVars_03_02 == threadVars
vars_03_02 == <<threadVars_03_02, phase, scheduled, panicked>>
Init_03_02 == Init
Reported_03_02 == Reported
Starting_03_02(r) == Starting(r)
Waiting_03_02(r) == Waiting(r)
Dropping_03_02(r) == Dropping(r)
Stopping_03_02 == Stopping
Halting_03_02 == Halting
UsingContext_03_02(r) == UsingContext(r)

Next_03_02 ==
    \/ Stopping_03_02 \/ Halting_03_02
    \/ \E r \in Runners : \/ Starting_03_02(r) \/ Waiting_03_02(r) \/ Check(r)
                          \/ UsingContext_03_02(r) \/ Dropping_03_02(r)
Spec_03_02 == Init_03_02 /\ [][Next_03_02]_vars_03_02

-----------------------------------------------------------------------------
(* ch03-04 *)

threadVars_03_04 == threadVars
vars_03_04 == <<threadVars_03_04, phase, scheduled, panicked>>
Init_03_04 == Init
Reported_03_04 == Reported
Starting_03_04(r) == Starting(r)
Waiting_03_04(r) == Waiting(r)
Dropping_03_04(r) == Dropping(r)
Stopping_03_04 == Stopping
Halting_03_04 == Halting
UsingContext_03_04(r) == UsingContext(r)

Next_03_04 ==
    \/ Stopping_03_04 \/ Halting_03_04
    \/ \E r \in Runners : \/ Starting_03_04(r) \/ Waiting_03_04(r) \/ Check(r)
                          \/ UsingContext_03_04(r) \/ Dropping_03_04(r)
Spec_03_04 == Init_03_04 /\ [][Next_03_04]_vars_03_04

-----------------------------------------------------------------------------
(* ch04-01 *)

threadVars_04_01 == threadVars
vars_04_01 == <<threadVars_04_01, phase, scheduled, panicked>>
Init_04_01 == Init
Reported_04_01 == Reported
Starting_04_01(r) == Starting(r)
Waiting_04_01(r) == Waiting(r)
Dropping_04_01(r) == Dropping(r)
Stopping_04_01 == Stopping
Halting_04_01 == Halting

\* new_thread: user code begins
Enter_04_01(r) ==
    /\ phase[r] = "held"
    /\ Goto(r, "user")
    /\ UNCHANGED <<threadVars, scheduled, panicked>>

\* new_thread: it is back, and the panic takes the context down
BackFromUser_04_01(r) ==
    /\ phase[r] = "user"
    /\ Unwind(r)
    /\ context' = None
    /\ UNCHANGED <<state, suspends, waker, scheduled, panicked>>

Next_04_01 ==
    \/ Stopping_04_01 \/ Halting_04_01
    \/ \E r \in Runners : \/ Starting_04_01(r) \/ Waiting_04_01(r) \/ Enter_04_01(r)
                          \/ BackFromUser_04_01(r) \/ Dropping_04_01(r)
Spec_04_01 == Init_04_01 /\ [][Next_04_01]_vars_04_01
=============================================================================
