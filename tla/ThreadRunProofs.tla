--------------------------- MODULE ThreadRunProofs ---------------------------
(* Theorems of ThreadRun: no wake-up is lost and no context is missed when  *)
(* a thread is started once, for any number of suspend tokens.              *)
EXTENDS ThreadChapters, TLAPS

\* A thread that is never started again has one runner at most.
OneRunner ==
    ~Restart => \A r, q \in Runners :
        phase[r] # "none" /\ phase[q] # "none" => r = q

\* Where the runner of a thread started once stands, the context is at home.
ContextHome ==
    ~Restart => \A r \in Runners :
        phase[r] \in {"spawn", "poll", "handle", "handling"} => context = Thread

\* A sleeping runner has nothing to wake it but the last resume or a kill.
SleepOK ==
    ~Restart => \A r \in Runners :
        Asleep(r) => /\ waker = r
                     /\ suspends > 0
                     /\ state \notin {"Dying", "Dead"}

\* A dead thread had a runner, and it is gone.
DeadOK ==
    ~Restart /\ state = "Dead" => \E r \in Runners : phase[r] = "gone"

\* The inductive invariant.
IInv == /\ TypeOK /\ LentToOne
        /\ OneRunner /\ ContextHome /\ SleepOK /\ DeadOK
        /\ (~Restart => NoPanic)

USE NamesAssumption, RestartAssumption, SuspendAssumption

LEMMA InitIInv == Init => IInv
BY DEF Init, IInv, TypeOK, States, Phases, LentToOne, Holds, OneRunner,
       ContextHome, SleepOK, Asleep, DeadOK, NoPanic

LEMMA CallersIInv ==
    ASSUME IInv, Kill \/ Suspend \/ Resume
    PROVE  IInv'
<1> USE DEF IInv, TypeOK, Wake
<1>0. /\ UNCHANGED <<waker, scheduled>>
         \/ Wake
      /\ Wake => scheduled' \in [Runners -> BOOLEAN]
  BY DEF Kill, Stop, Suspend, Resume
<1>1. TypeOK'
  <2>1. scheduled' \in [Runners -> BOOLEAN] /\ waker' \in Runners \cup {None}
    BY <1>0
  <2>2. suspends' \in 0 .. MaxSuspend
    BY DEF Kill, Suspend, Resume, HasToken
  <2>3. state' \in States
    BY DEF Kill, Stop, Suspend, Resume, States
  <2>4. UNCHANGED <<context, phase, panicked>>
    BY DEF Kill, Suspend, Resume
  <2> QED
    BY <2>1, <2>2, <2>3, <2>4
<1>2. UNCHANGED <<context, phase, panicked>>
  BY DEF Kill, Suspend, Resume
<1>3. LentToOne' /\ OneRunner' /\ ContextHome' /\ (~Restart => NoPanic)'
  BY <1>2 DEF LentToOne, Holds, OneRunner, ContextHome, NoPanic
<1>4. SleepOK'
  <2>1. CASE Kill
    BY <2>1 DEF Kill, Stop, SleepOK, Asleep
  <2>2. CASE Suspend
    BY <2>2 DEF Suspend, SleepOK, Asleep
  <2>3. CASE Resume
    <3>1. CASE LastToken
      <4>1. \A r \in Runners : waker = r => scheduled'[r]
        BY <2>3, <3>1 DEF Resume
      <4>2. \A r \in Runners : scheduled[r] => scheduled'[r]
        BY <2>3, <3>1 DEF Resume
      <4> QED
        BY <2>3, <4>1, <4>2 DEF Resume, SleepOK, Asleep
    <3>2. CASE ~LastToken
      BY <2>3, <3>2 DEF Resume, HasToken, LastToken, SleepOK, Asleep
    <3> QED
      BY <3>1, <3>2
  <2> QED
    BY <2>1, <2>2, <2>3
<1>5. DeadOK'
  BY DEF Kill, Stop, Suspend, Resume, DeadOK
<1> QED
  BY <1>1, <1>3, <1>4, <1>5

LEMMA StartIInv ==
    ASSUME IInv, NEW r \in Runners, Start(r)
    PROVE  IInv'
<1> USE DEF IInv, TypeOK, Goto, Start
<1>1. TypeOK'
  BY DEF States, Phases
<1>2. LentToOne'
  BY DEF LentToOne, Holds
<1>3. OneRunner' /\ ContextHome' /\ SleepOK' /\ (~Restart => NoPanic)'
  BY DEF OneRunner, ContextHome, SleepOK, Asleep, NoPanic
<1> QED
  BY <1>1, <1>2, <1>3 DEF DeadOK

LEMMA RunIInv ==
    ASSUME IInv, NEW r \in Runners, Run(r)
    PROVE  IInv'
<1> USE DEF IInv, TypeOK, Goto, Unwind, Again
<1>1. CASE Spawn(r)
  <2>1. TypeOK'
    BY <1>1 DEF Spawn, threadVars, Phases
  <2> QED
    BY <1>1, <2>1 DEF Spawn, threadVars, LentToOne, Holds, OneRunner,
       ContextHome, SleepOK, Asleep, DeadOK, NoPanic
<1>2. CASE Take(r)
  <2>1. TypeOK'
    BY <1>2 DEF Take, Polled, Lend, Phases
  <2>2. ~Restart => context = Thread
    BY <1>2 DEF Take, Polled, ContextHome
  <2>3. CASE context = Thread
    BY <1>2, <2>1, <2>3 DEF Take, Polled, Lend, LentToOne, Holds, OneRunner,
       ContextHome, SleepOK, Asleep, DeadOK, NoPanic
  <2>4. CASE context # Thread
    BY <1>2, <2>1, <2>2, <2>4 DEF Take, Polled, LentToOne, Holds, OneRunner,
       ContextHome, SleepOK, Asleep, DeadOK, NoPanic
  <2> QED
    BY <2>3, <2>4
<1>3. CASE Sleep(r)
  <2>1. TypeOK'
    BY <1>3 DEF Sleep
  <2>2. suspends > 0 /\ state \notin {"Dying", "Dead"}
    BY <1>3 DEF Sleep, Ready, Reported, States
  <2>3. SleepOK'
    BY <1>3, <2>2 DEF Sleep, Polled, SleepOK, Asleep, OneRunner
  <2> QED
    BY <1>3, <2>1, <2>3 DEF Sleep, Polled, LentToOne, Holds, OneRunner,
       ContextHome, DeadOK, NoPanic
<1>4. CASE Check(r)
  <2>1. TypeOK'
    BY <1>4 DEF Check, Phases
  <2>2. context = r
    BY <1>4 DEF Check, LentToOne, Holds
  <2> QED
    BY <1>4, <2>1, <2>2 DEF Check, ChecksDying, LentToOne, Holds, OneRunner,
       ContextHome, SleepOK, Asleep, DeadOK, NoPanic
<1>5. CASE Trap(r)
  <2>1. TypeOK'
    BY <1>5 DEF Trap, EndRunning, Phases
  <2>2. context = r
    BY <1>5 DEF Trap, LentToOne, Holds
  <2> QED
    BY <1>5, <2>1, <2>2 DEF Trap, EndRunning, LentToOne, Holds, OneRunner,
       ContextHome, SleepOK, Asleep, DeadOK, NoPanic
<1>6. CASE Fetch(r) \/ Answer(r)
  <2>1. TypeOK'
    BY <1>6 DEF Fetch, Answer, UseContext, threadVars, Phases
  <2>2. ~Restart => context = Thread
    BY <1>6 DEF Fetch, Answer, UseContext, ContextHome
  <2>3. LentToOne' /\ OneRunner' /\ DeadOK'
    BY <1>6 DEF Fetch, Answer, UseContext, threadVars, LentToOne, Holds,
                OneRunner, DeadOK
  <2>4. ContextHome' /\ SleepOK' /\ (~Restart => NoPanic)'
    BY <1>6, <2>2 DEF Fetch, Answer, UseContext, threadVars, ContextHome,
                      SleepOK, Asleep, NoPanic
  <2> QED
    BY <2>1, <2>3, <2>4
<1>7. CASE Drop(r)
  <2>1. TypeOK'
    BY <1>7 DEF Drop, States, Phases
  <2>2. LentToOne' /\ OneRunner' /\ ContextHome' /\ (~Restart => NoPanic)'
    BY <1>7 DEF Drop, LentToOne, Holds, OneRunner, ContextHome, NoPanic
  <2>3. SleepOK'
    BY <1>7 DEF Drop, SleepOK, Asleep, OneRunner
  <2> QED
    BY <1>7, <2>1, <2>2, <2>3 DEF Drop, DeadOK
<1> QED
  BY <1>1, <1>2, <1>3, <1>4, <1>5, <1>6, <1>7 DEF Run

LEMMA NextIInv == IInv /\ [Next]_vars => IInv'
<1> SUFFICES ASSUME IInv, [Next]_vars PROVE IInv'
  OBVIOUS
<1>1. CASE UNCHANGED vars
  BY <1>1 DEF vars, IInv, TypeOK, LentToOne, Holds, OneRunner, ContextHome,
              SleepOK, Asleep, DeadOK, NoPanic
<1> QED
  BY <1>1, CallersIInv, StartIInv, RunIInv DEF Next

\* What the invariant says of a thread that is started once.
LEMMA IInvSafe ==
    ASSUME ~Restart, IInv
    PROVE  NoLostWakeup /\ NoPanic /\ DeadHasStopped
<1>1. NoLostWakeup
  BY DEF IInv, TypeOK, NoLostWakeup, SleepOK, ContextHome, Asleep, Reported
<1>2. NoPanic
  BY DEF IInv
<1>3. DeadHasStopped
  BY DEF IInv, DeadHasStopped, DeadOK, OneRunner, Active
<1> QED
  BY <1>1, <1>2, <1>3

\* A thread that is started once (no caller calls Thread::start again) loses
\* no wake-up, never unwraps an absent context, and is at rest when it is
\* Dead, for any number of suspend tokens (thread.rs, wait_for_run, resume,
\* stop).
THEOREM RunsSafely ==
    ~Restart => (Spec => [](NoLostWakeup /\ NoPanic /\ DeadHasStopped))
<1> SUFFICES ASSUME ~Restart
             PROVE  Spec => [](NoLostWakeup /\ NoPanic /\ DeadHasStopped)
  OBVIOUS
<1>1. IInv => NoLostWakeup /\ NoPanic /\ DeadHasStopped
  BY IInvSafe
<1> QED
  BY <1>1, InitIInv, NextIInv, PTL DEF Spec

\* Even with any number of starts the context has one holder at a time, so
\* user code never runs on a context somebody else can read or write.
THEOREM ContextLentToOne == Spec => []LentToOne
<1>1. IInv => LentToOne
  BY DEF IInv
<1> QED
  BY <1>1, InitIInv, NextIInv, PTL DEF Spec

-----------------------------------------------------------------------------
(* The earlier chapters.  From ch02-03 on the runner is that of ch04-03;   *)
(* ch04-01 has a thread function of its own.                               *)

\* The parts of ThreadChapters are all that Next does.
LEMMA ThreadParts ==
    Next <=> \/ Stopping \/ Halting
             \/ \E r \in Runners : \/ Starting(r) \/ Waiting(r) \/ Check(r)
                                   \/ UsingContext(r) \/ Dropping(r)
BY DEF Next, Run, Stopping, Halting, Starting, Waiting, UsingContext, Dropping

\* The runner of ch02-03 is that of ch04-03.
THEOREM RunnerOf_02_03 == Spec_02_03 <=> Spec
<1>1. Next_02_03 <=> Next
  BY ThreadParts
  DEF Next_02_03, Stopping_02_03, Halting_02_03, Starting_02_03, Waiting_02_03,
      UsingContext_02_03, Dropping_02_03
<1>2. [Next_02_03]_vars_02_03 <=> [Next]_vars
  BY <1>1 DEF vars_02_03, vars, threadVars_02_03, threadVars
<1> QED
  BY <1>2, PTL DEF Spec_02_03, Spec, Init_02_03

\* The runner of ch03-02 is that of ch04-03.
THEOREM RunnerOf_03_02 == Spec_03_02 <=> Spec
<1>1. Next_03_02 <=> Next
  BY ThreadParts
  DEF Next_03_02, Stopping_03_02, Halting_03_02, Starting_03_02, Waiting_03_02,
      UsingContext_03_02, Dropping_03_02
<1>2. [Next_03_02]_vars_03_02 <=> [Next]_vars
  BY <1>1 DEF vars_03_02, vars, threadVars_03_02, threadVars
<1> QED
  BY <1>2, PTL DEF Spec_03_02, Spec, Init_03_02

\* The runner of ch03-04 is that of ch04-03.
THEOREM RunnerOf_03_04 == Spec_03_04 <=> Spec
<1>1. Next_03_04 <=> Next
  BY ThreadParts
  DEF Next_03_04, Stopping_03_04, Halting_03_04, Starting_03_04, Waiting_03_04,
      UsingContext_03_04, Dropping_03_04
<1>2. [Next_03_04]_vars_03_04 <=> [Next]_vars
  BY <1>1 DEF vars_03_04, vars, threadVars_03_04, threadVars
<1> QED
  BY <1>2, PTL DEF Spec_03_04, Spec, Init_03_04

\* The thread function of ch04-01 keeps the invariant, too.
LEMMA NewThreadIInv ==
    ASSUME IInv, NEW r \in Runners, Enter_04_01(r) \/ BackFromUser_04_01(r)
    PROVE  IInv'
<1> USE DEF IInv, TypeOK, Goto, Unwind, threadVars
<1>1. context = r
  BY DEF Enter_04_01, BackFromUser_04_01, LentToOne, Holds
<1>2. CASE Enter_04_01(r)
  <2>1. TypeOK'
    BY <1>2 DEF Enter_04_01, Phases
  <2> QED
    BY <1>1, <1>2, <2>1 DEF Enter_04_01, LentToOne, Holds, OneRunner, ContextHome,
                            SleepOK, Asleep, DeadOK, NoPanic
<1>3. CASE BackFromUser_04_01(r)
  <2>1. TypeOK'
    BY <1>3 DEF BackFromUser_04_01, Phases
  <2> QED
    BY <1>1, <1>3, <2>1 DEF BackFromUser_04_01, LentToOne, Holds, OneRunner,
                            ContextHome, SleepOK, Asleep, DeadOK, NoPanic
<1> QED
  BY <1>2, <1>3

\* The runner of ch04-01, which enters user code once and takes the context
\* down when it is back, lends the context to one holder at a time and, for a
\* thread started once, loses no wake-up.
THEOREM RunnerOf_04_01 ==
    Spec_04_01 => [](LentToOne /\ (~Restart => NoLostWakeup /\ NoPanic /\ DeadHasStopped))
<1>1. Init_04_01 => IInv
  BY InitIInv DEF Init_04_01
<1>2. IInv /\ [Next_04_01]_vars_04_01 => IInv'
  <2> SUFFICES ASSUME IInv, [Next_04_01]_vars_04_01 PROVE IInv'
    OBVIOUS
  <2>1. CASE UNCHANGED vars_04_01
    <3>1. UNCHANGED vars
      BY <2>1 DEF vars_04_01, threadVars_04_01, vars, threadVars
    <3> QED
      BY <3>1, NextIInv
  <2>2. ASSUME NEW r \in Runners, Enter_04_01(r) \/ BackFromUser_04_01(r) PROVE IInv'
    BY <2>2, NewThreadIInv
  <2>3. \/ [Next]_vars
        \/ UNCHANGED vars_04_01
        \/ \E r \in Runners : Enter_04_01(r) \/ BackFromUser_04_01(r)
    BY ThreadParts
    DEF Next_04_01, Stopping_04_01, Halting_04_01, Starting_04_01, Waiting_04_01,
        Dropping_04_01
  <2> QED
    BY <2>1, <2>2, <2>3, NextIInv
<1>3. IInv => LentToOne /\ (~Restart => NoLostWakeup /\ NoPanic /\ DeadHasStopped)
  BY IInvSafe DEF IInv
<1> QED
  BY <1>1, <1>2, <1>3, PTL DEF Spec_04_01
=============================================================================
