------------------------------ MODULE TaskLife ------------------------------
(***************************************************************************)
(* What the task tree promises its users, without locks or intermediate    *)
(* states: the life of a job and of a process is a few one-way steps, a    *)
(* doomed job takes nothing new, nothing leaves before what it holds has   *)
(* left, and the exit code of a process is settled once.                   *)
(***************************************************************************)
EXTENDS Naturals

CONSTANTS Jobs, Procs, RootJob, None

VARIABLES
    up,     \* the parent of each job
    job,    \* "none", "live", "dying" (killed or unreferenced), "out"
    under,  \* the job of each process
    proc,   \* "none", "Init", "Running", "Exited", "out"
    code    \* the exit code of each process

vars == <<up, job, under, proc, code>>

ExitCodes == {"zero", "kill", "user"}

Init ==
    /\ up = [j \in Jobs |-> None]
    /\ job = [j \in Jobs |-> IF j = RootJob THEN "live" ELSE "none"]
    /\ under = [p \in Procs |-> None]
    /\ proc = [p \in Procs |-> "none"]
    /\ code = [p \in Procs |-> None]

AddJob(j, c) ==
    /\ job[j] = "live"
    /\ job[c] = "none"
    /\ up' = [up EXCEPT ![c] = j]
    /\ job' = [job EXCEPT ![c] = "live"]
    /\ UNCHANGED <<under, proc, code>>

DoomJob(j) ==
    /\ job[j] = "live"
    /\ job' = [job EXCEPT ![j] = "dying"]
    /\ UNCHANGED <<up, under, proc, code>>

\* Nothing below the job is left in it.
Emptied(j) == /\ \A c \in Jobs : up[c] = j => job[c] = "out"
              /\ \A p \in Procs : under[p] = j => proc[p] = "out"

LeaveJob(j) ==
    /\ j # RootJob
    /\ job[j] = "dying"
    /\ Emptied(j)
    /\ job' = [job EXCEPT ![j] = "out"]
    /\ UNCHANGED <<up, under, proc, code>>

AddProc(j, p) ==
    /\ job[j] = "live"
    /\ proc[p] = "none"
    /\ under' = [under EXCEPT ![p] = j]
    /\ proc' = [proc EXCEPT ![p] = "Init"]
    /\ UNCHANGED <<up, job, code>>

StartProc(p) ==
    /\ proc[p] = "Init"
    /\ proc' = [proc EXCEPT ![p] = "Running"]
    /\ UNCHANGED <<up, job, under, code>>

ExitProc(p, c) ==
    /\ proc[p] \in {"Init", "Running"}
    /\ proc' = [proc EXCEPT ![p] = "Exited"]
    /\ code' = [code EXCEPT ![p] = c]
    /\ UNCHANGED <<up, job, under>>

LeaveProc(p) ==
    /\ proc[p] = "Exited"
    /\ proc' = [proc EXCEPT ![p] = "out"]
    /\ UNCHANGED <<up, job, under, code>>

Next ==
    \/ \E j \in Jobs : \/ \E c \in Jobs : AddJob(j, c)
                       \/ \E p \in Procs : AddProc(j, p)
                       \/ DoomJob(j)
                       \/ LeaveJob(j)
    \/ \E p \in Procs : \/ StartProc(p)
                        \/ \E c \in ExitCodes : ExitProc(p, c)
                        \/ LeaveProc(p)

Spec == Init /\ [][Next]_vars
=============================================================================
