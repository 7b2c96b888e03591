---------------------------- MODULE TaskTreeLife ----------------------------
(* TaskTree implements TaskLife: the lists and flags behind the locks, read *)
(* as the stages of a job's and a process's life.                           *)
EXTENDS TaskTree

\* A job is out once its parent's list has lost it; a kill or the loss of its
\* last Arc dooms it.
JobLife(j) ==
    IF j \notin born THEN "none"
    ELSE IF j # RootJob /\ j \notin children[parent[j]] THEN "out"
    ELSE IF killed[j] \/ j \in freed THEN "dying" ELSE "live"

\* A process is out once its job's list has lost it.
ProcLife(p) ==
    IF owner[p] = None THEN "none"
    ELSE IF p \notin processes[owner[p]] THEN "out" ELSE status[p]

Life == INSTANCE TaskLife WITH
    up <- parent,
    job <- [j \in Jobs |-> JobLife(j)],
    under <- owner,
    proc <- [p \in Procs |-> ProcLife(p)],
    code <- retcode

\* Every behaviour of the lock-level tree is one of the abstract life cycle:
\* nothing is added to a doomed job, nothing leaves before what it holds.
LifeSpec == Life!Spec
=============================================================================
