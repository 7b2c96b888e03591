----------------------------- MODULE MCTaskTree -----------------------------
(* TLC instances of TaskTree: symmetry, and the calls each run allows.      *)
EXTENDS TaskTreeLife, TLC

Symmetry == Permutations(Procs) \cup Permutations(Threads)
              \cup Permutations(Callers)

\* bounds of the runs: which calls the environment makes
KillCalls == {"createJob", "createProc", "createThread", "startProc",
              "killJob", "exitProc", "dropJob"}
AllCalls == KillCalls \cup {"startThread", "killThread", "exitThread",
                            "suspendProc", "resumeProc"}
=============================================================================
