--------------------------- MODULE PolicyChapters ---------------------------
(***************************************************************************)
(* Job policies in the earlier chapters: task/job_policy.rs, the policies  *)
(* of task/job.rs and Process::create are the same text from ch02-02 on.   *)
(***************************************************************************)
EXTENDS JobPolicy

-----------------------------------------------------------------------------
(* The parts *)

\* Job::policy and set_policy_basic
Setting == \E j \in Jobs, absolute \in BOOLEAN, list \in Requests : SetPolicy(j, absolute, list)
\* Process::create
Creating == \/ \E j \in Jobs, a \in Callers, p \in Procs : ReadPolicy(a, j, p)
            \/ \E a \in Callers : AddProcess(a)
\* The rest of job.rs, which TaskChapters finds the same in all of them
Family == \E j \in Jobs : \/ \E c \in Jobs : CreateChild(j, c) \/ RemoveChild(j, c)
                         \/ Kill(j)
                         \/ \E p \in Procs : RemoveProcess(j, p)

-----------------------------------------------------------------------------
(* ch02-02 *)

NoPolicy_02_02 == NoPolicy
Merge_02_02(policy, parents) == Merge(policy, parents)
Apply_02_02(policy, list, entries) == Apply(policy, list, entries)
Setting_02_02 == Setting
Creating_02_02 == Creating
Next_02_02 == Setting_02_02 \/ Creating_02_02 \/ Family
Spec_02_02 == Init /\ [][Next_02_02]_vars

-----------------------------------------------------------------------------
(* ch02-03 *)

NoPolicy_02_03 == NoPolicy
Merge_02_03(policy, parents) == Merge(policy, parents)
Apply_02_03(policy, list, entries) == Apply(policy, list, entries)
Setting_02_03 == Setting
Creating_02_03 == Creating
Next_02_03 == Setting_02_03 \/ Creating_02_03 \/ Family
Spec_02_03 == Init /\ [][Next_02_03]_vars

-----------------------------------------------------------------------------
(* ch03-02 *)

NoPolicy_03_02 == NoPolicy
Merge_03_02(policy, parents) == Merge(policy, parents)
Apply_03_02(policy, list, entries) == Apply(policy, list, entries)
Setting_03_02 == Setting
Creating_03_02 == Creating
Next_03_02 == Setting_03_02 \/ Creating_03_02 \/ Family
Spec_03_02 == Init /\ [][Next_03_02]_vars

-----------------------------------------------------------------------------
(* ch03-04 *)

NoPolicy_03_04 == NoPolicy
Merge_03_04(policy, parents) == Merge(policy, parents)
Apply_03_04(policy, list, entries) == Apply(policy, list, entries)
Setting_03_04 == Setting
Creating_03_04 == Creating
Next_03_04 == Setting_03_04 \/ Creating_03_04 \/ Family
Spec_03_04 == Init /\ [][Next_03_04]_vars

-----------------------------------------------------------------------------
(* ch04-01 *)

NoPolicy_04_01 == NoPolicy
Merge_04_01(policy, parents) == Merge(policy, parents)
Apply_04_01(policy, list, entries) == Apply(policy, list, entries)
Setting_04_01 == Setting
Creating_04_01 == Creating
Next_04_01 == Setting_04_01 \/ Creating_04_01 \/ Family
Spec_04_01 == Init /\ [][Next_04_01]_vars
=============================================================================
