------------------------------ MODULE JobPolicy ------------------------------
(***************************************************************************)
(* The policies of jobs and processes (task/job.rs, task/job_policy.rs,    *)
(* Process::create).  A job owns a policy, set only while it is empty, and *)
(* keeps a copy of what its parent's effective policy was when the job was *)
(* made; a process keeps a copy of its job's effective policy.             *)
(*                                                                         *)
(* Everything is one section of the job's mutex, except Process::create:   *)
(* it reads the policy in one section and joins the job in another.        *)
(***************************************************************************)
EXTENDS Naturals, Sequences

CONSTANTS
    Jobs, Procs, RootJob,
    Callers,        \* kernel code that creates processes
    Conditions,     \* PolicyCondition
    Policies,       \* PolicyAction
    Requests,       \* the lists of basic policies callers set
    None

ASSUME RootAssumption == RootJob \in Jobs
ASSUME NoneAssumption == None \notin Jobs \cup Procs \cup Policies
ASSUME RequestsAssumption ==
    Requests \subseteq Seq([condition : Conditions, action : Policies])

VARIABLES
    parent,     \* Job::parent; None before create_child
    inherited,  \* Job::parent_policy
    own,        \* JobInner::policy
    children,   \* JobInner::children
    processes,  \* JobInner::processes
    killed,     \* JobInner::killed
    seen,       \* Process::policy
    creating    \* the Process::create each caller is in the middle of

vars == <<parent, inherited, own, children, processes, killed, seen, creating>>

-----------------------------------------------------------------------------
NoPolicy == [c \in Conditions |-> None]

\* JobPolicy::merge: what the parent's policy says prevails
Merge(policy, parents) ==
    [c \in Conditions |-> IF parents[c] # None THEN parents[c] ELSE policy[c]]

\* Job::policy, and the policy create_child hands down
Effective(j) == Merge(own[j], inherited[j])
HandDownMutant(j) == own[j]
HandDown(j) == Effective(j)

IsEmpty(j) == children[j] = {} /\ processes[j] = {}

Made == {j \in Jobs : j = RootJob \/ parent[j] # None}

\* set_policy_basic goes through the list in order; an entry the parent's
\* policy already decides is skipped, or ends an Absolute call.
ConflictsMutant(j, list) == {}
Conflicts(j, list) ==
    {i \in DOMAIN list : inherited[j][list[i].condition] # None}
Applied(j, absolute, list) ==
    {i \in DOMAIN list \ Conflicts(j, list) :
        absolute => \A k \in Conflicts(j, list) : i < k}

\* JobPolicy::apply for each of the entries, the last one for a condition wins
Apply(policy, list, entries) ==
    [c \in Conditions |->
        LET about == {i \in entries : list[i].condition = c}
            last == {i \in about : \A k \in about : k <= i}
        IN  IF last = {} THEN policy[c]
            ELSE list[CHOOSE i \in last : TRUE].action]

-----------------------------------------------------------------------------
\* Job::create_child
CreateChild(j, c) ==
    /\ j \in Made
    /\ c \notin Made
    /\ ~killed[j]
    /\ parent' = [parent EXCEPT ![c] = j]
    /\ inherited' = [inherited EXCEPT ![c] = HandDown(j)]
    /\ children' = [children EXCEPT ![j] = @ \cup {c}]
    /\ UNCHANGED <<own, processes, killed, seen, creating>>

\* Job::set_policy_basic; the entries applied before an error stay
SetPolicy(j, absolute, list) ==
    /\ j \in Made
    /\ IsEmpty(j)
    /\ own' = [own EXCEPT ![j] = Apply(@, list, Applied(j, absolute, list))]
    /\ UNCHANGED <<parent, inherited, children, processes, killed, seen, creating>>

\* Process::create: the effective policy goes into the new process
ReadPolicy(a, j, p) ==
    /\ j \in Made
    /\ creating[a] = None
    /\ seen[p] = None
    /\ seen' = [seen EXCEPT ![p] = Effective(j)]
    /\ creating' = [creating EXCEPT ![a] = <<j, p>>]
    /\ UNCHANGED <<parent, inherited, own, children, processes, killed>>

\* Process::create: Job::add_process, BAD_STATE if the job has been killed
AddProcess(a) ==
    /\ creating[a] # None
    /\ LET j == creating[a][1]
           p == creating[a][2]
       IN  processes' = IF killed[j] THEN processes
                        ELSE [processes EXCEPT ![j] = @ \cup {p}]
    /\ creating' = [creating EXCEPT ![a] = None]
    /\ UNCHANGED <<parent, inherited, own, children, killed, seen>>

\* Job::kill; what it does below the job is in TaskTree
Kill(j) ==
    /\ j \in Made
    /\ killed' = [killed EXCEPT ![j] = TRUE]
    /\ UNCHANGED <<parent, inherited, own, children, processes, seen, creating>>

\* Job::remove_child, once the child is killed and has nothing below it (a
\* child that is dropped leaves the same way, and then nobody can use it)
RemoveChild(j, c) ==
    /\ c \in children[j]
    /\ killed[c]
    /\ IsEmpty(c)
    /\ children' = [children EXCEPT ![j] = @ \ {c}]
    /\ UNCHANGED <<parent, inherited, own, processes, killed, seen, creating>>

\* Job::remove_process
RemoveProcess(j, p) ==
    /\ p \in processes[j]
    /\ processes' = [processes EXCEPT ![j] = @ \ {p}]
    /\ UNCHANGED <<parent, inherited, own, children, killed, seen, creating>>

-----------------------------------------------------------------------------
Init ==
    /\ parent = [j \in Jobs |-> None]
    /\ inherited = [j \in Jobs |-> NoPolicy]
    /\ own = [j \in Jobs |-> NoPolicy]
    /\ children = [j \in Jobs |-> {}]
    /\ processes = [j \in Jobs |-> {}]
    /\ killed = [j \in Jobs |-> FALSE]
    /\ seen = [p \in Procs |-> None]
    /\ creating = [a \in Callers |-> None]

Next ==
    \/ \E j \in Jobs :
         \/ \E c \in Jobs : CreateChild(j, c) \/ RemoveChild(j, c)
         \/ \E absolute \in BOOLEAN, list \in Requests : SetPolicy(j, absolute, list)
         \/ \E a \in Callers, p \in Procs : ReadPolicy(a, j, p)
         \/ Kill(j)
         \/ \E p \in Procs : RemoveProcess(j, p)
    \/ \E a \in Callers : AddProcess(a)

Spec == Init /\ [][Next]_vars

-----------------------------------------------------------------------------
PolicyType == [Conditions -> Policies \cup {None}]

\* Every field holds a value of its Rust type.
TypeOK ==
    /\ parent \in [Jobs -> Jobs \cup {None}]
    /\ inherited \in [Jobs -> PolicyType]
    /\ own \in [Jobs -> PolicyType]
    /\ children \in [Jobs -> SUBSET Jobs]
    /\ processes \in [Jobs -> SUBSET Procs]
    /\ killed \in [Jobs -> BOOLEAN]
    /\ seen \in [Procs -> PolicyType \cup {None}]
    /\ creating \in [Callers -> (Jobs \X Procs) \cup {None}]

\* "Should inherit parent's policy" (job.rs, tests): whatever a job's effective
\* policy decides, every job in its list decides the same way, and therefore
\* everything below; no sequence of settings, creations and removals changes it.
PolicyInherited ==
    \A j \in Jobs : \A c \in children[j] : \A k \in Conditions :
        Effective(j)[k] # None => Effective(c)[k] = Effective(j)[k]

\* A job never sets what its parent's policy decides, so no entry of its own
\* is ever hidden: merge and apply agree on who decides.
OwnDoesNotOverride ==
    \A j \in Jobs : \A k \in Conditions :
        own[j][k] # None => inherited[j][k] = None

\* "After this call succeeds any new child process ... will have the new
\* effective policy" (set_policy_basic): the processes of a job live under the
\* job's effective policy.
ProcessHasPolicy ==
    \A j \in Jobs : \A p \in processes[j] : seen[p] = Effective(j)
=============================================================================
