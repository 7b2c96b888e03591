--------------------------- MODULE JobPolicyProofs ---------------------------
(* Theorems of JobPolicy for every tree of jobs and every set of conditions *)
(* and actions.                                                             *)
EXTENDS PolicyChapters, TLAPS

\* A job in a list has the owner of the list for parent, and is not the root.
LinksOK == \A j \in Jobs : \A c \in children[j] : parent[c] = j /\ c # RootJob

\* What a listed job inherited is still what its parent decides: the parent
\* cannot change its mind while it has a child.
CopyOK == \A j \in Jobs : \A c \in children[j] : inherited[c] = Effective(j)

\* A job nobody made yet is blank.
BlankOK == \A j \in Jobs \ Made : children[j] = {} /\ own[j] = NoPolicy

IInv == TypeOK /\ LinksOK /\ CopyOK /\ OwnDoesNotOverride /\ BlankOK

USE RootAssumption, NoneAssumption, RequestsAssumption

\* An entry is applied or left out; what results is a policy again.
LEMMA ApplyType ==
    ASSUME NEW policy \in PolicyType, NEW list \in Requests,
           NEW entries \in SUBSET DOMAIN list
    PROVE  Apply(policy, list, entries) \in PolicyType
<1>1. \A i \in DOMAIN list : list[i].action \in Policies
  <2>1. \A S : list \in Seq(S) => \A i \in DOMAIN list : list[i] \in S
    OBVIOUS
  <2>2. \A i \in DOMAIN list : list[i] \in [condition : Conditions, action : Policies]
    BY <2>1
  <2> QED
    BY <2>2
<1> QED
  BY <1>1 DEF Apply, PolicyType

\* Only the conditions of the applied entries change.
LEMMA ApplyOnly ==
    ASSUME NEW policy, NEW list, NEW entries, NEW k \in Conditions,
           Apply(policy, list, entries)[k] # policy[k]
    PROVE  \E i \in entries : list[i].condition = k
BY DEF Apply

LEMMA EffectiveType ==
    ASSUME TypeOK, NEW j \in Jobs
    PROVE  Effective(j) \in PolicyType
BY DEF TypeOK, PolicyType, Effective, Merge

LEMMA InitIInv == Init => IInv
BY DEF Init, IInv, TypeOK, PolicyType, NoPolicy, LinksOK, CopyOK,
       OwnDoesNotOverride, BlankOK

LEMMA CreateChildIInv ==
    ASSUME IInv, NEW j \in Jobs, NEW c \in Jobs, CreateChild(j, c)
    PROVE  IInv'
<1> USE DEF IInv, CreateChild, HandDown
<1>1. TypeOK'
  BY EffectiveType DEF TypeOK
<1>2. \A k \in Jobs : c \notin children[k]
  BY DEF LinksOK, Made, TypeOK
<1>3. LinksOK'
  BY <1>2 DEF LinksOK, TypeOK, Made
<1>5. \A k \in Jobs : k # c => Effective(k)' = Effective(k)
  BY DEF Effective, TypeOK
<1>6. c # j
  BY DEF Made
<1>7. CopyOK'
  <2> SUFFICES ASSUME NEW k \in Jobs, NEW d \in children'[k]
               PROVE  inherited'[d] = Effective(k)'
    BY DEF CopyOK
  <2>1. k # c
    <3>1. children[c] = {}
      BY DEF BlankOK
    <3> QED
      BY <1>6, <3>1 DEF TypeOK
  <2>2. CASE d = c
    BY <1>2, <1>5, <1>6, <2>2 DEF TypeOK
  <2>3. CASE d # c
    BY <1>5, <2>1, <2>3 DEF TypeOK, CopyOK
  <2> QED
    BY <2>2, <2>3
<1>8. OwnDoesNotOverride'
  <2>1. own[c] = NoPolicy
    BY DEF BlankOK
  <2> QED
    BY <2>1 DEF OwnDoesNotOverride, NoPolicy, TypeOK
<1>9. BlankOK'
  BY <1>6, NoneAssumption DEF BlankOK, Made, TypeOK
<1> QED
  BY <1>1, <1>3, <1>7, <1>8, <1>9

LEMMA SetPolicyIInv ==
    ASSUME IInv, NEW j \in Jobs, NEW absolute \in BOOLEAN,
           NEW list \in Requests, SetPolicy(j, absolute, list)
    PROVE  IInv'
<1> USE DEF IInv, SetPolicy
<1> DEFINE entries == Applied(j, absolute, list)
<1>0. entries \in SUBSET DOMAIN list
  BY DEF Applied
<1>1. TypeOK'
  <2>1. own[j] \in PolicyType
    BY DEF TypeOK
  <2>2. Apply(own[j], list, entries) \in PolicyType
    BY <1>0, <2>1, ApplyType
  <2> QED
    BY <2>2 DEF TypeOK
<1>2. LinksOK' /\ BlankOK'
  BY DEF LinksOK, BlankOK, Made, TypeOK
<1>3. CopyOK'
  <2>1. \A k \in Jobs : k # j => Effective(k)' = Effective(k)
    BY DEF Effective, TypeOK
  <2> QED
    BY <2>1 DEF CopyOK, IsEmpty
<1>4. OwnDoesNotOverride'
  <2> SUFFICES ASSUME NEW k \in Conditions, own'[j][k] # None
               PROVE  inherited[j][k] = None
    BY DEF OwnDoesNotOverride, TypeOK
  <2>1. own'[j] = Apply(own[j], list, entries)
    BY DEF TypeOK
  <2>2. CASE own'[j][k] = own[j][k]
    BY <2>2 DEF OwnDoesNotOverride
  <2>3. CASE own'[j][k] # own[j][k]
    <3>1. PICK i \in entries : list[i].condition = k
      BY <2>1, <2>3, ApplyOnly
    <3> QED
      BY <3>1 DEF Applied, Conflicts
  <2> QED
    BY <2>2, <2>3
<1> QED
  BY <1>1, <1>2, <1>3, <1>4

LEMMA NextIInv == IInv /\ [Next]_vars => IInv'
<1> SUFFICES ASSUME IInv, [Next]_vars PROVE IInv'
  OBVIOUS
<1>1. ASSUME UNCHANGED <<parent, inherited, own>>, TypeOK',
             \A j \in Jobs : children'[j] \subseteq children[j]
      PROVE  IInv'
  <2>1. \A j \in Jobs : Effective(j)' = Effective(j)
    BY <1>1 DEF Effective
  <2>2. Made' = Made
    BY <1>1 DEF Made
  <2> QED
    BY <1>1, <2>1, <2>2 DEF IInv, LinksOK, CopyOK, OwnDoesNotOverride, BlankOK
<1>2. ASSUME NEW j \in Jobs, NEW a \in Callers, NEW p \in Procs,
             ReadPolicy(a, j, p)
      PROVE  IInv'
  <2>1. TypeOK'
    BY <1>2, EffectiveType DEF ReadPolicy, IInv, TypeOK
  <2> QED
    BY <1>1, <1>2, <2>1 DEF ReadPolicy
<1>3. ASSUME NEW a \in Callers, AddProcess(a)
      PROVE  IInv'
  <2>1. creating[a] \in Jobs \X Procs
    BY <1>3 DEF AddProcess, IInv, TypeOK
  <2>2. TypeOK'
    BY <1>3, <2>1 DEF AddProcess, IInv, TypeOK
  <2> QED
    BY <1>1, <1>3, <2>2 DEF AddProcess
<1>4. ASSUME NEW j \in Jobs, Kill(j)
      PROVE  IInv'
  <2>1. TypeOK'
    BY <1>4 DEF Kill, IInv, TypeOK
  <2> QED
    BY <1>1, <1>4, <2>1 DEF Kill
<1>5. ASSUME NEW j \in Jobs, NEW c \in Jobs, RemoveChild(j, c)
      PROVE  IInv'
  <2>1. TypeOK' /\ \A k \in Jobs : children'[k] \subseteq children[k]
    BY <1>5 DEF RemoveChild, IInv, TypeOK
  <2> QED
    BY <1>1, <1>5, <2>1 DEF RemoveChild
<1>6. ASSUME NEW j \in Jobs, NEW p \in Procs, RemoveProcess(j, p)
      PROVE  IInv'
  <2>1. TypeOK'
    BY <1>6 DEF RemoveProcess, IInv, TypeOK
  <2> QED
    BY <1>1, <1>6, <2>1 DEF RemoveProcess
<1>7. CASE UNCHANGED vars
  <2>1. TypeOK'
    BY <1>7 DEF vars, IInv, TypeOK
  <2> QED
    BY <1>1, <1>7, <2>1 DEF vars
<1> QED
  BY <1>2, <1>3, <1>4, <1>5, <1>6, <1>7, CreateChildIInv, SetPolicyIInv
     DEF Next

\* Whatever a job's effective policy decides, each job in its list decides the
\* same way, and a job never sets what its parent decides (PolicyInherited,
\* OwnDoesNotOverride), for every tree and every sequence of settings,
\* creations, kills and removals (job.rs, set_policy_basic and create_child).
THEOREM PoliciesInherited == Spec => [](PolicyInherited /\ OwnDoesNotOverride)
<1>1. IInv => PolicyInherited /\ OwnDoesNotOverride
  <2> SUFFICES ASSUME IInv, NEW j \in Jobs, NEW c \in children[j],
                      NEW k \in Conditions, Effective(j)[k] # None
               PROVE  Effective(c)[k] = Effective(j)[k]
    BY DEF IInv, PolicyInherited
  <2>1. inherited[c][k] = Effective(j)[k]
    BY DEF IInv, CopyOK
  <2> QED
    BY <2>1 DEF Effective, Merge
<1> QED
  BY <1>1, InitIInv, NextIInv, PTL DEF Spec

-----------------------------------------------------------------------------
(* The earlier chapters.  Their policies are those of ch04-03, so what is  *)
(* proved above holds of each of them.                                     *)

\* The parts of PolicyChapters are all that Next does.
LEMMA PolicyParts == (Setting \/ Creating \/ Family) <=> Next
BY DEF Setting, Creating, Family, Next

\* The policies of ch02-02 are those of ch04-03.
THEOREM PoliciesOf_02_02 == Spec_02_02 <=> Spec
<1>1. Next_02_02 <=> Next
  BY PolicyParts DEF Next_02_02, Setting_02_02, Creating_02_02
<1> QED
  BY <1>1, PTL DEF Spec_02_02, Spec

\* The policies of ch02-03 are those of ch04-03.
THEOREM PoliciesOf_02_03 == Spec_02_03 <=> Spec
<1>1. Next_02_03 <=> Next
  BY PolicyParts DEF Next_02_03, Setting_02_03, Creating_02_03
<1> QED
  BY <1>1, PTL DEF Spec_02_03, Spec

\* The policies of ch03-02 are those of ch04-03.
THEOREM PoliciesOf_03_02 == Spec_03_02 <=> Spec
<1>1. Next_03_02 <=> Next
  BY PolicyParts DEF Next_03_02, Setting_03_02, Creating_03_02
<1> QED
  BY <1>1, PTL DEF Spec_03_02, Spec

\* The policies of ch03-04 are those of ch04-03.
THEOREM PoliciesOf_03_04 == Spec_03_04 <=> Spec
<1>1. Next_03_04 <=> Next
  BY PolicyParts DEF Next_03_04, Setting_03_04, Creating_03_04
<1> QED
  BY <1>1, PTL DEF Spec_03_04, Spec

\* The policies of ch04-01 are those of ch04-03.
THEOREM PoliciesOf_04_01 == Spec_04_01 <=> Spec
<1>1. Next_04_01 <=> Next
  BY PolicyParts DEF Next_04_01, Setting_04_01, Creating_04_01
<1> QED
  BY <1>1, PTL DEF Spec_04_01, Spec
=============================================================================
