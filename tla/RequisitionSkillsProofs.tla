---------------------- MODULE RequisitionSkillsProofs -----------------------
(***************************************************************************)
(* Proofs about set_skills, for any number of requisitions, skills, levels *)
(* and requests.                                                           *)
(***************************************************************************)
EXTENDS RequisitionSkills, TLAPS

JobsTyped == \A t \in Tx : pc[t] # "idle" => job[t] \in Job

(* A request in progress holds the row it found editable, so that the row  *)
(* stays editable and the lines it is about to replace stay the lines.     *)
HoldersKnow ==
  \A t \in Tx :
    /\ pc[t] # "idle" => lock[job[t].req] = t /\ Editable(job[t].req)
    /\ pc[t] = "insert" => job[t].doomed = skills[job[t].req]

IInv == TypeOK /\ JobsTyped /\ HoldersKnow /\ OneConsistentList

-----------------------------------------------------------------------------
(* The end of a request: nothing it knew or held is left, and the others   *)
(* keep what they hold.                                                    *)
LEMMA FinishTx ==
  ASSUME TypeOK, NEW t \in Tx, NEW ans, Finish(t, ans),
         ans \in {"none", "ok", "requisition_not_editable", "unknown_skill",
                  "internal_error"}
  PROVE  /\ pc' \in [Tx -> {"idle", "check", "insert"}]
         /\ job' \in [Tx -> Job \cup {None}]
         /\ answer' \in [Tx -> {"none", "ok", "requisition_not_editable",
                                "unknown_skill", "internal_error"}]
         /\ lock' \in [Req -> Tx \cup {None}]
         /\ pc'[t] = "idle"
         /\ \A u \in Tx : u # t => pc'[u] = pc[u] /\ job'[u] = job[u]
         /\ \A r \in Req, u \in Tx : u # t /\ lock[r] = u => lock'[r] = u
BY DEF Finish, Goto, TypeOK

LEMMA RollbackKeeps ==
  ASSUME IInv, NEW t \in Tx, NEW ans, Rollback(t, ans),
         ans \in {"none", "ok", "requisition_not_editable", "unknown_skill",
                  "internal_error"}
  PROVE  IInv'
<1> USE DEF IInv
<1>1. Finish(t, ans) /\ UNCHANGED <<status, skills, asked, known>>
  BY DEF Rollback
<1>2. TypeOK'
  BY <1>1, FinishTx DEF TypeOK
<1>3. JobsTyped' /\ HoldersKnow'
  BY <1>1, FinishTx DEF JobsTyped, HoldersKnow, Editable, Job
<1> QED
  BY <1>1, <1>2, <1>3 DEF OneConsistentList

LEMMA StartSetKeeps ==
  ASSUME IInv, NEW t \in Tx, NEW r \in Req, NEW list \in SUBSET Line,
         StartSet(t, r, list)
  PROVE  IInv'
<1> USE DEF IInv
<1>1. CASE Rollback(t, "requisition_not_editable")
  BY <1>1, RollbackKeeps
<1>2. CASE /\ Editable(r) /\ Goto(t, "check")
           /\ job' = [job EXCEPT ![t] = [req |-> r, list |-> list,
                                         unchecked |-> list, doomed |-> {}]]
           /\ answer' = [answer EXCEPT ![t] = "none"]
           /\ lock' = [lock EXCEPT ![r] = t]
           /\ UNCHANGED <<status, skills, asked, known>>
  <2>1. pc[t] = "idle" /\ lock[r] = None
    BY DEF StartSet, Lockable
  <2>2. /\ job'[t] \in Job /\ job'[t].req = r
        /\ pc'[t] = "check" /\ lock'[r] = t
        /\ \A u \in Tx : u # t => pc'[u] = pc[u] /\ job'[u] = job[u]
        /\ \A p \in Req : p # r => lock'[p] = lock[p]
    BY <1>2 DEF Goto, TypeOK, Job
  <2>3. TypeOK'
    <3>1. /\ pc' \in [Tx -> {"idle", "check", "insert"}]
          /\ lock' \in [Req -> Tx \cup {None}]
      BY <1>2 DEF Goto, TypeOK
    <3>2. job' \in [Tx -> Job \cup {None}]
      BY <1>2, <2>2 DEF TypeOK
    <3>3. answer' \in [Tx -> {"none", "ok", "requisition_not_editable",
                              "unknown_skill", "internal_error"}]
      BY <1>2 DEF TypeOK
    <3> QED
      BY <1>2, <3>1, <3>2, <3>3 DEF TypeOK
  <2>4. JobsTyped'
    BY <2>2 DEF JobsTyped
  <2>5. HoldersKnow'
    BY <1>2, <2>1, <2>2, SkillAssumption DEF HoldersKnow, JobsTyped, Job, Editable
  <2> QED
    BY <1>2, <2>3, <2>4, <2>5 DEF OneConsistentList
<1> QED
  BY <1>1, <1>2 DEF StartSet

LEMMA CheckLineKeeps ==
  ASSUME IInv, NEW t \in Tx, CheckLine(t)
  PROVE  IInv'
<1> USE DEF IInv
<1>1. CASE Rollback(t, "unknown_skill")
  BY <1>1, RollbackKeeps
<1>2. ASSUME NEW line \in job[t].unchecked,
             job' = [job EXCEPT ![t].unchecked = @ \ {line}],
             UNCHANGED <<status, skills, asked, known, lock, pc, answer>>
      PROVE  IInv'
  <2>1. pc[t] = "check" /\ job[t] \in Job
    BY DEF CheckLine, JobsTyped
  <2>2. /\ job'[t] \in Job /\ job'[t].req = job[t].req
        /\ \A u \in Tx : u # t => job'[u] = job[u]
        /\ job' \in [Tx -> Job \cup {None}]
    BY <1>2, <2>1 DEF TypeOK, Job
  <2>3. TypeOK' /\ OneConsistentList'
    BY <1>2, <2>2 DEF TypeOK, OneConsistentList
  <2>4. JobsTyped'
    BY <1>2, <2>2 DEF JobsTyped
  <2>5. HoldersKnow'
    BY <1>2, <2>1, <2>2 DEF HoldersKnow, Editable
  <2> QED
    BY <2>3, <2>4, <2>5
<1> QED
  BY <1>1, <1>2 DEF CheckLine

LEMMA DeleteLinesKeeps ==
  ASSUME IInv, NEW t \in Tx, DeleteLines(t)
  PROVE  IInv'
<1> USE DEF IInv
<1>1. /\ pc[t] = "check" /\ job[t] \in Job
      /\ UNCHANGED <<status, skills, asked, known, lock, answer>>
  BY DEF DeleteLines, JobsTyped
<1>2. /\ job'[t] \in Job /\ job'[t].req = job[t].req
      /\ job'[t].doomed = skills[job[t].req]
      /\ \A u \in Tx : u # t => job'[u] = job[u] /\ pc'[u] = pc[u]
      /\ job' \in [Tx -> Job \cup {None}]
      /\ pc' \in [Tx -> {"idle", "check", "insert"}]
  BY <1>1 DEF DeleteLines, Goto, TypeOK, Job
<1>3. TypeOK' /\ JobsTyped'
  BY <1>1, <1>2 DEF TypeOK, JobsTyped
<1>4. HoldersKnow' /\ OneConsistentList'
  BY <1>1, <1>2 DEF HoldersKnow, OneConsistentList, Editable
<1> QED
  BY <1>3, <1>4

LEMMA InsertLinesKeeps ==
  ASSUME IInv, NEW t \in Tx, InsertLines(t)
  PROVE  IInv'
<1> USE DEF IInv
<1>1. /\ pc[t] = "insert" /\ job[t] \in Job /\ Finish(t, "ok")
      /\ UNCHANGED <<status, known>>
      /\ job[t].doomed = skills[job[t].req] /\ lock[job[t].req] = t
  BY DEF InsertLines, JobsTyped, HoldersKnow
<1>2. /\ skills' = [skills EXCEPT ![job[t].req] = job[t].list]
      /\ asked' = [asked EXCEPT ![job[t].req] = job[t].list]
  BY <1>1 DEF InsertLines, TypeOK, Job
<1>3. TypeOK'
  BY <1>1, <1>2, FinishTx DEF TypeOK, Job
<1>4. JobsTyped'
  BY <1>1, FinishTx DEF JobsTyped
<1>5. \A u \in Tx : u # t /\ pc[u] # "idle" => job[u].req # job[t].req
  BY <1>1 DEF HoldersKnow
<1>6. HoldersKnow'
  BY <1>1, <1>2, <1>5, FinishTx DEF HoldersKnow, Editable, TypeOK, JobsTyped, Job
<1>7. OneConsistentList'
  BY <1>2 DEF OneConsistentList
<1> QED
  BY <1>3, <1>4, <1>6, <1>7

LEMMA SurroundingsKeep ==
  ASSUME IInv,
         \/ \E r \in Req : ConfirmOpen(r) \/ \E v \in LifecycleVerbs : MoveStatus(r, v)
         \/ \E s \in Skill : DropSkill(s)
         \/ UNCHANGED vars
  PROVE  IInv'
<1> USE DEF IInv
<1>1. ASSUME NEW r \in Req, NEW to \in Statuses, SetStatus(r, to)
      PROVE  IInv'
  <2>1. /\ UNCHANGED <<skills, asked, known, lock, pc, job, answer>>
        /\ lock[r] = None
        /\ \A p \in Req : p # r => status'[p] = status[p]
        /\ status' \in [Req -> Statuses]
    BY <1>1 DEF SetStatus, txVars, TypeOK
  <2>2. HoldersKnow'
    BY <2>1, SkillAssumption DEF HoldersKnow, Editable, JobsTyped, Job
  <2> QED
    BY <2>1, <2>2 DEF TypeOK, JobsTyped, OneConsistentList
<1>2. ASSUME NEW r \in Req, ConfirmOpen(r)
      PROVE  IInv'
  BY <1>1, <1>2 DEF ConfirmOpen, Statuses
<1>3. ASSUME NEW r \in Req, NEW v \in LifecycleVerbs, MoveStatus(r, v)
      PROVE  IInv'
  BY <1>1, <1>3 DEF MoveStatus, VerbTo, LifecycleVerbs, Statuses
<1>4. CASE (\E s \in Skill : DropSkill(s)) \/ UNCHANGED vars
  BY <1>4 DEF DropSkill, vars, txVars, TypeOK, JobsTyped, HoldersKnow, Editable,
              OneConsistentList
<1> QED
  BY <1>2, <1>3, <1>4

LEMMA StepKeeps ==
  ASSUME IInv, [Next]_vars
  PROVE  IInv'
BY StartSetKeeps, CheckLineKeeps, DeleteLinesKeeps, InsertLinesKeeps,
   RollbackKeeps, SurroundingsKeep DEF Next, Abort

-----------------------------------------------------------------------------
(* The invariant holds in every reachable state.                           *)
THEOREM SkillsInvariant == Spec => []IInv
<1>1. Init => IInv
  BY DEF Init, IInv, TypeOK, Statuses, JobsTyped, HoldersKnow, OneConsistentList
<1>2. IInv /\ [Next]_vars => IInv'
  BY StepKeeps
<1> QED
  BY <1>1, <1>2, PTL DEF Spec

(* The lines are those of the last request that was answered ok.           *)
THEOREM ConsistentLists == Spec => []OneConsistentList
BY SkillsInvariant, PTL DEF IInv

(* The requirements of a closed or cancelled requisition do not drift.     *)
THEOREM FrozenRequirements == Spec => RequirementsFrozen
<1>1. ASSUME IInv, [Next]_vars, NEW r \in Req, status[r] \in {"closed", "cancelled"}
      PROVE  skills'[r] = skills[r]
  <2> USE DEF IInv
  <2>1. ASSUME NEW t \in Tx, InsertLines(t)
        PROVE  skills'[r] = skills[r]
    <3>1. job[t].req # r
      BY <1>1, <2>1 DEF InsertLines, HoldersKnow, Editable
    <3> QED
      BY <1>1, <2>1, <3>1 DEF InsertLines, TypeOK
  <2>2. CASE skills' = skills
    BY <2>2
  <2>3. (\E t \in Tx : InsertLines(t)) \/ skills' = skills
    BY <1>1 DEF Next, StartSet, CheckLine, DeleteLines, Abort, Rollback, ConfirmOpen,
                MoveStatus, SetStatus, DropSkill, vars
  <2> QED
    BY <2>1, <2>2, <2>3
<1>2. IInv /\ [Next]_vars =>
        [\A r \in Req :
           status[r] \in {"closed", "cancelled"} => skills'[r] = skills[r]]_vars
  BY <1>1
<1> QED
  BY <1>2, SkillsInvariant, PTL DEF Spec, RequirementsFrozen
=============================================================================
