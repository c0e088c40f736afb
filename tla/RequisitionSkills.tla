------------------------- MODULE RequisitionSkills -------------------------
(***************************************************************************)
(* RequisitionSkillWriteService::set_skills: the skills a requisition asks *)
(* for are replaced wholesale, under the lock of the requisition row.  The *)
(* DELETE takes away the lines that are committed when it runs, the new    *)
(* ones become visible at COMMIT.  No index keeps two lists apart: the     *)
(* lock alone does.                                                        *)
(***************************************************************************)
EXTENDS RequisitionRules

CONSTANTS
  Req,     \* ids of job requisitions
  Skill,   \* ids of skills, defined by the learning module
  Level,   \* the proficiency scale
  Tx,      \* requests in progress
  None     \* no request, no job

ASSUME SkillAssumption == None \notin Tx

VARIABLES
  status,           \* job_requisitions.status
  skills, asked,    \* the committed lines; the list of the last request
  known,            \* the skills learning has at this moment
  lock, pc, job, answer

txVars == <<lock, pc, job, answer>>
vars   == <<status, skills, asked, known, txVars>>

Line == [skill: Skill, level: Level]
Job == [req: Req, list: SUBSET Line, unchecked: SUBSET Line, doomed: SUBSET Line]

TypeOK ==
  /\ status \in [Req -> Statuses]
  /\ skills \in [Req -> SUBSET Line] /\ asked \in [Req -> SUBSET Line]
  /\ known \subseteq Skill
  /\ lock \in [Req -> Tx \cup {None}]
  /\ pc \in [Tx -> {"idle", "check", "insert"}]
  /\ job \in [Tx -> Job \cup {None}]
  /\ answer \in [Tx -> {"none", "ok", "requisition_not_editable",
                        "unknown_skill", "internal_error"}]

Init ==
  /\ status = [r \in Req |-> "draft"]
  /\ skills = [r \in Req |-> {}] /\ asked = [r \in Req |-> {}]
  /\ known = Skill
  /\ lock = [r \in Req |-> None]
  /\ pc = [t \in Tx |-> "idle"]
  /\ job = [t \in Tx |-> None]
  /\ answer = [t \in Tx |-> "none"]

Goto(t, step) == pc' = [pc EXCEPT ![t] = step]

Finish(t, ans) ==
  /\ Goto(t, "idle")
  /\ job' = [job EXCEPT ![t] = None]
  /\ answer' = [answer EXCEPT ![t] = ans]
  /\ lock' = [r \in Req |-> IF lock[r] = t THEN None ELSE lock[r]]

Rollback(t, ans) ==
  /\ Finish(t, ans)
  /\ UNCHANGED <<status, skills, asked, known>>

(* The connection is lost, or a line names no level of the scale.          *)
Abort(t) == pc[t] # "idle" /\ Rollback(t, "internal_error")

-----------------------------------------------------------------------------
Editable_NotCancelled(r) == status[r] # "cancelled"

Editable(r) == status[r] \in {"draft", "open"}

Lockable_Unlocked(r) == TRUE

Lockable(r) == lock[r] = None

(* SELECT status ... FOR UPDATE.                                           *)
StartSet(t, r, list) ==
  /\ pc[t] = "idle"
  /\ Lockable(r)
  /\ \/ /\ ~Editable(r)
        /\ Rollback(t, "requisition_not_editable")
     \/ /\ Editable(r)
        /\ Goto(t, "check")
        /\ job' = [job EXCEPT ![t] = [req |-> r, list |-> list,
                                      unchecked |-> list, doomed |-> {}]]
        /\ answer' = [answer EXCEPT ![t] = "none"]
        /\ lock' = [lock EXCEPT ![r] = t]
        /\ UNCHANGED <<status, skills, asked, known>>

(* One probe per line, each of them a statement of its own.                *)
CheckLine(t) ==
  /\ pc[t] = "check"
  /\ \E line \in job[t].unchecked :
       \/ /\ line.skill \notin known
          /\ Rollback(t, "unknown_skill")
       \/ /\ line.skill \in known
          /\ job' = [job EXCEPT ![t].unchecked = @ \ {line}]
          /\ UNCHANGED <<status, skills, asked, known, lock, pc, answer>>

DeleteLines(t) ==
  /\ pc[t] = "check"
  /\ job[t].unchecked = {}
  /\ job' = [job EXCEPT ![t].doomed = skills[job[t].req]]
  /\ Goto(t, "insert")
  /\ UNCHANGED <<status, skills, asked, known, lock, answer>>

(* The INSERTs and the COMMIT.                                             *)
InsertLines(t) ==
  /\ pc[t] = "insert"
  /\ skills' = [skills EXCEPT ![job[t].req] = (@ \ job[t].doomed) \cup job[t].list]
  /\ asked' = [asked EXCEPT ![job[t].req] = job[t].list]
  /\ Finish(t, "ok")
  /\ UNCHANGED <<status, known>>

-----------------------------------------------------------------------------
(* The lifecycle verbs of the requisition (RequisitionLifecycle has all    *)
(* their guards; here any draft may be approved), and the learning module. *)

SetStatus(r, to) ==
  /\ lock[r] = None
  /\ status' = [status EXCEPT ![r] = to]
  /\ UNCHANGED <<skills, asked, known, txVars>>

MoveStatus(r, verb) == status[r] \in VerbFrom[verb] /\ SetStatus(r, VerbTo[verb])

ConfirmOpen(r) == status[r] = "draft" /\ SetStatus(r, "open")

DropSkill(s) ==
  /\ known' = known \ {s}
  /\ UNCHANGED <<status, skills, asked, txVars>>

Next ==
  \/ \E t \in Tx, r \in Req, list \in SUBSET Line : StartSet(t, r, list)
  \/ \E t \in Tx : CheckLine(t) \/ DeleteLines(t) \/ InsertLines(t) \/ Abort(t)
  \/ \E r \in Req : ConfirmOpen(r) \/ \E v \in LifecycleVerbs : MoveStatus(r, v)
  \/ \E s \in Skill : DropSkill(s)

Spec == Init /\ [][Next]_vars

-----------------------------------------------------------------------------
(* Properties.                                                             *)

(* "One verb, one consistent list": the lines of a requisition are exactly *)
(* those of the last request that was answered ok, never a mix of two that *)
(* ran at the same time.                                                   *)
OneConsistentList == skills = asked

(* "A requisition that is already closed/cancelled is history, and its     *)
(* requirements must not drift": nothing changes them then, not even a     *)
(* request that found it editable and was still checking its skills.       *)
RequirementsFrozen ==
  [][\A r \in Req :
       status[r] \in {"closed", "cancelled"} => skills'[r] = skills[r]]_vars
=============================================================================
