------------------------ MODULE RequisitionLifecycle ------------------------
(***************************************************************************)
(* RequisitionLifecycleService: file_open, confirm_open, hold, resume,     *)
(* close and cancel, next to the generic create, update and delete that    *)
(* requisitions keep.                                                      *)
(*                                                                         *)
(* Every verb locks the requisition row.  file_open lets it go before it   *)
(* calls the approvals engine and writes the link in a second transaction; *)
(* confirm_open holds it while it asks for the verdict.  The body of a     *)
(* POST, PUT or PATCH may hold any approval request, one that was filed    *)
(* for something else included; only the status is kept from it.           *)
(***************************************************************************)
EXTENDS RequisitionRules, FiniteSets

CONSTANTS
  Req,       \* ids of job requisitions
  Request,   \* ids the approvals engine may give its requests
  Tx,        \* lifecycle verbs in progress
  Elsewhere, \* an offer: what else the engine has requests for
  None       \* no request, no lock holder, no job

ASSUME LifecycleAssumption ==
  /\ None \notin Request \cup Tx \cup Req \cup {Elsewhere}
  /\ Elsewhere \notin Req

VARIABLES
  created, deleted,        \* job_requisitions: rows there are, rows in the trash
  status, link,            \* and their columns; link: approval_request_id
  wired,                   \* whether an engine stands behind the port
  filedFor, verdict,       \* the engine: whom a request is for, its verdict
  byHand,                  \* history: rows whose link came from a body
  lock,                    \* the holder of each row lock
  pc, job, answer          \* the verbs in progress

rowVars    == <<created, deleted, status, link>>
engineVars == <<wired, filedFor, verdict>>
txVars     == <<pc, job, answer>>
vars == <<rowVars, engineVars, byHand, lock, txVars>>

Verdicts == {"pending", "approved", "rejected"}
Steps == {"idle", "file", "stamp", "ask", "open"}
Answers == {"none", "filed", "untracked", "ok", "already", "not_draft",
            "invalid_transition", "approval_not_filed", "approval_not_granted",
            "not_found", "seam_error", "internal_error"}
Job == [req: Req, request: Request \cup {None}, wired: BOOLEAN]

TypeOK ==
  /\ created \subseteq Req /\ deleted \subseteq Req
  /\ status \in [Req -> Statuses]
  /\ link \in [Req -> Request \cup {None}]
  /\ wired \in BOOLEAN
  /\ filedFor \in [Request -> Req \cup {Elsewhere, None}]
  /\ verdict \in [Request -> Verdicts]
  /\ byHand \subseteq Req
  /\ lock \in [Req -> Tx \cup {None}]
  /\ pc \in [Tx -> Steps]
  /\ job \in [Tx -> Job \cup {None}]
  /\ answer \in [Tx -> Answers]

Init ==
  /\ created = {} /\ deleted = {}
  /\ status = [r \in Req |-> "draft"]
  /\ link = [r \in Req |-> None]
  /\ wired = FALSE
  /\ filedFor = [q \in Request |-> None]
  /\ verdict = [q \in Request |-> "pending"]
  /\ byHand = {}
  /\ lock = [r \in Req |-> None]
  /\ pc = [t \in Tx |-> "idle"]
  /\ job = [t \in Tx |-> None]
  /\ answer = [t \in Tx |-> "none"]

-----------------------------------------------------------------------------
(* Requests.                                                               *)

Lockable_Unlocked(r) == TRUE

Lockable(r) == lock[r] = None

(* A verb goes on with the port it found when it started.                  *)
Begin(t, step, r, q) ==
  /\ pc' = [pc EXCEPT ![t] = step]
  /\ job' = [job EXCEPT ![t] = [req |-> r, request |-> q, wired |-> wired]]
  /\ answer' = [answer EXCEPT ![t] = "none"]

Finish(t, ans) ==
  /\ pc' = [pc EXCEPT ![t] = "idle"]
  /\ job' = [job EXCEPT ![t] = None]
  /\ answer' = [answer EXCEPT ![t] = ans]
  /\ lock' = [r \in Req |-> IF lock[r] = t THEN None ELSE lock[r]]

Refused(t, ans) ==
  /\ Finish(t, ans)
  /\ UNCHANGED <<rowVars, engineVars, byHand>>

(* The process or its connection dies.                                     *)
Crash(t) ==
  /\ pc[t] # "idle"
  /\ Refused(t, "internal_error")

-----------------------------------------------------------------------------
(* file_open: read under the lock, file without it, then write the link.   *)

Visible(r) == r \in created \ deleted

Draft(r) == Visible(r) /\ status[r] = "draft"

StartFile(t, r) ==
  /\ pc[t] = "idle"
  /\ Lockable(r)
  /\ \/ /\ ~Visible(r)
        /\ Refused(t, "not_found")
     \/ /\ Visible(r)
        /\ status[r] # "draft"
        /\ Refused(t, "not_draft")
     \/ /\ Draft(r)
        /\ Begin(t, "file", r, None)
        /\ UNCHANGED <<rowVars, engineVars, byHand, lock>>

FileUnwired(t) ==
  /\ pc[t] = "file"
  /\ ~wired
  /\ Refused(t, "untracked")

FileFails(t) ==
  /\ pc[t] = "file"
  /\ wired
  /\ Refused(t, "seam_error")

FileRequest(t, q) ==
  /\ pc[t] = "file"
  /\ wired
  /\ filedFor[q] = None
  /\ filedFor' = [filedFor EXCEPT ![q] = job[t].req]
  /\ job' = [job EXCEPT ![t].request = q]
  /\ pc' = [pc EXCEPT ![t] = "stamp"]
  /\ UNCHANGED <<rowVars, wired, verdict, byHand, lock, answer>>

(* The UPDATE looks at neither the status nor the link it replaces.        *)
StampLink(t) ==
  LET r == job[t].req IN
  /\ pc[t] = "stamp"
  /\ Lockable(r)
  /\ link' = [link EXCEPT ![r] = job[t].request]
  /\ byHand' = byHand \ {r}
  /\ Finish(t, "filed")
  /\ UNCHANGED <<created, deleted, status, engineVars>>

-----------------------------------------------------------------------------
(* confirm_open: the row stays locked while the engine is asked.           *)

MayOpenUnfiled_AnyPort(r) == link[r] = None

MayOpenUnfiled(r) == link[r] = None /\ ~wired

StartConfirm(t, r) ==
  /\ pc[t] = "idle"
  /\ Lockable(r)
  /\ \/ /\ ~Visible(r)
        /\ Refused(t, "not_found")
     \/ /\ Visible(r)
        /\ status[r] = "open"
        /\ Refused(t, "already")
     \/ /\ Visible(r)
        /\ status[r] \notin {"open", "draft"}
        /\ Refused(t, "not_draft")
     \/ /\ Draft(r)
        /\ link[r] = None
        /\ ~MayOpenUnfiled(r)
        /\ Refused(t, "approval_not_filed")
     \/ /\ Draft(r)
        /\ \/ MayOpenUnfiled(r) /\ Begin(t, "open", r, None)
           \/ link[r] # None /\ Begin(t, "ask", r, link[r])
        /\ lock' = [lock EXCEPT ![r] = t]
        /\ UNCHANGED <<rowVars, engineVars, byHand>>

(* Whomever the request was filed for.  An engine that fails to answer     *)
(* grants nothing, and an unwired port knows no request.                   *)
Granted(j) == j.wired /\ verdict[j.request] = "approved"

AskVerdict(t) ==
  /\ pc[t] = "ask"
  /\ Granted(job[t])
  /\ pc' = [pc EXCEPT ![t] = "open"]
  /\ UNCHANGED <<rowVars, engineVars, byHand, lock, job, answer>>

NotGranted(t) ==
  /\ pc[t] = "ask"
  /\ Refused(t, "approval_not_granted")

(* UPDATE ... WHERE status = 'draft'.                                      *)
OpenRow(t) ==
  LET r == job[t].req IN
  /\ pc[t] = "open"
  /\ status' = [status EXCEPT ![r] = IF @ = "draft" THEN "open" ELSE @]
  /\ Finish(t, "ok")
  /\ UNCHANGED <<created, deleted, link, engineVars, byHand>>

-----------------------------------------------------------------------------
(* hold, resume, close, cancel: one locked compare-and-set each.           *)

MoveStatus(t, r, verb) ==
  /\ pc[t] = "idle"
  /\ Lockable(r)
  /\ \/ /\ ~Visible(r)
        /\ Refused(t, "not_found")
     \/ /\ Visible(r)
        /\ status[r] = VerbTo[verb]
        /\ Refused(t, "already")
     \/ /\ Visible(r)
        /\ status[r] \notin VerbFrom[verb] \cup {VerbTo[verb]}
        /\ Refused(t, "invalid_transition")
     \/ /\ Visible(r)
        /\ status[r] \in VerbFrom[verb]
        /\ status' = [status EXCEPT ![r] = VerbTo[verb]]
        /\ Finish(t, "ok")
        /\ UNCHANGED <<created, deleted, link, engineVars, byHand>>

-----------------------------------------------------------------------------
(* The generic surface, the engine and the composing service's wiring.     *)

(* POST: a draft, with the request its body holds, if any.                 *)
Create(r, q) ==
  /\ r \notin created
  /\ created' = created \cup {r}
  /\ link' = [link EXCEPT ![r] = q]
  /\ byHand' = byHand \cup {r}
  /\ UNCHANGED <<deleted, status, engineVars, lock, txVars>>

(* PUT and PATCH store the row that they read, with what the body changes  *)
(* and the status kept: the link is the body's, or one read earlier.       *)
Update(r, q) ==
  /\ r \in created
  /\ Lockable(r)
  /\ link' = [link EXCEPT ![r] = q]
  /\ byHand' = byHand \cup {r}
  /\ UNCHANGED <<created, deleted, status, engineVars, lock, txVars>>

(* A row that is purged for good is to every verb one that stays deleted.  *)
SoftDelete(r) ==
  /\ r \in created
  /\ Lockable(r)
  /\ deleted' = deleted \cup {r}
  /\ UNCHANGED <<created, status, link, engineVars, byHand, lock, txVars>>

Restore(r) ==
  /\ Lockable(r)
  /\ deleted' = deleted \ {r}
  /\ UNCHANGED <<created, status, link, engineVars, byHand, lock, txVars>>

(* An offer is filed with the same engine.                                 *)
FileElsewhere(q) ==
  /\ filedFor[q] = None
  /\ filedFor' = [filedFor EXCEPT ![q] = Elsewhere]
  /\ UNCHANGED <<rowVars, wired, verdict, byHand, lock, txVars>>

Decide(q, v) ==
  /\ filedFor[q] # None
  /\ verdict[q] = "pending"
  /\ verdict' = [verdict EXCEPT ![q] = v]
  /\ UNCHANGED <<rowVars, wired, filedFor, byHand, lock, txVars>>

SetApprovals ==
  /\ wired' = TRUE
  /\ UNCHANGED <<rowVars, filedFor, verdict, byHand, lock, txVars>>

-----------------------------------------------------------------------------
Progress(t) ==
  \/ FileUnwired(t) \/ FileFails(t) \/ StampLink(t)
  \/ \E q \in Request : FileRequest(t, q)
  \/ AskVerdict(t) \/ NotGranted(t) \/ OpenRow(t)

Next ==
  \/ \E t \in Tx, r \in Req : StartFile(t, r) \/ StartConfirm(t, r)
  \/ \E t \in Tx, r \in Req, v \in LifecycleVerbs : MoveStatus(t, r, v)
  \/ \E t \in Tx : Progress(t) \/ Crash(t)
  \/ \E r \in Req, q \in Request \cup {None} : Create(r, q) \/ Update(r, q)
  \/ \E r \in Req : SoftDelete(r) \/ Restore(r)
  \/ \E q \in Request : FileElsewhere(q)
  \/ \E q \in Request, v \in {"approved", "rejected"} : Decide(q, v)
  \/ SetApprovals

Spec == Init /\ [][Next]_vars

-----------------------------------------------------------------------------
(* Properties.                                                             *)

(* A draft opens only while it links a request that the engine has         *)
(* approved, even if the link is written, or a filing stamped, while       *)
(* confirm_open is asking.  What the verbs alone link is the requisition's *)
(* own request: two filings may race, or one be lost to a crash, but       *)
(* another's approval opens it only if a generic write brought the link.   *)
(* Without a link it opens only by a confirm_open that found the port      *)
(* unwired.                                                                *)
OpenedOnlyOnApproval ==
  [][\A r \in Req : status[r] = "draft" /\ status'[r] = "open" =>
       \/ /\ link[r] # None /\ verdict[link[r]] = "approved"
          /\ filedFor[link[r]] = r \/ r \in byHand
       \/ /\ link[r] = None
          /\ \E t \in Tx : lock[r] = t /\ ~job[t].wired]_vars

(* closed and cancelled are final, and an opened requisition never goes    *)
(* back to draft, whatever a confirm_open read before the row moved.       *)
SettledStatusStays ==
  [][\A r \in Req :
       /\ status[r] \in {"closed", "cancelled"} => status'[r] = status[r]
       /\ status[r] # "draft" => status'[r] # "draft"]_vars

(* No verb moves a requisition that is deleted, even when the deletion     *)
(* comes while the verb is asking the engine.                              *)
DeletedStandStill ==
  [][\A r \in deleted : status'[r] = status[r]]_vars

(* The promise of ApprovedOpening.tla, where the verdict is asked and the  *)
(* row opened in one step, without locks, filings or verbs in progress:    *)
(* asking the engine in a step of its own lets nothing more happen,        *)
(* whatever generic writes, deletions and status verbs come meanwhile.  An *)
(* unwired confirm_open opens its draft even if an engine is wired         *)
(* meanwhile.                                                              *)
Promise == INSTANCE ApprovedOpening WITH
  approved <- {q \in Request : verdict[q] = "approved"},
  direct   <- ~wired \/ \E t \in Tx : pc[t] = "open" /\ job[t].request = None
                                       /\ ~job[t].wired

KeepsOpeningPromise == Promise!Spec
=============================================================================
