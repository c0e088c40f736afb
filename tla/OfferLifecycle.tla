--------------------------- MODULE OfferLifecycle ---------------------------
(***************************************************************************)
(* JobOfferWriteService: create_draft, extend, hire, decline and withdraw, *)
(* run by concurrent requests against one approvals engine, one letter     *)
(* sink and the outbox.                                                    *)
(*                                                                         *)
(* The pipeline around the offers is the abstract one of Vacancy.tla, which *)
(* the stage engine implements: the offer verbs read the applications and  *)
(* the counters without locking them, so what the engine commits between   *)
(* two statements of an offer verb is all they can notice of it.  A verb   *)
(* locks the offer row alone; its locking SELECT takes its snapshot of the *)
(* other rows before it waits.                                             *)
(***************************************************************************)
EXTENDS RequisitionRules, FiniteSets

CONSTANTS
  App,           \* ids of job applications, all of them inserted
  Offered,       \* those that offers are drafted for; the others only contend
  Req,           \* ids of job requisitions
  Seats,         \* headcount of each requisition
  ReqOf,         \* the requisition of each application
  Offer,         \* ids of job offers
  Tx,            \* requests in progress
  Free,          \* "no request", the holder of an unlocked offer row
  NoJob          \* the job of an idle request

ASSUME PipelineAssumption ==
  /\ IsFiniteSet(App)
  /\ Seats \in [Req -> Nat]
  /\ ReqOf \in [App -> Req]
ASSUME OfferAssumption ==
  /\ Offered \subseteq App /\ Offered # {}
  /\ Free \notin Tx

VARIABLES
  staged, barred,        \* applications in a hired stage; refused ones
  status,                \* job_requisitions.status
  state, appOf, linked,  \* job_offers rows; linked: approval_request_id set
  templated,             \* the offers created with a letter template
  wired,                 \* whether an approvals engine stands behind the port
  filed, verdict,        \* the engine: requests and their verdicts
  lettersWired,          \* whether a letter sink was wired at construction
  events,                \* recruitment.hired rows staged per offer
  letters, failed,       \* letters handed over per offer; failed deliveries
  lock,                  \* the holder of each offer row lock
  halfDone,              \* offers left half-made by a crash or an unwired port
  pc, job, answer        \* the requests

pipeVars   == <<staged, barred, status>>
offerVars  == <<state, appOf, linked, templated>>
engineVars == <<wired, filed, verdict>>
sinkVars   == <<lettersWired, events, letters, failed>>
txVars     == <<pc, job, answer>>
vars == <<pipeVars, offerVars, engineVars, sinkVars, lock, halfDone, txVars>>

(* The seats: applications in a hired stage that were not refused.         *)
Holders == [r \in Req |-> {a \in staged \ barred : ReqOf[a] = r}]

Pipeline == INSTANCE Vacancy WITH holders <- Holders

Openings(a) == OpeningsLeft(Seats[ReqOf[a]], Cardinality(Holders[ReqOf[a]]))

OfferStates == {"none", "draft", "extended", "accepted", "declined",
                "withdrawn", "deleted"}
Job == [offer: Offer, app: App, gone: BOOLEAN, open: BOOLEAN, room: BOOLEAN]
Steps == {"idle", "insert", "file", "stamp", "undo", "verdict", "snapshot",
          "extend", "send", "hire"}
Answers == {"none", "ok", "no_op", "approval_not_granted", "no_open_headcount",
            "application_refused", "application_not_hired", "not_extensible",
            "requisition_not_open", "letter_seam_unwired",
            "letter_delivery_failed", "internal_error"}

TypeOK ==
  /\ staged \subseteq App /\ barred \subseteq App
  /\ status \in [Req -> Statuses]
  /\ state \in [Offer -> OfferStates]
  /\ appOf \in [Offer -> App]
  /\ linked \subseteq Offer /\ templated \subseteq Offer /\ filed \subseteq Offer
  /\ wired \in BOOLEAN /\ lettersWired \in BOOLEAN
  /\ verdict \in [Offer -> {"pending", "approved", "rejected"}]
  /\ events \in [Offer -> Nat] /\ letters \in [Offer -> Nat]
  /\ failed \subseteq Offer /\ halfDone \subseteq Offer
  /\ lock \in [Offer -> Tx \cup {Free}]
  /\ pc \in [Tx -> Steps]
  /\ job \in [Tx -> Job \cup {NoJob}]
  /\ answer \in [Tx -> Answers]

Init ==
  /\ staged = {} /\ barred = {}
  /\ status = [r \in Req |-> "open"]
  /\ state = [o \in Offer |-> "none"]
  /\ appOf = [o \in Offer |-> CHOOSE a \in Offered : TRUE]
  /\ linked = {} /\ templated = {} /\ filed = {}
  /\ wired = FALSE /\ lettersWired \in BOOLEAN
  /\ verdict = [o \in Offer |-> "pending"]
  /\ events = [o \in Offer |-> 0] /\ letters = [o \in Offer |-> 0]
  /\ failed = {} /\ halfDone = {}
  /\ lock = [o \in Offer |-> Free]
  /\ pc = [t \in Tx |-> "idle"]
  /\ job = [t \in Tx |-> NoJob]
  /\ answer = [t \in Tx |-> "none"]

-----------------------------------------------------------------------------
(* The surroundings: the stage engine, the requisition's own verbs, and    *)
(* the approvals engine, whose verdict on a request is final.              *)

PipelineOnly == UNCHANGED <<status, offerVars, engineVars, sinkVars, lock,
                            halfDone, txVars>>

EnterHired(a) ==
  /\ staged' = staged \cup {a}
  /\ barred' = barred
  /\ Pipeline!TakeSeat(a, ReqOf[a])
  /\ PipelineOnly

LeaveHired(a) ==
  /\ staged' = staged \ {a}
  /\ barred' = barred
  /\ Pipeline!GiveBackSeat(a, ReqOf[a])
  /\ PipelineOnly

(* A refused application keeps the stage it was refused in.                *)
Refuse(a) ==
  /\ staged' = staged
  /\ barred' = barred \cup {a}
  /\ Pipeline!Bar(a)
  /\ PipelineOnly

MoveStatus(r, verb) ==
  /\ status[r] \in VerbFrom[verb]
  /\ status' = [status EXCEPT ![r] = VerbTo[verb]]
  /\ UNCHANGED <<staged, barred, offerVars, engineVars, sinkVars, lock,
                 halfDone, txVars>>

Decide(o, v) ==
  /\ o \in filed
  /\ verdict[o] = "pending"
  /\ verdict' = [verdict EXCEPT ![o] = v]
  /\ UNCHANGED <<pipeVars, offerVars, wired, filed, sinkVars, lock, halfDone,
                 txVars>>

(* The composing service puts an engine behind the port.                   *)
SetApprovals ==
  /\ wired' = TRUE
  /\ UNCHANGED <<pipeVars, offerVars, filed, verdict, sinkVars, lock, halfDone,
                 txVars>>

-----------------------------------------------------------------------------
(* Requests.                                                               *)

Lockable_Unlocked(o) == TRUE

Lockable(o) == lock[o] = Free

Goto(t, step) == pc' = [pc EXCEPT ![t] = step]

Begin(t, step, j) ==
  /\ pc[t] = "idle"
  /\ Goto(t, step)
  /\ job' = [job EXCEPT ![t] = j]
  /\ answer' = [answer EXCEPT ![t] = "none"]

Finish(t, ans) ==
  /\ Goto(t, "idle")
  /\ job' = [job EXCEPT ![t] = NoJob]
  /\ answer' = [answer EXCEPT ![t] = ans]
  /\ lock' = [o \in Offer |-> IF lock[o] = t THEN Free ELSE lock[o]]

Rollback(t, ans) ==
  /\ Finish(t, ans)
  /\ UNCHANGED <<pipeVars, offerVars, engineVars, sinkVars, halfDone>>

(* The process or its connection dies: an open transaction is rolled back, *)
(* what was committed stays.                                               *)
Crash(t) ==
  /\ pc[t] # "idle"
  /\ Finish(t, "internal_error")
  /\ halfDone' = IF pc[t] \in {"file", "stamp", "undo", "send"}
                  THEN halfDone \cup {job[t].offer} ELSE halfDone
  /\ UNCHANGED <<pipeVars, offerVars, engineVars, sinkVars>>

(* What an unlocked join sees of an application and its requisition.       *)
Seen(o, a) ==
  [offer |-> o, app |-> a, gone |-> a \in barred,
   open |-> status[ReqOf[a]] = "open",
   room |-> RequireOpening(Openings(a), a \in staged)]

-----------------------------------------------------------------------------
(* create_draft.                                                           *)

Unused(o) ==
  /\ state[o] = "none"
  /\ \A t \in Tx : pc[t] # "idle" => job[t].offer # o

StartDraft(t, o, a) ==
  /\ Unused(o)
  /\ \/ /\ a \in barred
        /\ pc[t] = "idle"
        /\ Rollback(t, "application_refused")
     \/ /\ a \notin barred
        /\ ~Seen(o, a).room
        /\ pc[t] = "idle"
        /\ Rollback(t, "no_open_headcount")
     \/ /\ a \notin barred
        /\ Seen(o, a).room
        /\ Begin(t, "insert", Seen(o, a))
        /\ UNCHANGED <<pipeVars, offerVars, engineVars, sinkVars, lock, halfDone>>

InsertDraft(t) ==
  /\ pc[t] = "insert"
  /\ state' = [state EXCEPT ![job[t].offer] = "draft"]
  /\ appOf' = [appOf EXCEPT ![job[t].offer] = job[t].app]
  /\ templated' \in {templated, templated \cup {job[t].offer}}
  /\ Goto(t, "file")
  /\ UNCHANGED <<pipeVars, linked, engineVars, sinkVars, lock, halfDone,
                 job, answer>>

(* The unwired port leaves the draft without a request behind it.          *)
FileUnwired(t) ==
  /\ pc[t] = "file"
  /\ ~wired
  /\ halfDone' = halfDone \cup {job[t].offer}
  /\ Finish(t, "ok")
  /\ UNCHANGED <<pipeVars, offerVars, engineVars, sinkVars>>

(* A wired port may fail before or after the engine recorded the request.  *)
FileOffer(t) ==
  /\ pc[t] = "file"
  /\ wired
  /\ \/ /\ filed' = filed \cup {job[t].offer}
        /\ Goto(t, "stamp")
     \/ /\ filed' \in {filed, filed \cup {job[t].offer}}
        /\ Goto(t, "undo")
  /\ UNCHANGED <<pipeVars, offerVars, wired, verdict, sinkVars, lock, halfDone,
                 job, answer>>

(* UPDATE and DELETE wait for the row; neither looks at its status.        *)
StampLink(t) ==
  /\ pc[t] = "stamp"
  /\ Lockable(job[t].offer)
  /\ linked' = linked \cup {job[t].offer}
  /\ Finish(t, "ok")
  /\ UNCHANGED <<pipeVars, state, appOf, templated, engineVars, sinkVars, halfDone>>

UndoDraft_LeavesRow(t) ==
  /\ pc[t] = "undo"
  /\ Lockable(job[t].offer)
  /\ Finish(t, "approval_not_granted")
  /\ UNCHANGED <<pipeVars, offerVars, engineVars, sinkVars, halfDone>>

UndoDraft(t) ==
  /\ pc[t] = "undo"
  /\ Lockable(job[t].offer)
  /\ state' = [state EXCEPT ![job[t].offer] = "deleted"]
  /\ Finish(t, "approval_not_granted")
  /\ UNCHANGED <<pipeVars, appOf, linked, templated, engineVars, sinkVars,
                 halfDone>>

-----------------------------------------------------------------------------
(* extend.                                                                 *)

Exists(o) == state[o] \notin {"none", "deleted"}

StartExtend(t, o) ==
  /\ Exists(o)
  /\ \/ /\ o \notin linked
        /\ pc[t] = "idle"
        /\ Rollback(t, "approval_not_granted")
     \/ /\ o \in linked
        /\ Begin(t, "verdict", Seen(o, appOf[o]))
        /\ UNCHANGED <<pipeVars, offerVars, engineVars, sinkVars, lock, halfDone>>

Granted_UnlessRejected(o) == wired /\ o \in filed /\ verdict[o] # "rejected"

Granted(o) == wired /\ o \in filed /\ verdict[o] = "approved"

AskVerdict(t) ==
  /\ pc[t] = "verdict"
  /\ \/ /\ ~Granted(job[t].offer)
        /\ Rollback(t, "approval_not_granted")
     \/ /\ Granted(job[t].offer)
        /\ Goto(t, "snapshot")
        /\ UNCHANGED <<pipeVars, offerVars, engineVars, sinkVars, lock,
                       halfDone, job, answer>>

(* The snapshot of the locking SELECT, taken before it waits.              *)
Snapshot_Stale(t) ==
  /\ pc[t] = "snapshot"
  /\ Goto(t, "extend")
  /\ UNCHANGED <<pipeVars, offerVars, engineVars, sinkVars, lock, halfDone, job, answer>>

Snapshot(t) ==
  /\ pc[t] = "snapshot"
  /\ job' = [job EXCEPT ![t] = Seen(job[t].offer, job[t].app)]
  /\ Goto(t, "extend")
  /\ UNCHANGED <<pipeVars, offerVars, engineVars, sinkVars, lock, halfDone, answer>>

(* What the status of the locked offer alone refuses.                      *)
StateRefusal_Resends(st) ==
  IF st \in {"draft", "extended"} THEN "none" ELSE "not_extensible"

StateRefusal(st) ==
  CASE st = "draft"    -> "none"
    [] st = "extended" -> "no_op"
    [] OTHER           -> "not_extensible"

LetterUnsendable(o) == o \in templated /\ ~lettersWired

(* The reasons to refuse, in the order the code looks at them.             *)
Refusal(j) ==
  IF StateRefusal(state[j.offer]) # "none" THEN StateRefusal(state[j.offer])
  ELSE IF j.gone    THEN "application_refused"
  ELSE IF ~j.open   THEN "requisition_not_open"
  ELSE IF ~j.room   THEN "no_open_headcount"
  ELSE IF LetterUnsendable(j.offer) THEN "letter_seam_unwired"
  ELSE "none"

ExtendRefused(t) ==
  /\ pc[t] = "extend"
  /\ Lockable(job[t].offer)
  /\ Refusal(job[t]) # "none"
  /\ Rollback(t, Refusal(job[t]))

(* The commit; the letter, if there is one, goes out after it.             *)
ExtendOffer(t) ==
  /\ pc[t] = "extend"
  /\ Lockable(job[t].offer)
  /\ Refusal(job[t]) = "none"
  /\ state' = [state EXCEPT ![job[t].offer] = "extended"]
  /\ \/ /\ job[t].offer \in templated
        /\ Goto(t, "send")
        /\ UNCHANGED <<job, answer, lock>>
     \/ /\ job[t].offer \notin templated
        /\ Finish(t, "ok")
  /\ UNCHANGED <<pipeVars, appOf, linked, templated, engineVars, sinkVars,
                 halfDone>>

SendLetter(t) ==
  /\ pc[t] = "send"
  /\ letters' = [letters EXCEPT ![job[t].offer] = @ + 1]
  /\ Finish(t, "ok")
  /\ UNCHANGED <<pipeVars, offerVars, engineVars, lettersWired, events, failed,
                 halfDone>>

(* A delivery that is reported as failed may have reached the candidate.   *)
SendFails_Swallowed(t) ==
  /\ pc[t] = "send"
  /\ letters' \in {letters, [letters EXCEPT ![job[t].offer] = @ + 1]}
  /\ Finish(t, "ok")
  /\ UNCHANGED <<pipeVars, offerVars, engineVars, lettersWired, events, failed,
                 halfDone>>

SendFails(t) ==
  /\ pc[t] = "send"
  /\ letters' \in {letters, [letters EXCEPT ![job[t].offer] = @ + 1]}
  /\ failed' = failed \cup {job[t].offer}
  /\ Finish(t, "letter_delivery_failed")
  /\ UNCHANGED <<pipeVars, offerVars, engineVars, lettersWired, events, halfDone>>

-----------------------------------------------------------------------------
(* hire: the offer row is locked, then the application is read unlocked.   *)

StartHire(t, o) ==
  /\ Exists(o)
  /\ Lockable(o)
  /\ \/ /\ state[o] = "accepted"
        /\ pc[t] = "idle"
        /\ Rollback(t, "no_op")
     \/ /\ state[o] \notin {"accepted", "extended"}
        /\ pc[t] = "idle"
        /\ Rollback(t, "not_extensible")
     \/ /\ state[o] = "extended"
        /\ appOf[o] \notin staged
        /\ pc[t] = "idle"
        /\ Rollback(t, "application_not_hired")
     \/ /\ state[o] = "extended"
        /\ appOf[o] \in staged
        /\ Begin(t, "hire", Seen(o, appOf[o]))
        /\ lock' = [lock EXCEPT ![o] = t]
        /\ UNCHANGED <<pipeVars, offerVars, engineVars, sinkVars, halfDone>>

(* The acceptance and the staged event commit together.                    *)
CommitHire_EventLost(t) ==
  /\ pc[t] = "hire"
  /\ state' = [state EXCEPT ![job[t].offer] = "accepted"]
  /\ events' \in {events, [events EXCEPT ![job[t].offer] = @ + 1]}
  /\ Finish(t, "ok")
  /\ UNCHANGED <<pipeVars, appOf, linked, templated, engineVars, lettersWired,
                 letters, failed, halfDone>>

CommitHire(t) ==
  /\ pc[t] = "hire"
  /\ state' = [state EXCEPT ![job[t].offer] = "accepted"]
  /\ events' = [events EXCEPT ![job[t].offer] = @ + 1]
  /\ Finish(t, "ok")
  /\ UNCHANGED <<pipeVars, appOf, linked, templated, engineVars, lettersWired,
                 letters, failed, halfDone>>

-----------------------------------------------------------------------------
(* decline and withdraw: a compare-and-set under the row lock.             *)

Cas(t, o, from, to) ==
  /\ pc[t] = "idle"
  /\ Exists(o)
  /\ Lockable(o)
  /\ \/ /\ state[o] \notin from
        /\ Rollback(t, "not_extensible")
     \/ /\ state[o] \in from
        /\ state' = [state EXCEPT ![o] = to]
        /\ Finish(t, "ok")
        /\ UNCHANGED <<pipeVars, appOf, linked, templated, engineVars, sinkVars,
                       halfDone>>

Decline(t, o) == Cas(t, o, {"extended"}, "declined")

Withdraw_FromAccepted(t, o) ==
  Cas(t, o, {"draft", "extended", "accepted"}, "withdrawn")

Withdraw(t, o) == Cas(t, o, {"draft", "extended"}, "withdrawn")

-----------------------------------------------------------------------------
Progress(t) ==
  \/ InsertDraft(t) \/ FileUnwired(t) \/ FileOffer(t) \/ StampLink(t)
  \/ UndoDraft(t) \/ AskVerdict(t) \/ Snapshot(t) \/ ExtendRefused(t)
  \/ ExtendOffer(t) \/ SendLetter(t) \/ SendFails(t) \/ CommitHire(t)

Next ==
  \/ \E t \in Tx, o \in Offer, a \in Offered : StartDraft(t, o, a)
  \/ \E t \in Tx, o \in Offer :
       StartExtend(t, o) \/ StartHire(t, o) \/ Decline(t, o) \/ Withdraw(t, o)
  \/ \E t \in Tx : Progress(t)
  \/ \E t \in Tx : Crash(t)
  \/ \E a \in App : EnterHired(a) \/ LeaveHired(a) \/ Refuse(a)
  \/ \E r \in Req, v \in LifecycleVerbs : MoveStatus(r, v)
  \/ \E o \in Offer, v \in {"approved", "rejected"} : Decide(o, v)
  \/ SetApprovals

Spec == Init /\ [][Next]_vars

-----------------------------------------------------------------------------
(* Properties.                                                             *)

(* An offer is accepted exactly when one recruitment.hired event is staged *)
(* for it, however hires of it race, crash or are repeated.                *)
AcceptedWithOneEvent ==
  \A o \in Offer : events[o] = IF state[o] = "accepted" THEN 1 ELSE 0

(* Nothing past draft but a withdrawal happens to an offer the approvals   *)
(* engine has not approved, not even to one half-made by a crash.          *)
ExtendedOnlyApproved ==
  \A o \in Offer : state[o] \in {"extended", "accepted", "declined"} =>
    o \in linked /\ o \in filed /\ verdict[o] = "approved"

(* Accepted, declined and withdrawn are final and extended never returns   *)
(* to draft; a deleted offer never comes back.  The one exception is the   *)
(* compensating DELETE, which takes a withdrawn draft with it.             *)
SettledOffersStay ==
  [][\A o \in Offer :
       /\ state[o] \in {"accepted", "declined", "deleted"} =>
            state'[o] = state[o]
       /\ state[o] = "withdrawn" => state'[o] \in {"withdrawn", "deleted"}
       /\ state[o] = "extended" =>
            state'[o] \in {"extended", "accepted", "declined", "withdrawn"}]_vars

(* An offer follows its application: while the application is refused, its *)
(* requisition not open, or no opening left for it, no extension of the    *)
(* offer gets under way, and while the application is in no hired stage no *)
(* hire of it does.  Only what was under way before, with a clear snapshot *)
(* or with the row locked, still commits against the changed pipeline.     *)
Clear(j) == ~j.gone /\ j.open /\ j.room
Extending(o) ==
  \/ state[o] = "extended"
  \/ \E t \in Tx : pc[t] = "extend" /\ job[t].offer = o /\ Clear(job[t])
Hiring(o) ==
  \/ state[o] = "accepted"
  \/ \E t \in Tx : pc[t] = "hire" /\ job[t].offer = o
OffersFollowTheirApplications ==
  [][\A o \in Offer :
       /\ ~Clear(Seen(o, appOf[o])) /\ Extending(o)' => Extending(o)
       /\ appOf[o] \notin staged /\ Hiring(o)' => Hiring(o)]_vars

(* However often an offer is extended, its letter goes out at most once,   *)
(* and only for an offer that was extended.                                *)
OneLetterAtMost ==
  \A o \in Offer :
    /\ letters[o] <= 1
    /\ letters[o] = 1 => state[o] \notin {"none", "draft", "deleted"}

(* A draft nobody is working on has its approval request linked, unless    *)
(* its create_draft died half-way or found the port unwired: the filing    *)
(* that fails takes the draft with it.                                     *)
DraftsAreFiled ==
  \A o \in Offer :
    state[o] = "draft" /\ o \notin halfDone /\ o \notin linked =>
      \E t \in Tx : pc[t] \in {"file", "stamp", "undo"} /\ job[t].offer = o

(* Nothing is silently unsent: an offer with a template is extended only   *)
(* with a sink to send it, and then has its letter out, or its failure was *)
(* reported, or its extend is about to send it.  Only a crash between the  *)
(* commit and the delivery loses a letter.                                 *)
NothingSilentlyUnsent ==
  \A o \in templated :
    state[o] = "extended" =>
      /\ lettersWired
      /\ \/ letters[o] > 0
         \/ o \in failed \cup halfDone
         \/ \E t \in Tx : pc[t] = "send" /\ job[t].offer = o

-----------------------------------------------------------------------------
(* What the documentation says and the code does not keep.                 *)

(* A failed delivery is "surfaced for a send-only retry": a caller who     *)
(* keeps asking to extend the offer, and whose requests get through every  *)
(* step they could take, gets the letter out in the end.                   *)
PatientSpec ==
  /\ Spec
  /\ \A t \in Tx :
       /\ WF_vars(Progress(t))
       /\ SF_vars(AskVerdict(t)) /\ SF_vars(Snapshot(t))
       /\ SF_vars(ExtendRefused(t)) /\ SF_vars(ExtendOffer(t))
       /\ SF_vars(SendLetter(t))
  /\ \A o \in Offer : SF_vars(\E t \in Tx : StartExtend(t, o))

FailedLettersAreResent ==
  \A o \in Offer : o \in failed ~> (letters[o] > 0 \/ state[o] # "extended")
=============================================================================
