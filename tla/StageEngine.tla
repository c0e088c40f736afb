---------------------------- MODULE StageEngine ----------------------------
(***************************************************************************)
(* The stage engine: JobApplicationWriteService's create_application,      *)
(* move_stage and refuse, run by concurrent database transactions.         *)
(*                                                                         *)
(* Each request is a READ COMMITTED transaction of PostgreSQL.  A locking  *)
(* SELECT takes its statement snapshot first, then waits for the rows it   *)
(* locks, in the order it names them (application, then requisition), and  *)
(* re-checks its join against the newest versions of the rows it locked.   *)
(* The UPDATEs that follow become visible to others at COMMIT only, so the *)
(* updates of a transaction and its commit are one step.  A connection may *)
(* be lost at any earlier point, which rolls the transaction back.         *)
(***************************************************************************)
EXTENDS RequisitionRules, FiniteSets

CONSTANTS
  App,          \* ids of job applications
  Req,          \* ids of job requisitions
  Stage,        \* the configured recruitment stages
  Entry,        \* the stage with the lowest sequence
  HiredStages,  \* the stages flagged is_hired at the start
  Seats,        \* headcount of each requisition at the start
  Tx,           \* database connections serving the stage verbs
  Free,         \* "no transaction", the holder of an unlocked row
  NoJob         \* the job of an idle connection

ASSUME StageAssumption ==
  /\ Entry \in Stage
  /\ HiredStages \subseteq Stage
ASSUME RequisitionAssumption ==
  /\ Req # {}
  /\ Seats \in [Req -> Nat]
ASSUME IdAssumption ==
  /\ IsFiniteSet(App)
  /\ App \cap Req = {}
  /\ Free \notin Tx

VARIABLES
  status, headcount, filled,               \* job_requisitions rows
  apps, reqOf, stageOf, refused, closed,   \* job_applications rows
  hired,                                   \* stages flagged is_hired
  lock,                                    \* the holder of each row lock
  pc, job, answer                          \* the transactions

reqVars == <<status, headcount, filled>>
appVars == <<apps, reqOf, stageOf, refused, closed>>
txVars  == <<pc, job, answer>>
vars    == <<reqVars, appVars, hired, lock, txVars>>

Row == App \cup Req

(* What a transaction knows: its arguments, the stage, flags and counters  *)
(* it last read, and whether the locked row came back and was refused.     *)
Job == [verb: {"create", "move", "refuse"}, app: App, req: Req, to: Stage,
        seen: Stage, curHired: BOOLEAN, tgtHired: BOOLEAN,
        found: BOOLEAN, gone: BOOLEAN, openings: Int]

Steps == {"idle", "lock1", "lock2", "decide", "insert"}

Answers == {"none", "ok", "no_op", "already_refused", "no_open_headcount",
            "stage_not_found", "application_not_found", "internal_error"}

TypeOK ==
  /\ status \in [Req -> Statuses]
  /\ headcount \in [Req -> Nat]
  /\ filled \in [Req -> Nat]
  /\ apps \subseteq App
  /\ reqOf \in [App -> Req]
  /\ stageOf \in [App -> Stage]
  /\ refused \subseteq App
  /\ closed \subseteq App
  /\ hired \subseteq Stage
  /\ lock \in [Row -> Tx \cup {Free}]
  /\ pc \in [Tx -> Steps]
  /\ job \in [Tx -> Job \cup {NoJob}]
  /\ answer \in [Tx -> Answers]

Init ==
  /\ status = [r \in Req |-> "draft"]
  /\ headcount = Seats
  /\ filled = [r \in Req |-> 0]
  /\ apps = {}
  /\ reqOf = [a \in App |-> CHOOSE r \in Req : TRUE]
  /\ stageOf = [a \in App |-> Entry]
  /\ refused = {}
  /\ closed = {}
  /\ hired = HiredStages
  /\ lock = [x \in Row |-> Free]
  /\ pc = [t \in Tx |-> "idle"]
  /\ job = [t \in Tx |-> NoJob]
  /\ answer = [t \in Tx |-> "none"]

-----------------------------------------------------------------------------
(* Transactions.                                                           *)

Begin(t, step, j) ==
  /\ pc[t] = "idle"
  /\ pc' = [pc EXCEPT ![t] = step]
  /\ job' = [job EXCEPT ![t] = j]
  /\ answer' = [answer EXCEPT ![t] = "none"]

(* COMMIT or ROLLBACK: the locks go, and the caller gets its answer.       *)
Finish_KeepsRequisition(t, ans) ==
  /\ pc' = [pc EXCEPT ![t] = "idle"]
  /\ job' = [job EXCEPT ![t] = NoJob]
  /\ answer' = [answer EXCEPT ![t] = ans]
  /\ lock' = [x \in Row |-> IF lock[x] = t /\ x \in App THEN Free ELSE lock[x]]

Finish(t, ans) ==
  /\ pc' = [pc EXCEPT ![t] = "idle"]
  /\ job' = [job EXCEPT ![t] = NoJob]
  /\ answer' = [answer EXCEPT ![t] = ans]
  /\ lock' = [x \in Row |-> IF lock[x] = t THEN Free ELSE lock[x]]

Rollback(t, ans) ==
  /\ Finish(t, ans)
  /\ UNCHANGED <<reqVars, appVars, hired>>

(* The connection is lost, or a statement fails, before COMMIT.            *)
Abort(t) ==
  /\ pc[t] # "idle"
  /\ Rollback(t, "internal_error")

-----------------------------------------------------------------------------
(* The locking SELECT of move_stage and refuse.                            *)

(* The joined row: the stages as the statement snapshot saw them, the      *)
(* application and the requisition as they are when it is put together.    *)
Joined(verb, a, r, s, seen, cur, tgt) ==
  [verb |-> verb, app |-> a, req |-> r, to |-> s,
   seen |-> seen, curHired |-> cur, tgtHired |-> tgt,
   found |-> stageOf[a] = seen, gone |-> a \in refused,
   openings |-> OpeningsLeft(headcount[r], filled[r])]

(* The statement snapshot, taken before any lock.                          *)
StartVerb(t, verb, a, s) ==
  /\ a \in apps
  /\ Begin(t, "lock1", Joined(verb, a, reqOf[a], s, stageOf[a],
                             stageOf[a] \in hired, s \in hired))
  /\ UNCHANGED <<reqVars, appVars, hired, lock>>

StartMove(t, a, s) == StartVerb(t, "move", a, s)

StartRefuse(t, a) == StartVerb(t, "refuse", a, stageOf[a])

(* FOR UPDATE OF a, r: the order in which the rows are locked.             *)
LockOrder_ByVerb(j) ==
  IF j.verb = "refuse" THEN <<j.req, j.app>> ELSE <<j.app, j.req>>

LockOrder(j) == <<j.app, j.req>>

Acquire(t, row) ==
  /\ lock[row] = Free
  /\ lock' = [lock EXCEPT ![row] = t]

LockFirst(t) ==
  /\ pc[t] = "lock1"
  /\ Acquire(t, LockOrder(job[t])[1])
  /\ pc' = [pc EXCEPT ![t] = "lock2"]
  /\ UNCHANGED <<reqVars, appVars, hired, job, answer>>

(* With both rows locked the statement re-checks its join on their newest  *)
(* versions.  The stage row it joined without a lock stays the one it saw, *)
(* so an application that moved while it waited joins to no row at all.    *)
Recheck(j) ==
  Joined(j.verb, j.app, j.req, j.to, j.seen, j.curHired, j.tgtHired)

LockSecond(t) ==
  /\ pc[t] = "lock2"
  /\ Acquire(t, LockOrder(job[t])[2])
  /\ pc' = [pc EXCEPT ![t] = "decide"]
  /\ job' = [job EXCEPT ![t] = Recheck(job[t])]
  /\ UNCHANGED <<reqVars, appVars, hired, answer>>

(* No row came back: the re-probe of move_stage finds the application and  *)
(* blames the target stage; refuse reports the application as unknown.     *)
RowVanished(t) ==
  /\ pc[t] = "decide"
  /\ ~job[t].found
  /\ Rollback(t, IF job[t].verb = "move" THEN "stage_not_found"
                                         ELSE "application_not_found")

AlreadyRefused(t) ==
  /\ pc[t] = "decide"
  /\ job[t].found
  /\ job[t].gone
  /\ Rollback(t, "already_refused")

Admitted_Unchecked(t, verb) ==
  /\ pc[t] = "decide"
  /\ job[t].verb = verb
  /\ job[t].found

Admitted(t, verb) ==
  /\ pc[t] = "decide"
  /\ job[t].verb = verb
  /\ job[t].found
  /\ ~job[t].gone

-----------------------------------------------------------------------------
(* move_stage: the single transition point of the pipeline.                *)

EntersHired(j) == j.tgtHired /\ ~j.curHired

LeavesHired_SidewaysToo(j) == j.curHired

LeavesHired(j) == j.curHired /\ ~j.tgtHired

Moves(t) == Admitted(t, "move") /\ job[t].to # job[t].seen

(* The UPDATE of the application row; date_closed follows the target flag. *)
PutInStage_NeverReopens(j) ==
  /\ stageOf' = [stageOf EXCEPT ![j.app] = j.to]
  /\ closed' = IF j.tgtHired THEN closed \cup {j.app} ELSE closed
  /\ UNCHANGED <<apps, reqOf, refused>>

PutInStage(j) ==
  /\ stageOf' = [stageOf EXCEPT ![j.app] = j.to]
  /\ closed' = IF j.tgtHired THEN closed \cup {j.app} ELSE closed \ {j.app}
  /\ UNCHANGED <<apps, reqOf, refused>>

(* The UPDATE of the vacancy counter; a row CHECK keeps it at zero or more.*)
AddToFilled(r, delta) ==
  /\ filled[r] + delta >= 0
  /\ filled' = [filled EXCEPT ![r] = @ + delta]
  /\ UNCHANGED <<status, headcount>>

MoveNowhere(t) ==
  /\ Admitted(t, "move")
  /\ job[t].to = job[t].seen
  /\ Rollback(t, "no_op")

MoveIntoHired(t) ==
  /\ Moves(t)
  /\ EntersHired(job[t])
  /\ job[t].openings > 0
  /\ AddToFilled(job[t].req, 1)
  /\ PutInStage(job[t])
  /\ Finish(t, "ok")
  /\ UNCHANGED hired

MoveWhenFull(t) ==
  /\ Moves(t)
  /\ EntersHired(job[t])
  /\ job[t].openings <= 0
  /\ Rollback(t, "no_open_headcount")

MoveOutOfHired(t) ==
  /\ Moves(t)
  /\ ~EntersHired(job[t])
  /\ LeavesHired(job[t])
  /\ AddToFilled(job[t].req, -1)
  /\ PutInStage(job[t])
  /\ Finish(t, "ok")
  /\ UNCHANGED hired

MoveSideways(t) ==
  /\ Moves(t)
  /\ ~EntersHired(job[t])
  /\ ~LeavesHired(job[t])
  /\ PutInStage(job[t])
  /\ Finish(t, "ok")
  /\ UNCHANGED <<reqVars, hired>>

-----------------------------------------------------------------------------
(* refuse: sticky, and the other door through which a seat is released.    *)

MarkRefused(a) ==
  /\ refused' = refused \cup {a}
  /\ closed' = closed \cup {a}
  /\ UNCHANGED <<apps, reqOf, stageOf>>

RefuseOngoing(t) ==
  /\ Admitted(t, "refuse")
  /\ ~job[t].curHired
  /\ MarkRefused(job[t].app)
  /\ Finish(t, "ok")
  /\ UNCHANGED <<reqVars, hired>>

RefuseHired_KeepsSeat(t) ==
  /\ Admitted(t, "refuse")
  /\ job[t].curHired
  /\ MarkRefused(job[t].app)
  /\ Finish(t, "ok")
  /\ UNCHANGED <<reqVars, hired>>

RefuseHired(t) ==
  /\ Admitted(t, "refuse")
  /\ job[t].curHired
  /\ AddToFilled(job[t].req, -1)
  /\ MarkRefused(job[t].app)
  /\ Finish(t, "ok")
  /\ UNCHANGED hired

-----------------------------------------------------------------------------
(* create_application: unlocked reads, then the INSERT under a fresh id.   *)

Fresh(a) == a \notin apps /\ \A t \in Tx : pc[t] = "insert" => job[t].app # a

StartCreate(t, a, r) ==
  /\ Fresh(a)
  /\ status[r] = "open"
  /\ RequireOpening(OpeningsLeft(headcount[r], filled[r]), FALSE)
  /\ Begin(t, "insert",
           [verb |-> "create", app |-> a, req |-> r, to |-> Entry,
            seen |-> Entry, curHired |-> FALSE, tgtHired |-> FALSE,
            found |-> TRUE, gone |-> FALSE, openings |-> 0])
  /\ UNCHANGED <<reqVars, appVars, hired, lock>>

(* The foreign key takes a key-share lock on the requisition row, which    *)
(* waits for a FOR UPDATE of it.                                           *)
InsertApplication(t) ==
  /\ pc[t] = "insert"
  /\ lock[job[t].req] = Free
  /\ apps' = apps \cup {job[t].app}
  /\ reqOf' = [reqOf EXCEPT ![job[t].app] = job[t].req]
  /\ stageOf' = [stageOf EXCEPT ![job[t].app] = job[t].to]
  /\ Finish(t, "ok")
  /\ UNCHANGED <<reqVars, refused, closed, hired>>

-----------------------------------------------------------------------------
(* The requisition's own verbs: each one a short transaction that locks    *)
(* the row, so it runs only while no stage verb holds it.  What else the   *)
(* verbs ask (the approval behind a draft, that the row is not deleted) is *)
(* RequisitionLifecycle's business; here any draft may be approved.        *)

SetStatus(r, to) ==
  /\ lock[r] = Free
  /\ status' = [status EXCEPT ![r] = to]
  /\ UNCHANGED <<headcount, filled, appVars, hired, lock, txVars>>

MoveStatus(r, verb) ==
  /\ status[r] \in VerbFrom[verb]
  /\ SetStatus(r, VerbTo[verb])

ConfirmOpen(r) ==
  /\ status[r] = "draft"
  /\ SetStatus(r, "open")

-----------------------------------------------------------------------------
VerbStep(t) ==
  \/ LockFirst(t)
  \/ LockSecond(t)
  \/ RowVanished(t)
  \/ AlreadyRefused(t)
  \/ MoveNowhere(t)
  \/ MoveIntoHired(t)
  \/ MoveWhenFull(t)
  \/ MoveOutOfHired(t)
  \/ MoveSideways(t)
  \/ RefuseOngoing(t)
  \/ RefuseHired(t)
  \/ InsertApplication(t)

Next ==
  \/ \E t \in Tx, a \in App, s \in Stage : StartMove(t, a, s)
  \/ \E t \in Tx, a \in App : StartRefuse(t, a)
  \/ \E t \in Tx, a \in App, r \in Req : StartCreate(t, a, r)
  \/ \E t \in Tx : VerbStep(t)
  \/ \E t \in Tx : Abort(t)
  \/ \E r \in Req, v \in LifecycleVerbs : MoveStatus(r, v)
  \/ \E r \in Req : ConfirmOpen(r)

Spec == Init /\ [][Next]_vars

(* PostgreSQL queues the waiters of a row lock, so a transaction that can  *)
(* be granted its lock again and again is granted it in the end.           *)
FairSpec == Spec /\ \A t \in Tx : SF_vars(VerbStep(t))

-----------------------------------------------------------------------------
(* The derived pipeline projection.                                        *)
PipelineStatus(a) ==
  IF a \in refused THEN "refused"
  ELSE IF stageOf[a] \in hired THEN "hired" ELSE "ongoing"

(* The applications that hold one of the requisition's openings.           *)
Seated(r) == {a \in apps : reqOf[a] = r /\ PipelineStatus(a) = "hired"}

-----------------------------------------------------------------------------
(* Properties.                                                             *)

(* Vacancy coupling: the stored counter of move_stage and refuse is, at    *)
(* every commit, the number of applications that sit in a hired stage      *)
(* without being refused, whatever the interleaving of the verbs.          *)
SeatsCounted == \A r \in Req : filled[r] = Cardinality(Seated(r))

(* Concurrent hires cannot over-fill the headcount.                        *)
NoOverfill == \A r \in Req : Cardinality(Seated(r)) <= headcount[r]

(* Refusal is sticky: no verb of any transaction, not even one that read   *)
(* the row before the refusal, moves or reopens a refused application.     *)
RefusalSticky ==
  [][\A a \in refused : a \in refused' /\ a \in closed'
                        /\ stageOf'[a] = stageOf[a]]_vars

(* date_closed is set exactly while the derived status is not "ongoing".   *)
ClosedMatchesPipeline ==
  \A a \in apps : a \in closed <=> PipelineStatus(a) # "ongoing"

(* A move is turned away as "no openings left" only while every seat is    *)
(* really taken, not because of a count read before a seat came back.      *)
TurnedAwayOnlyWhenFull ==
  [][\A t \in Tx :
       pc[t] = "decide" /\ answer'[t] = "no_open_headcount" =>
         Cardinality(Seated(job[t].req)) >= headcount[job[t].req]]_vars

(* The configuration under which the coupling holds: nobody is put into a  *)
(* hired stage just by applying.                                           *)
EntryNotHired == Entry \notin HiredStages

-----------------------------------------------------------------------------
(* The inductive invariant behind the safety properties.                   *)

Locking == {"lock1", "lock2", "decide"}

(* Only applications that exist are refused, and each of them is closed.   *)
RefusedAreClosed == refused \subseteq apps \cap closed

(* A running transaction knows its arguments, and has not answered yet.    *)
ArgumentsKnown ==
  \A t \in Tx :
    /\ pc[t] # "idle" => job[t] \in Job /\ answer[t] = "none"
    /\ pc[t] \in Locking =>
         /\ job[t].verb \in {"move", "refuse"}
         /\ job[t].app \in apps
         /\ job[t].req = reqOf[job[t].app]
    /\ pc[t] = "insert" => job[t].app \notin apps /\ job[t].to = Entry

(* No two inserts in flight carry the same id.                             *)
InsertsFresh ==
  \A t, u \in Tx :
    pc[t] = "insert" /\ pc[u] = "insert" /\ job[t].app = job[u].app => t = u

(* Locks are held exactly from the moment they are granted to the commit.  *)
LocksHeld ==
  /\ \A t \in Tx :
       /\ pc[t] \in {"lock2", "decide"} => lock[job[t].app] = t
       /\ pc[t] = "decide" => lock[job[t].req] = t
  /\ \A x \in Row, t \in Tx : lock[x] = t =>
       \/ pc[t] \in {"lock2", "decide"} /\ x = job[t].app
       \/ pc[t] = "decide" /\ x = job[t].req

(* What a deciding transaction read from the rows it locked is still true. *)
ReadsCurrent ==
  \A t \in Tx : pc[t] = "decide" =>
    /\ job[t].found = (stageOf[job[t].app] = job[t].seen)
    /\ job[t].gone = (job[t].app \in refused)
    /\ job[t].openings = OpeningsLeft(headcount[job[t].req], filled[job[t].req])

(* The part that owes nothing to the configuration: it holds whichever     *)
(* stages are flagged, and while flags and counters are being edited.      *)
EngineInv ==
  /\ TypeOK
  /\ RefusedAreClosed
  /\ ArgumentsKnown
  /\ InsertsFresh
  /\ LocksHeld
  /\ ReadsCurrent

(* No verb edits the configuration; only inserted rows are closed.         *)
ConfigurationFixed ==
  /\ hired = HiredStages
  /\ headcount = Seats
  /\ closed \subseteq apps

(* The flags a transaction read are those of the stages it joined.         *)
FlagsCurrent ==
  \A t \in Tx : pc[t] \in Locking =>
    /\ job[t].curHired = (job[t].seen \in hired)
    /\ job[t].tgtHired = (job[t].to \in hired)

FilledWithinHeadcount == \A r \in Req : filled[r] <= headcount[r]

IInv ==
  /\ EngineInv
  /\ ConfigurationFixed
  /\ FlagsCurrent
  /\ SeatsCounted
  /\ FilledWithinHeadcount
  /\ ClosedMatchesPipeline

(* The row a transaction waits for, if any.                                *)
Awaited(t) ==
  CASE pc[t] = "lock1"  -> {LockOrder(job[t])[1]}
    [] pc[t] = "lock2"  -> {LockOrder(job[t])[2]}
    [] pc[t] = "insert" -> {job[t].req}
    [] OTHER            -> {}

(* The row locks never close a cycle: no group of transactions waits only  *)
(* for rows held inside the group.                                         *)
NoLockCycle ==
  \A group \in (SUBSET Tx) \ {{}} :
    \E t \in group : \A row \in Awaited(t) : lock[row] \notin group

(* Every request is answered: none waits for a row lock forever.           *)
EveryRequestAnswered == \A t \in Tx : pc[t] # "idle" ~> pc[t] = "idle"

(* The promise of Vacancy.tla, with the seats read off the rows.           *)
Promise == INSTANCE Vacancy WITH
  holders <- [r \in Req |-> Seated(r)],
  barred  <- refused

KeepsVacancyPromise == Promise!Spec
=============================================================================
