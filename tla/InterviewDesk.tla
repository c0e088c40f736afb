--------------------------- MODULE InterviewDesk ----------------------------
(***************************************************************************)
(* InterviewWriteService: schedule, complete and cancel, next to the       *)
(* refusals of the stage engine.  schedule reads the application           *)
(* without locking it, commits the interview and notifies the interviewer  *)
(* afterwards; complete and cancel each lock the interview row.            *)
(***************************************************************************)
EXTENDS FiniteSets

CONSTANTS
  App,        \* ids of job applications, all of them inserted
  Interview,  \* ids of interviews
  Tx,         \* schedule requests in progress
  None        \* no application, no job

ASSUME DeskAssumption == None \notin App

VARIABLES
  refused,          \* applications refused
  state, appOf,     \* interviews rows
  wired,            \* whether an activity sink was wired at construction
  asked,            \* interviews whose caller asked for a notification
  told, failed,     \* activities handed over; deliveries reported as failed
  lost,             \* interviews whose schedule died before the notification
  pc, job, answer   \* the schedule requests

rowVars  == <<state, appOf>>
sinkVars == <<wired, asked, told, failed, lost>>
txVars   == <<pc, job, answer>>
vars == <<refused, rowVars, sinkVars, txVars>>

States == {"none", "scheduled", "completed", "cancelled", "no_show"}
Job == [interview: Interview, app: App, notify: BOOLEAN]

TypeOK ==
  /\ refused \subseteq App
  /\ state \in [Interview -> States]
  /\ appOf \in [Interview -> App \cup {None}]
  /\ wired \in BOOLEAN
  /\ asked \subseteq Interview /\ told \subseteq Interview
  /\ failed \subseteq Interview /\ lost \subseteq Interview
  /\ pc \in [Tx -> {"idle", "insert", "notify"}]
  /\ job \in [Tx -> Job \cup {None}]
  /\ answer \in [Tx -> {"none", "ok", "application_refused",
                        "activity_seam_unwired", "activity_delivery_failed",
                        "internal_error"}]

Init ==
  /\ refused = {} /\ wired \in BOOLEAN
  /\ state = [i \in Interview |-> "none"]
  /\ appOf = [i \in Interview |-> None]
  /\ asked = {} /\ told = {} /\ failed = {} /\ lost = {}
  /\ pc = [t \in Tx |-> "idle"]
  /\ job = [t \in Tx |-> None]
  /\ answer = [t \in Tx |-> "none"]

Finish(t, ans) ==
  /\ pc' = [pc EXCEPT ![t] = "idle"]
  /\ job' = [job EXCEPT ![t] = None]
  /\ answer' = [answer EXCEPT ![t] = ans]

-----------------------------------------------------------------------------
(* schedule.                                                               *)

Unused(i) == state[i] = "none" /\ \A t \in Tx : pc[t] # "idle" => job[t].interview # i

(* The refusal mark, read without a lock.                                  *)
Schedulable_Always(a) == TRUE

Schedulable(a) == a \notin refused

(* A notification that nobody can deliver is refused before the INSERT.    *)
Undeliverable(notify) == notify /\ ~wired

StartSchedule(t, i, a, notify) ==
  /\ pc[t] = "idle"
  /\ Unused(i)
  /\ \/ /\ ~Schedulable(a)
        /\ Finish(t, "application_refused")
     \/ /\ Schedulable(a)
        /\ Undeliverable(notify)
        /\ Finish(t, "activity_seam_unwired")
     \/ /\ Schedulable(a)
        /\ ~Undeliverable(notify)
        /\ pc' = [pc EXCEPT ![t] = "insert"]
        /\ job' = [job EXCEPT ![t] = [interview |-> i, app |-> a, notify |-> notify]]
        /\ answer' = [answer EXCEPT ![t] = "none"]
  /\ UNCHANGED <<refused, rowVars, sinkVars>>

(* The INSERT and its COMMIT.                                              *)
InsertInterview(t) ==
  LET i == job[t].interview IN
  /\ pc[t] = "insert"
  /\ state' = [state EXCEPT ![i] = "scheduled"]
  /\ appOf' = [appOf EXCEPT ![i] = job[t].app]
  /\ \/ /\ job[t].notify
        /\ asked' = asked \cup {i}
        /\ pc' = [pc EXCEPT ![t] = "notify"]
        /\ UNCHANGED <<job, answer>>
     \/ /\ ~job[t].notify
        /\ Finish(t, "ok")
        /\ UNCHANGED asked
  /\ UNCHANGED <<refused, wired, told, failed, lost>>

Notify(t) ==
  /\ pc[t] = "notify"
  /\ wired
  /\ told' = told \cup {job[t].interview}
  /\ Finish(t, "ok")
  /\ UNCHANGED <<refused, rowVars, wired, asked, failed, lost>>

(* A failed delivery is surfaced; the interview stays scheduled.           *)
NotifyFails_Swallowed(t) ==
  /\ pc[t] = "notify"
  /\ Finish(t, "ok")
  /\ UNCHANGED <<refused, rowVars, sinkVars>>

NotifyFails(t) ==
  /\ pc[t] = "notify"
  /\ failed' = failed \cup {job[t].interview}
  /\ Finish(t, "activity_delivery_failed")
  /\ UNCHANGED <<refused, rowVars, wired, asked, told, lost>>

Crash(t) ==
  /\ pc[t] # "idle"
  /\ lost' = IF pc[t] = "notify" THEN lost \cup {job[t].interview} ELSE lost
  /\ Finish(t, "internal_error")
  /\ UNCHANGED <<refused, rowVars, wired, asked, told, failed>>

-----------------------------------------------------------------------------
(* complete and cancel: a compare-and-set under the row lock.  A refusal   *)
(* to transition changes nothing and is left out.                          *)

Cas(i, from, to) ==
  /\ state[i] \in from
  /\ state' = [state EXCEPT ![i] = to]
  /\ UNCHANGED <<refused, appOf, sinkVars, txVars>>

Complete(i) == Cas(i, {"scheduled", "no_show"}, "completed")

Cancel_Anything(i) == Cas(i, {"scheduled", "completed", "no_show"}, "cancelled")

Cancel(i) == Cas(i, {"scheduled"}, "cancelled")

-----------------------------------------------------------------------------
(* The stage engine: refusal is sticky.                                    *)

Refuse(a) ==
  /\ a \notin refused
  /\ refused' = refused \cup {a}
  /\ UNCHANGED <<rowVars, sinkVars, txVars>>

Next ==
  \/ \E t \in Tx, i \in Interview, a \in App, n \in BOOLEAN :
       StartSchedule(t, i, a, n)
  \/ \E t \in Tx : InsertInterview(t) \/ Notify(t) \/ NotifyFails(t) \/ Crash(t)
  \/ \E i \in Interview : Complete(i) \/ Cancel(i)
  \/ \E a \in App : Refuse(a)

Spec == Init /\ [][Next]_vars

-----------------------------------------------------------------------------
(* Properties.                                                             *)

(* "A completed interview is history; it does not un-happen": completed    *)
(* and cancelled are final, and a row never changes its application, even  *)
(* while the schedule that inserted it has not answered yet.               *)
HistoryStands ==
  [][\A i \in Interview :
       /\ state[i] \in {"completed", "cancelled"} => state'[i] = state[i]
       /\ state[i] # "none" => state'[i] # "none" /\ appOf'[i] = appOf[i]]_vars

(* The check of the refusal mark and the INSERT are two statements with no *)
(* lock between them, so that a refusal may still be followed by an        *)
(* interview; but only by those that had passed the check before it:       *)
(* whatever is asked for, retried or dies afterwards, no further interview *)
(* of that application comes.                                              *)
Coming(a) ==
  {i \in Interview : appOf[i] = a}
    \cup {job[t].interview : t \in {u \in Tx : pc[u] = "insert" /\ job[u].app = a}}
RefusalStopsScheduling ==
  [][\A a \in refused : Coming(a)' \subseteq Coming(a)]_vars

(* "Nothing silently unnotified": an interview whose caller asked for a    *)
(* notification was delivered one, or the failure was reported, or the     *)
(* schedule is about to deliver it; only a crash after the commit loses    *)
(* it.  Without a sink no such interview exists.                           *)
NothingSilentlyUnnotified ==
  /\ asked # {} => wired
  /\ \A i \in asked :
       \/ i \in told \cup failed \cup lost
       \/ \E t \in Tx : pc[t] = "notify" /\ job[t].interview = i
=============================================================================
