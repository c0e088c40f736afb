------------------------ MODULE InterviewDeskProofs -------------------------
(***************************************************************************)
(* Proofs about the interviews, for any number of interviews, applications *)
(* and schedule requests.                                                  *)
(***************************************************************************)
EXTENDS InterviewDesk, TLAPS

JobsTyped == \A t \in Tx : pc[t] # "idle" => job[t] \in Job

(* The interview a request is about to insert is nobody else's, and a      *)
(* notification that was asked for can be delivered.                       *)
InsertsFresh ==
  \A t \in Tx : pc[t] = "insert" =>
    /\ state[job[t].interview] = "none"
    /\ job[t].notify => wired
    /\ \A u \in Tx : pc[u] # "idle" /\ job[u].interview = job[t].interview => u = t

IInv == TypeOK /\ JobsTyped /\ InsertsFresh /\ NothingSilentlyUnnotified

Answers == {"none", "ok", "application_refused", "activity_seam_unwired",
            "activity_delivery_failed", "internal_error"}

-----------------------------------------------------------------------------
(* The end of a request that leaves the rows alone: what it was about to   *)
(* deliver is delivered, reported or lost.                                 *)
LEMMA FinishKeeps ==
  ASSUME IInv, NEW t \in Tx, NEW ans \in Answers, Finish(t, ans),
         UNCHANGED <<refused, state, appOf, wired, asked>>,
         told \subseteq told', failed \subseteq failed', lost \subseteq lost',
         told' \subseteq Interview, failed' \subseteq Interview,
         lost' \subseteq Interview,
         pc[t] = "notify" => job[t].interview \in told' \cup failed' \cup lost'
  PROVE  IInv'
<1> USE DEF IInv
<1>1. /\ pc'[t] = "idle"
      /\ \A u \in Tx : u # t => pc'[u] = pc[u] /\ job'[u] = job[u]
  BY DEF Finish, TypeOK
<1>2. TypeOK'
  BY DEF Finish, TypeOK, Answers
<1>3. JobsTyped' /\ InsertsFresh'
  BY <1>1 DEF JobsTyped, InsertsFresh
<1>4. NothingSilentlyUnnotified'
  BY <1>1 DEF NothingSilentlyUnnotified
<1> QED
  BY <1>2, <1>3, <1>4

LEMMA StartScheduleKeeps ==
  ASSUME IInv, NEW t \in Tx, NEW i \in Interview, NEW a \in App,
         NEW notify \in BOOLEAN, StartSchedule(t, i, a, notify)
  PROVE  IInv'
<1> USE DEF IInv
<1>1. /\ pc[t] = "idle" /\ Unused(i)
      /\ UNCHANGED <<refused, state, appOf, wired, asked, told, failed, lost>>
  BY DEF StartSchedule, rowVars, sinkVars
<1>2. CASE Finish(t, "application_refused") \/ Finish(t, "activity_seam_unwired")
  BY <1>1, <1>2, FinishKeeps DEF Answers, TypeOK
<1>3. CASE /\ ~Undeliverable(notify)
           /\ pc' = [pc EXCEPT ![t] = "insert"]
           /\ job' = [job EXCEPT ![t] =
                        [interview |-> i, app |-> a, notify |-> notify]]
           /\ answer' = [answer EXCEPT ![t] = "none"]
  <2>1. /\ \A u \in Tx : u # t => pc'[u] = pc[u] /\ job'[u] = job[u]
        /\ pc'[t] = "insert" /\ job'[t] \in Job
        /\ job'[t].interview = i /\ job'[t].notify = notify
    BY <1>3 DEF TypeOK, Job
  <2>2. TypeOK'
    <3>1. job' \in [Tx -> Job \cup {None}]
      BY <1>3, <2>1 DEF TypeOK
    <3> QED
      BY <1>1, <1>3, <3>1 DEF TypeOK
  <2>3. JobsTyped'
    BY <2>1 DEF JobsTyped
  <2>4. InsertsFresh'
    BY <1>1, <1>3, <2>1 DEF InsertsFresh, Unused, Undeliverable
  <2>5. NothingSilentlyUnnotified'
    BY <1>1, <2>1 DEF NothingSilentlyUnnotified
  <2> QED
    BY <2>2, <2>3, <2>4, <2>5
<1> QED
  BY <1>2, <1>3 DEF StartSchedule

LEMMA InsertInterviewKeeps ==
  ASSUME IInv, NEW t \in Tx, InsertInterview(t)
  PROVE  IInv'
<1> USE DEF IInv
<1>1. /\ pc[t] = "insert" /\ job[t] \in Job
      /\ UNCHANGED <<refused, wired, told, failed, lost>>
  BY DEF InsertInterview, JobsTyped
<1>2. /\ state' \in [Interview -> States] /\ appOf' \in [Interview -> App \cup {None}]
      /\ \A i \in Interview : i # job[t].interview => state'[i] = state[i]
  BY <1>1 DEF InsertInterview, TypeOK, Job, States
<1>3. \A u \in Tx : u # t => pc'[u] = pc[u] /\ job'[u] = job[u]
  BY DEF InsertInterview, Finish, TypeOK
<1>4. CASE /\ job[t].notify
           /\ asked' = asked \cup {job[t].interview}
           /\ pc' = [pc EXCEPT ![t] = "notify"]
           /\ UNCHANGED <<job, answer>>
  <2>1. pc'[t] = "notify" /\ job'[t] = job[t]
    BY <1>4 DEF TypeOK
  <2>2. TypeOK'
    BY <1>1, <1>2, <1>4 DEF TypeOK, Job
  <2>3. JobsTyped'
    BY <1>1, <1>3, <2>1 DEF JobsTyped
  <2>4. InsertsFresh'
    BY <1>1, <1>2, <1>3, <2>1 DEF InsertsFresh, JobsTyped, Job
  <2>5. NothingSilentlyUnnotified'
    BY <1>1, <1>3, <1>4, <2>1 DEF NothingSilentlyUnnotified, InsertsFresh
  <2> QED
    BY <2>2, <2>3, <2>4, <2>5
<1>5. CASE Finish(t, "ok") /\ UNCHANGED asked
  <2>1. pc'[t] = "idle"
    BY <1>5 DEF Finish, TypeOK
  <2>2. TypeOK'
    BY <1>1, <1>2, <1>5 DEF TypeOK, Finish
  <2>3. JobsTyped'
    BY <1>3, <2>1 DEF JobsTyped
  <2>4. InsertsFresh'
    BY <1>1, <1>2, <1>3, <2>1 DEF InsertsFresh, JobsTyped, Job
  <2>5. NothingSilentlyUnnotified'
    BY <1>1, <1>3, <1>5, <2>1 DEF NothingSilentlyUnnotified
  <2> QED
    BY <2>2, <2>3, <2>4, <2>5
<1> QED
  BY <1>4, <1>5 DEF InsertInterview

LEMMA AnswerKeeps ==
  ASSUME IInv, NEW t \in Tx, Notify(t) \/ NotifyFails(t) \/ Crash(t)
  PROVE  IInv'
<1> USE DEF IInv
<1>1. pc[t] # "idle" /\ job[t].interview \in Interview
  BY DEF Notify, NotifyFails, Crash, JobsTyped, Job
<1>2. CASE Notify(t)
  BY <1>1, <1>2, FinishKeeps DEF Notify, rowVars, Answers, TypeOK
<1>3. CASE NotifyFails(t)
  BY <1>1, <1>3, FinishKeeps DEF NotifyFails, rowVars, Answers, TypeOK
<1>4. CASE Crash(t)
  BY <1>1, <1>4, FinishKeeps DEF Crash, rowVars, Answers, TypeOK
<1> QED
  BY <1>2, <1>3, <1>4

LEMMA CasKeeps ==
  ASSUME IInv, NEW i \in Interview, NEW to \in States,
         NEW from, "none" \notin from, Cas(i, from, to)
  PROVE  IInv'
<1> USE DEF IInv
<1>1. /\ UNCHANGED <<refused, appOf, wired, asked, told, failed, lost, pc, job, answer>>
      /\ state[i] # "none"
      /\ state' \in [Interview -> States]
      /\ \A k \in Interview : k # i => state'[k] = state[k]
  BY DEF Cas, sinkVars, txVars, TypeOK
<1>2. TypeOK' /\ JobsTyped' /\ NothingSilentlyUnnotified'
  BY <1>1 DEF TypeOK, JobsTyped, NothingSilentlyUnnotified
<1>3. InsertsFresh'
  BY <1>1 DEF InsertsFresh, JobsTyped, Job
<1> QED
  BY <1>2, <1>3

LEMMA RefuseKeeps ==
  ASSUME IInv, (\E a \in App : Refuse(a)) \/ UNCHANGED vars
  PROVE  IInv'
<1>1. /\ refused' \subseteq App
      /\ UNCHANGED <<state, appOf, wired, asked, told, failed, lost, pc, job, answer>>
  BY DEF IInv, TypeOK, Refuse, vars, rowVars, sinkVars, txVars
<1> QED
  BY <1>1 DEF IInv, TypeOK, JobsTyped, InsertsFresh, NothingSilentlyUnnotified

LEMMA StepKeeps ==
  ASSUME IInv, [Next]_vars
  PROVE  IInv'
<1>1. ASSUME NEW i \in Interview, Complete(i) \/ Cancel(i)
      PROVE  IInv'
  BY <1>1, CasKeeps DEF Complete, Cancel, States
<1> QED
  BY <1>1, StartScheduleKeeps, InsertInterviewKeeps, AnswerKeeps, RefuseKeeps
  DEF Next

-----------------------------------------------------------------------------
(* The invariant holds in every reachable state.                           *)
THEOREM DeskInvariant == Spec => []IInv
<1>1. Init => IInv
  BY DEF Init, IInv, TypeOK, States, JobsTyped, InsertsFresh,
         NothingSilentlyUnnotified
<1>2. IInv /\ [Next]_vars => IInv'
  BY StepKeeps
<1> QED
  BY <1>1, <1>2, PTL DEF Spec

(* Its part about the types.                                               *)
THEOREM DeskTypes == Spec => []TypeOK
BY DeskInvariant, PTL DEF IInv

(* Nobody who asked for a notification goes without word of it, a crash    *)
(* after the commit apart.                                                 *)
THEOREM NothingUnnotified == Spec => []NothingSilentlyUnnotified
BY DeskInvariant, PTL DEF IInv

(* Completed and cancelled interviews stay so, and no interview changes    *)
(* its application.                                                        *)
THEOREM HistoryStays == Spec => HistoryStands
<1>1. ASSUME IInv, [Next]_vars, NEW i \in Interview
      PROVE  /\ state[i] \in {"completed", "cancelled"} => state'[i] = state[i]
             /\ state[i] # "none" => state'[i] # "none" /\ appOf'[i] = appOf[i]
  <2> USE DEF IInv
  <2>1. ASSUME NEW t \in Tx, InsertInterview(t), state[i] # "none"
        PROVE  state'[i] = state[i] /\ appOf'[i] = appOf[i]
    <3>1. job[t].interview # i
      BY <1>1, <2>1 DEF InsertInterview, InsertsFresh
    <3> DEFINE k == job[t].interview
               a == job[t].app
    <3>2. /\ state' = [state EXCEPT ![k] = "scheduled"]
          /\ appOf' = [appOf EXCEPT ![k] = a]
      BY <2>1 DEF InsertInterview
    <3>3. k # i
      BY <3>1
    <3>4. state \in [Interview -> States] /\ appOf \in [Interview -> App \cup {None}]
      BY <1>1 DEF TypeOK
    <3> HIDE DEF k, a
    <3> QED
      BY <3>2, <3>3, <3>4
  <2>2. ASSUME NEW k \in Interview, Complete(k) \/ Cancel(k)
        PROVE  /\ state[i] \in {"completed", "cancelled"} => state'[i] = state[i]
               /\ state[i] # "none" => state'[i] # "none" /\ appOf'[i] = appOf[i]
    BY <1>1, <2>2 DEF Complete, Cancel, Cas, TypeOK
  <2>3. CASE UNCHANGED <<state, appOf>>
    BY <2>3
  <2>4. \/ \E t \in Tx : InsertInterview(t)
        \/ \E k \in Interview : Complete(k) \/ Cancel(k)
        \/ UNCHANGED <<state, appOf>>
    <3>1. ASSUME NEW t \in Tx, NEW k \in Interview, NEW a \in App, NEW n \in BOOLEAN,
                 StartSchedule(t, k, a, n)
          PROVE  UNCHANGED <<state, appOf>>
      BY <3>1 DEF StartSchedule, rowVars
    <3>2. ASSUME NEW t \in Tx, Notify(t) \/ NotifyFails(t) \/ Crash(t)
          PROVE  UNCHANGED <<state, appOf>>
      BY <3>2 DEF Notify, NotifyFails, Crash, rowVars
    <3>3. ASSUME NEW a \in App, Refuse(a)
          PROVE  UNCHANGED <<state, appOf>>
      BY <3>3 DEF Refuse, rowVars
    <3>4. UNCHANGED vars => UNCHANGED <<state, appOf>>
      BY DEF vars, rowVars
    <3> QED
      BY <1>1, <3>1, <3>2, <3>3, <3>4 DEF Next
  <2> QED
    BY <2>1, <2>2, <2>3, <2>4
<1>2. IInv /\ [Next]_vars =>
        [\A i \in Interview :
           /\ state[i] \in {"completed", "cancelled"} => state'[i] = state[i]
           /\ state[i] # "none" => state'[i] # "none" /\ appOf'[i] = appOf[i]]_vars
  BY <1>1
<1> QED
  BY <1>2, DeskInvariant, PTL DEF Spec, HistoryStands

(* A refusal stops the scheduling of its application but for the requests  *)
(* that had passed the check before.                                       *)
THEOREM RefusalStops == Spec => RefusalStopsScheduling
<1>1. ASSUME IInv, [Next]_vars, NEW a \in refused
      PROVE  Coming(a)' \subseteq Coming(a)
  <2> USE DEF IInv
  <2>1. SUFFICES ASSUME NEW i \in Interview, i \in Coming(a)'
                 PROVE  i \in Coming(a)
    <3>1. Coming(a)' \subseteq Interview
      <4>1. \A t \in Tx : pc'[t] = "insert" => job'[t].interview \in Interview
        BY <1>1, StepKeeps DEF JobsTyped, Job
      <4> QED
        BY <4>1 DEF Coming
    <3> QED
      BY <3>1
  <2>2. \/ appOf'[i] = a
        \/ \E t \in Tx : pc'[t] = "insert" /\ job'[t].app = a /\ job'[t].interview = i
    BY <2>1 DEF Coming
  <2>3. ASSUME appOf'[i] = appOf[i],
               \A t \in Tx : pc'[t] = "insert" /\ job'[t].app = a =>
                 pc[t] = "insert" /\ job'[t] = job[t]
        PROVE  i \in Coming(a)
    BY <2>2, <2>3 DEF Coming
  <2>4. ASSUME NEW t \in Tx, NEW k \in Interview, NEW b \in App, NEW n \in BOOLEAN,
               StartSchedule(t, k, b, n)
        PROVE  i \in Coming(a)
    <3>1. appOf' = appOf
      BY <2>4 DEF StartSchedule, rowVars
    <3>2. CASE pc' = [pc EXCEPT ![t] = "idle"] /\ job' = [job EXCEPT ![t] = None]
      BY <1>1, <3>1, <3>2, <2>3 DEF TypeOK
    <3>3. CASE /\ Schedulable(b)
               /\ pc' = [pc EXCEPT ![t] = "insert"]
               /\ job' = [job EXCEPT ![t] = [interview |-> k, app |-> b, notify |-> n]]
      <4>1. b # a
        BY <1>1, <3>3 DEF Schedulable
      <4>2. job'[t].app = b /\ \A u \in Tx : u # t => pc'[u] = pc[u] /\ job'[u] = job[u]
        BY <1>1, <3>3 DEF TypeOK
      <4> QED
        BY <3>1, <4>1, <4>2, <2>3
    <3> QED
      BY <2>4, <3>2, <3>3 DEF StartSchedule, Finish
  <2>5. ASSUME NEW t \in Tx, InsertInterview(t)
        PROVE  i \in Coming(a)
    <3>1. pc[t] = "insert" /\ job[t] \in Job
      BY <1>1, <2>5 DEF InsertInterview, JobsTyped
    <3>2. PICK k, b : k = job[t].interview /\ b = job[t].app
      OBVIOUS
    <3>3. appOf' = [appOf EXCEPT ![k] = b]
      BY <2>5, <3>2 DEF InsertInterview
    <3>4. \A u \in Tx : pc'[u] = "insert" => pc[u] = "insert" /\ job'[u] = job[u]
      BY <1>1, <2>5 DEF InsertInterview, Finish, TypeOK
    <3>5. CASE i = k /\ b = a
      BY <3>1, <3>2, <3>5 DEF Coming
    <3>6. CASE ~(i = k /\ b = a)
      <4>1. appOf'[i] = a => appOf[i] = a
        BY <1>1, <3>3, <3>6 DEF TypeOK
      <4> QED
        BY <2>2, <3>4, <4>1 DEF Coming
    <3> QED
      BY <3>5, <3>6
  <2>6. ASSUME NEW t \in Tx, Notify(t) \/ NotifyFails(t) \/ Crash(t)
        PROVE  i \in Coming(a)
    <3>1. appOf' = appOf /\ pc' = [pc EXCEPT ![t] = "idle"]
            /\ job' = [job EXCEPT ![t] = None]
      BY <2>6 DEF Notify, NotifyFails, Crash, Finish, rowVars
    <3> QED
      BY <1>1, <3>1, <2>3 DEF TypeOK
  <2>7. ASSUME NEW k \in Interview, Complete(k) \/ Cancel(k)
        PROVE  i \in Coming(a)
    BY <2>7, <2>3 DEF Complete, Cancel, Cas, txVars
  <2>8. ASSUME (\E b \in App : Refuse(b)) \/ UNCHANGED vars
        PROVE  i \in Coming(a)
    BY <2>8, <2>3 DEF Refuse, vars, rowVars, txVars
  <2> QED
    BY <1>1, <2>4, <2>5, <2>6, <2>7, <2>8 DEF Next
<1>2. IInv /\ [Next]_vars =>
        [\A a \in refused : Coming(a)' \subseteq Coming(a)]_vars
  BY <1>1
<1> QED
  BY <1>2, DeskInvariant, PTL DEF Spec, RefusalStopsScheduling
=============================================================================
