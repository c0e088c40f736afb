------------------------- MODULE StageEngineProofs -------------------------
(***************************************************************************)
(* Proofs about the stage engine, for any number of applications,          *)
(* requisitions, stages, openings and connections.  What holds for every   *)
(* configuration comes first, and with the generic writes of MasterData    *)
(* going on; what needs a sound configuration comes after it.              *)
(***************************************************************************)
EXTENDS MasterData, FiniteSetTheorems, TLAPS

(* The parts of the invariant about transactions alone.                    *)
TxInv == TypeOK /\ ArgumentsKnown /\ InsertsFresh /\ LocksHeld

(* A deciding transaction knows its arguments and holds both its rows.     *)
LEMMA Deciding ==
  ASSUME TypeOK, ArgumentsKnown, LocksHeld, NEW t \in Tx, pc[t] = "decide"
  PROVE  /\ job[t] \in Job
         /\ job[t].app \in apps /\ job[t].app \in App
         /\ job[t].req = reqOf[job[t].app] /\ job[t].req \in Req
         /\ job[t].to \in Stage /\ job[t].seen \in Stage
         /\ lock[job[t].app] = t /\ lock[job[t].req] = t
BY DEF TypeOK, ArgumentsKnown, LocksHeld, Locking, Job

(* No two deciding transactions share a row.                               *)
LEMMA OthersElsewhere ==
  ASSUME TypeOK, ArgumentsKnown, LocksHeld,
         NEW t \in Tx, pc[t] = "decide",
         NEW u \in Tx, pc[u] = "decide", u # t
  PROVE  job[u].app # job[t].app /\ job[u].req # job[t].req
BY DEF LocksHeld

(* The end of a transaction keeps what the others know and hold.           *)
LEMMA FinishKeepsTx ==
  ASSUME TxInv, NEW t \in Tx, NEW ans \in Answers, Finish(t, ans),
         apps \subseteq apps',
         \A a \in apps : reqOf'[a] = reqOf[a],
         \A u \in Tx : u # t /\ pc[u] = "insert" => job[u].app \notin apps'
  PROVE  /\ pc' \in [Tx -> Steps] /\ job' \in [Tx -> Job \cup {NoJob}]
         /\ answer' \in [Tx -> Answers] /\ lock' \in [Row -> Tx \cup {Free}]
         /\ ArgumentsKnown' /\ InsertsFresh' /\ LocksHeld'
<1> USE DEF TxInv
<1>1. \A u \in Tx : u # t =>
        pc'[u] = pc[u] /\ job'[u] = job[u] /\ answer'[u] = answer[u]
  BY DEF Finish, TypeOK
<1>2. pc'[t] = "idle"
  BY DEF Finish, TypeOK
<1>3. /\ pc' \in [Tx -> Steps] /\ job' \in [Tx -> Job \cup {NoJob}]
      /\ answer' \in [Tx -> Answers] /\ lock' \in [Row -> Tx \cup {Free}]
  BY DEF Finish, TypeOK, Steps
<1>4. ArgumentsKnown'
  BY <1>1, <1>2 DEF ArgumentsKnown, Locking
<1>5. InsertsFresh'
  BY <1>1, <1>2 DEF InsertsFresh
<1>6. LocksHeld'
  <2>1. ASSUME NEW u \in Tx
        PROVE  /\ pc'[u] \in {"lock2", "decide"} => lock'[job'[u].app] = u
               /\ pc'[u] = "decide" => lock'[job'[u].req] = u
    BY <1>1, <1>2 DEF LocksHeld, Finish, ArgumentsKnown, Locking, Job, Row, TypeOK
  <2>2. ASSUME NEW x \in Row, NEW u \in Tx, lock'[x] = u
        PROVE  \/ pc'[u] \in {"lock2", "decide"} /\ x = job'[u].app
               \/ pc'[u] = "decide" /\ x = job'[u].req
    <3>1. lock[x] = u /\ u # t
      BY <2>2, IdAssumption DEF Finish
    <3> QED
      BY <3>1, <1>1 DEF LocksHeld
  <2> QED
    BY <2>1, <2>2 DEF LocksHeld
<1> QED
  BY <1>3, <1>4, <1>5, <1>6

(* A rollback keeps the invariant.                                         *)
LEMMA RollbackKeeps ==
  ASSUME EngineInv, NEW t \in Tx, NEW ans \in Answers, Rollback(t, ans)
  PROVE  EngineInv'
<1> USE DEF EngineInv
<1>0. UNCHANGED <<reqVars, appVars, hired>> /\ Finish(t, ans)
  BY DEF Rollback
<1>1. \A u \in Tx : u # t /\ pc[u] = "insert" => job[u].app \notin apps'
  BY <1>0 DEF ArgumentsKnown, appVars
<1>2. /\ pc' \in [Tx -> Steps] /\ job' \in [Tx -> Job \cup {NoJob}]
      /\ answer' \in [Tx -> Answers] /\ lock' \in [Row -> Tx \cup {Free}]
      /\ ArgumentsKnown' /\ InsertsFresh' /\ LocksHeld'
  BY <1>0, <1>1, FinishKeepsTx DEF TxInv, appVars
<1>3. TypeOK'
  BY <1>0, <1>2 DEF TypeOK, reqVars, appVars
<1>4. ReadsCurrent'
  BY <1>0 DEF ReadsCurrent, Finish, TypeOK, reqVars, appVars
<1>5. RefusedAreClosed'
  BY <1>0 DEF RefusedAreClosed, appVars
<1> QED
  BY <1>2, <1>3, <1>4, <1>5

-----------------------------------------------------------------------------
(* The initial states.                                                     *)

LEMMA InitEngineInv ==
  ASSUME Init
  PROVE  EngineInv
<1> USE DEF Init
<1>1. (CHOOSE r \in Req : TRUE) \in Req
  BY RequisitionAssumption
<1>2. TypeOK
  BY <1>1, StageAssumption, RequisitionAssumption, IdAssumption
  DEF TypeOK, Statuses, Steps, Answers
<1>3. RefusedAreClosed
  BY DEF RefusedAreClosed
<1>4. ArgumentsKnown /\ InsertsFresh /\ ReadsCurrent
  BY DEF ArgumentsKnown, InsertsFresh, ReadsCurrent, Locking
<1>5. LocksHeld
  BY IdAssumption DEF LocksHeld
<1> QED
  BY <1>2, <1>3, <1>4, <1>5 DEF EngineInv

-----------------------------------------------------------------------------
(* The steps before the decision.                                          *)

LEMMA StartVerbKeeps ==
  ASSUME EngineInv, NEW t \in Tx, NEW a \in App, NEW s \in Stage,
         NEW verb \in {"move", "refuse"}, StartVerb(t, verb, a, s)
  PROVE  EngineInv'
<1> USE DEF EngineInv
<1>1. UNCHANGED <<reqVars, appVars, hired, lock>> /\ a \in apps /\ pc[t] = "idle"
  BY DEF StartVerb, Begin
<1>2. /\ \A u \in Tx : u # t =>
           pc'[u] = pc[u] /\ job'[u] = job[u] /\ answer'[u] = answer[u]
      /\ pc'[t] = "lock1" /\ answer'[t] = "none"
  BY DEF StartVerb, Begin, TypeOK
<1>3. /\ job'[t] \in Job
      /\ job'[t].verb = verb /\ job'[t].app = a /\ job'[t].req = reqOf[a]
  BY DEF StartVerb, Begin, Joined, TypeOK, Job, OpeningsLeft
<1>4. TypeOK'
  <2>1. /\ pc' \in [Tx -> Steps] /\ answer' \in [Tx -> Answers]
    BY DEF StartVerb, Begin, TypeOK, Steps, Answers
  <2>2. job' \in [Tx -> Job \cup {NoJob}]
    BY <1>2, <1>3 DEF StartVerb, Begin, TypeOK
  <2> QED
    BY <1>1, <2>1, <2>2 DEF TypeOK, reqVars, appVars
<1>5. ArgumentsKnown'
  BY <1>1, <1>2, <1>3 DEF ArgumentsKnown, Locking, appVars
<1>6. InsertsFresh'
  BY <1>2 DEF InsertsFresh
<1>7. LocksHeld'
  BY <1>1, <1>2 DEF LocksHeld
<1>8. ReadsCurrent' /\ RefusedAreClosed'
  BY <1>1, <1>2 DEF ReadsCurrent, RefusedAreClosed, reqVars, appVars
<1> QED
  BY <1>4, <1>5, <1>6, <1>7, <1>8

LEMMA StartCreateKeeps ==
  ASSUME EngineInv, NEW t \in Tx, NEW a \in App, NEW r \in Req, StartCreate(t, a, r)
  PROVE  EngineInv'
<1> USE DEF EngineInv
<1>1. UNCHANGED <<reqVars, appVars, hired, lock>> /\ Fresh(a) /\ pc[t] = "idle"
  BY DEF StartCreate, Begin
<1>2. /\ \A u \in Tx : u # t =>
           pc'[u] = pc[u] /\ job'[u] = job[u] /\ answer'[u] = answer[u]
      /\ pc'[t] = "insert" /\ answer'[t] = "none"
  BY DEF StartCreate, Begin, TypeOK
<1>3. job'[t] \in Job /\ job'[t].app = a /\ job'[t].to = Entry
  BY StageAssumption DEF StartCreate, Begin, TypeOK, Job
<1>4. TypeOK'
  <2>1. /\ pc' \in [Tx -> Steps] /\ answer' \in [Tx -> Answers]
    BY DEF StartCreate, Begin, TypeOK, Steps, Answers
  <2>2. job' \in [Tx -> Job \cup {NoJob}]
    BY <1>2, <1>3 DEF StartCreate, Begin, TypeOK
  <2> QED
    BY <1>1, <2>1, <2>2 DEF TypeOK, reqVars, appVars
<1>5. ArgumentsKnown'
  BY <1>1, <1>2, <1>3 DEF ArgumentsKnown, Locking, Fresh, appVars
<1>6. InsertsFresh'
  BY <1>1, <1>2, <1>3 DEF InsertsFresh, Fresh
<1>7. LocksHeld'
  BY <1>1, <1>2 DEF LocksHeld
<1>8. ReadsCurrent' /\ RefusedAreClosed'
  BY <1>1, <1>2 DEF ReadsCurrent, RefusedAreClosed, reqVars, appVars
<1> QED
  BY <1>4, <1>5, <1>6, <1>7, <1>8

LEMMA LockFirstKeeps ==
  ASSUME EngineInv, NEW t \in Tx, LockFirst(t)
  PROVE  EngineInv'
<1> USE DEF EngineInv
<1>1. /\ UNCHANGED <<reqVars, appVars, hired, job, answer>>
      /\ pc[t] = "lock1" /\ lock[job[t].app] = Free
      /\ lock' = [lock EXCEPT ![job[t].app] = t]
  BY DEF LockFirst, Acquire, LockOrder
<1>2. /\ \A u \in Tx : u # t => pc'[u] = pc[u]
      /\ pc'[t] = "lock2"
  BY DEF LockFirst, TypeOK
<1>3. job[t].app \in Row
  BY <1>1 DEF ArgumentsKnown, Job, Row
<1>4. TypeOK'
  BY <1>1, <1>3 DEF TypeOK, LockFirst, Steps, reqVars, appVars
<1>5. ArgumentsKnown' /\ InsertsFresh'
  BY <1>1, <1>2 DEF ArgumentsKnown, InsertsFresh, Locking, appVars
<1>6. LocksHeld'
  <2>1. ASSUME NEW u \in Tx
        PROVE  /\ pc'[u] \in {"lock2", "decide"} => lock'[job'[u].app] = u
               /\ pc'[u] = "decide" => lock'[job'[u].req] = u
    BY <1>1, <1>2, <1>3, IdAssumption DEF LocksHeld, TypeOK
  <2>2. ASSUME NEW x \in Row, NEW u \in Tx, lock'[x] = u
        PROVE  \/ pc'[u] \in {"lock2", "decide"} /\ x = job'[u].app
               \/ pc'[u] = "decide" /\ x = job'[u].req
    <3>1. CASE x = job[t].app
      BY <2>2, <3>1, <1>1, <1>2 DEF TypeOK
    <3>2. CASE x # job[t].app
      BY <2>2, <3>2, <1>1, <1>2 DEF LocksHeld, TypeOK
    <3> QED
      BY <3>1, <3>2
  <2> QED
    BY <2>1, <2>2 DEF LocksHeld
<1>7. ReadsCurrent' /\ RefusedAreClosed'
  BY <1>1, <1>2 DEF ReadsCurrent, RefusedAreClosed, reqVars, appVars
<1> QED
  BY <1>4, <1>5, <1>6, <1>7

LEMMA LockSecondKeeps ==
  ASSUME EngineInv, NEW t \in Tx, LockSecond(t)
  PROVE  EngineInv'
<1> USE DEF EngineInv
<1>1. /\ UNCHANGED <<reqVars, appVars, hired, answer>>
      /\ pc[t] = "lock2" /\ lock[job[t].req] = Free
      /\ lock' = [lock EXCEPT ![job[t].req] = t]
  BY DEF LockSecond, Acquire, LockOrder
<1>2. /\ \A u \in Tx : u # t => pc'[u] = pc[u] /\ job'[u] = job[u]
      /\ pc'[t] = "decide" /\ job'[t] = Recheck(job[t])
  BY DEF LockSecond, TypeOK
<1>3. /\ job[t] \in Job /\ job[t].req \in Row /\ job[t].req \in Req
      /\ job[t].app \in App /\ job[t].app # job[t].req
  BY <1>1, IdAssumption DEF ArgumentsKnown, Job, Row
<1>4. /\ job'[t] \in Job
      /\ job'[t].app = job[t].app /\ job'[t].req = job[t].req
      /\ job'[t].verb = job[t].verb
      /\ job'[t].seen = job[t].seen /\ job'[t].to = job[t].to
      /\ job'[t].found = (stageOf[job[t].app] = job[t].seen)
      /\ job'[t].gone = (job[t].app \in refused)
      /\ job'[t].openings = OpeningsLeft(headcount[job[t].req], filled[job[t].req])
  BY <1>2, <1>3 DEF Recheck, Joined, Job, TypeOK, OpeningsLeft
<1>5. TypeOK'
  <2>1. pc' \in [Tx -> Steps] /\ lock' \in [Row -> Tx \cup {Free}]
    BY <1>1, <1>3 DEF LockSecond, TypeOK, Steps
  <2>2. job' \in [Tx -> Job \cup {NoJob}]
    BY <1>2, <1>4 DEF LockSecond, TypeOK
  <2> QED
    BY <1>1, <2>1, <2>2 DEF TypeOK, reqVars, appVars
<1>6. ArgumentsKnown'
  BY <1>1, <1>2, <1>4 DEF ArgumentsKnown, Locking, appVars
<1>7. InsertsFresh'
  BY <1>2 DEF InsertsFresh
<1>8. LocksHeld'
  <2>1. ASSUME NEW u \in Tx
        PROVE  /\ pc'[u] \in {"lock2", "decide"} => lock'[job'[u].app] = u
               /\ pc'[u] = "decide" => lock'[job'[u].req] = u
    BY <1>1, <1>2, <1>3, <1>4, IdAssumption DEF LocksHeld, TypeOK
  <2>2. ASSUME NEW x \in Row, NEW u \in Tx, lock'[x] = u
        PROVE  \/ pc'[u] \in {"lock2", "decide"} /\ x = job'[u].app
               \/ pc'[u] = "decide" /\ x = job'[u].req
    <3>1. CASE x = job[t].req
      BY <2>2, <3>1, <1>1, <1>2, <1>4 DEF TypeOK
    <3>2. CASE x # job[t].req
      BY <2>2, <3>2, <1>1, <1>2, <1>4 DEF LocksHeld, TypeOK
    <3> QED
      BY <3>1, <3>2
  <2> QED
    BY <2>1, <2>2 DEF LocksHeld
<1>9. ReadsCurrent' /\ RefusedAreClosed'
  BY <1>1, <1>2, <1>4 DEF ReadsCurrent, RefusedAreClosed, reqVars, appVars
<1> QED
  BY <1>5, <1>6, <1>7, <1>8, <1>9

-----------------------------------------------------------------------------
(* The commits.  Only the rows the transaction has locked change, so what  *)
(* the other deciding transactions read stays true.                        *)

(* What a verb about to commit knows of its rows.                          *)
LEMMA AdmittedFacts ==
  ASSUME EngineInv, NEW t \in Tx, NEW verb, Admitted(t, verb)
  PROVE  /\ pc[t] = "decide" /\ job[t].verb = verb /\ job[t] \in Job
         /\ job[t].app \in apps /\ job[t].app \in App
         /\ job[t].req = reqOf[job[t].app] /\ job[t].req \in Req
         /\ job[t].to \in Stage
         /\ job[t].app \notin refused
         /\ stageOf[job[t].app] = job[t].seen
         /\ job[t].openings = headcount[job[t].req] - filled[job[t].req]
<1> USE DEF EngineInv
<1>1. pc[t] = "decide" /\ job[t].verb = verb /\ job[t].found /\ ~job[t].gone
  BY DEF Admitted
<1>2. /\ job[t] \in Job
      /\ job[t].app \in apps /\ job[t].app \in App
      /\ job[t].req = reqOf[job[t].app] /\ job[t].req \in Req
      /\ job[t].to \in Stage
  BY <1>1, Deciding
<1>3. /\ stageOf[job[t].app] = job[t].seen
      /\ job[t].app \notin refused
      /\ job[t].openings = headcount[job[t].req] - filled[job[t].req]
  BY <1>1 DEF ReadsCurrent, OpeningsLeft
<1> QED
  BY <1>1, <1>2, <1>3

(* The counter stays a count, since the row CHECK stops it at zero.        *)
LEMMA CounterCounts ==
  ASSUME TypeOK, NEW r \in Req, NEW d \in {1, -1}, AddToFilled(r, d)
  PROVE  /\ filled' \in [Req -> Nat] /\ filled'[r] = filled[r] + d
         /\ \A q \in Req : q # r => filled'[q] = filled[q]
         /\ UNCHANGED <<status, headcount>>
<1>1. filled[r] + d \in Nat
  BY DEF AddToFilled, TypeOK
<1> QED
  BY <1>1 DEF AddToFilled, TypeOK

(* A commit of t keeps the invariant whatever it writes into its own rows, *)
(* as long as it leaves no refused application open.                       *)
LEMMA CommitKeeps ==
  ASSUME EngineInv, NEW t \in Tx, pc[t] = "decide", Finish(t, "ok"),
         UNCHANGED <<status, headcount, hired, apps, reqOf>>,
         filled' \in [Req -> Nat], stageOf' \in [App -> Stage],
         \A r \in Req : r # job[t].req => filled'[r] = filled[r],
         \A a \in App : a # job[t].app => stageOf'[a] = stageOf[a],
         \A a \in App : a # job[t].app => (a \in refused' <=> a \in refused),
         refused' \subseteq App, closed' \subseteq App, RefusedAreClosed'
  PROVE  EngineInv'
<1> USE DEF EngineInv
<1>1. "ok" \in Answers
  BY DEF Answers
<1>2. \A u \in Tx : u # t /\ pc[u] = "insert" => job[u].app \notin apps'
  BY DEF ArgumentsKnown
<1>3. /\ pc' \in [Tx -> Steps] /\ job' \in [Tx -> Job \cup {NoJob}]
      /\ answer' \in [Tx -> Answers] /\ lock' \in [Row -> Tx \cup {Free}]
      /\ ArgumentsKnown' /\ InsertsFresh' /\ LocksHeld'
  BY <1>1, <1>2, FinishKeepsTx DEF TxInv
<1>4. TypeOK'
  BY <1>3 DEF TypeOK
<1>5. ReadsCurrent'
  <2> SUFFICES ASSUME NEW u \in Tx, pc'[u] = "decide"
               PROVE  /\ job'[u].found = (stageOf'[job'[u].app] = job'[u].seen)
                      /\ job'[u].gone = (job'[u].app \in refused')
                      /\ job'[u].openings = OpeningsLeft(headcount'[job'[u].req],
                                                         filled'[job'[u].req])
    BY DEF ReadsCurrent, OpeningsLeft
  <2>1. u # t /\ pc[u] = "decide" /\ job'[u] = job[u]
    BY DEF Finish, TypeOK
  <2>2. /\ job[u].app # job[t].app /\ job[u].req # job[t].req
        /\ job[u].app \in App /\ job[u].req \in Req
    BY <2>1, OthersElsewhere, Deciding
  <2> QED
    BY <2>1, <2>2 DEF ReadsCurrent
<1> QED
  BY <1>3, <1>4, <1>5

(* A move, whatever it does to the counter of its requisition.             *)
LEMMA MoveKeeps ==
  ASSUME EngineInv, NEW t \in Tx, Admitted(t, "move"),
         PutInStage(job[t]), Finish(t, "ok"),
         UNCHANGED <<status, headcount, hired>>, filled' \in [Req -> Nat],
         \A r \in Req : r # job[t].req => filled'[r] = filled[r]
  PROVE  EngineInv'
<1>1. /\ pc[t] = "decide" /\ job[t].app \in App /\ job[t].to \in Stage
      /\ job[t].app \notin refused
  BY AdmittedFacts
<1>2. /\ UNCHANGED <<apps, reqOf, refused>>
      /\ stageOf' = [stageOf EXCEPT ![job[t].app] = job[t].to]
      /\ closed' \subseteq closed \cup {job[t].app}
      /\ closed \ {job[t].app} \subseteq closed'
  BY DEF PutInStage
<1>3. /\ stageOf' \in [App -> Stage]
      /\ \A a \in App : a # job[t].app => stageOf'[a] = stageOf[a]
      /\ refused' \subseteq App /\ closed' \subseteq App
  BY <1>1, <1>2 DEF EngineInv, TypeOK
<1>4. RefusedAreClosed'
  BY <1>1, <1>2 DEF EngineInv, RefusedAreClosed
<1> QED
  BY <1>1, <1>2, <1>3, <1>4, CommitKeeps

(* A refusal, likewise.                                                    *)
LEMMA RefusalKeeps ==
  ASSUME EngineInv, NEW t \in Tx, Admitted(t, "refuse"),
         MarkRefused(job[t].app), Finish(t, "ok"),
         UNCHANGED <<status, headcount, hired>>, filled' \in [Req -> Nat],
         \A r \in Req : r # job[t].req => filled'[r] = filled[r]
  PROVE  EngineInv'
<1>1. pc[t] = "decide" /\ job[t].app \in App /\ job[t].app \in apps
  BY AdmittedFacts
<1>2. /\ UNCHANGED <<apps, reqOf, stageOf>>
      /\ refused' = refused \cup {job[t].app} /\ closed' = closed \cup {job[t].app}
  BY DEF MarkRefused
<1>3. /\ stageOf' \in [App -> Stage]
      /\ refused' \subseteq App /\ closed' \subseteq App
  BY <1>1, <1>2 DEF EngineInv, TypeOK
<1>4. RefusedAreClosed'
  BY <1>1, <1>2 DEF EngineInv, RefusedAreClosed
<1> QED
  BY <1>1, <1>2, <1>3, <1>4, CommitKeeps

LEMMA InsertKeeps ==
  ASSUME EngineInv, NEW t \in Tx, InsertApplication(t)
  PROVE  EngineInv'
<1> USE DEF EngineInv
<1>1. /\ pc[t] = "insert" /\ job[t] \in Job /\ job[t].to = Entry
      /\ job[t].app \notin apps
  BY DEF InsertApplication, ArgumentsKnown
<1>2. PICK a \in App, r \in Req : a = job[t].app /\ r = job[t].req
  BY <1>1 DEF Job
<1>3. /\ UNCHANGED <<status, headcount, filled, refused, closed, hired>>
      /\ apps' = apps \cup {a} /\ Finish(t, "ok")
      /\ reqOf' = [reqOf EXCEPT ![a] = r]
      /\ stageOf' = [stageOf EXCEPT ![a] = Entry]
  BY <1>1, <1>2 DEF InsertApplication, reqVars
<1>4. /\ reqOf' \in [App -> Req] /\ stageOf' \in [App -> Stage]
      /\ \A b \in App : b # a => reqOf'[b] = reqOf[b] /\ stageOf'[b] = stageOf[b]
  BY <1>3, StageAssumption DEF TypeOK
<1>5. /\ pc' \in [Tx -> Steps] /\ job' \in [Tx -> Job \cup {NoJob}]
      /\ answer' \in [Tx -> Answers] /\ lock' \in [Row -> Tx \cup {Free}]
      /\ ArgumentsKnown' /\ InsertsFresh' /\ LocksHeld'
  <2>1. "ok" \in Answers
    BY DEF Answers
  <2>2. \A b \in apps : reqOf'[b] = reqOf[b]
    BY <1>1, <1>2, <1>4 DEF TypeOK
  <2>3. \A u \in Tx : u # t /\ pc[u] = "insert" => job[u].app \notin apps'
    BY <1>1, <1>2, <1>3 DEF InsertsFresh, ArgumentsKnown
  <2>4. apps \subseteq apps'
    BY <1>3
  <2> QED
    BY <1>3, <2>1, <2>2, <2>3, <2>4, FinishKeepsTx DEF TxInv
<1>6. TypeOK'
  BY <1>3, <1>4, <1>5 DEF TypeOK
<1>7. RefusedAreClosed'
  BY <1>3 DEF RefusedAreClosed
<1>8. ReadsCurrent'
  <2> SUFFICES ASSUME NEW u \in Tx, pc'[u] = "decide"
               PROVE  /\ job'[u].found = (stageOf'[job'[u].app] = job'[u].seen)
                      /\ job'[u].gone = (job'[u].app \in refused')
                      /\ job'[u].openings = OpeningsLeft(headcount'[job'[u].req],
                                                         filled'[job'[u].req])
    BY DEF ReadsCurrent, OpeningsLeft
  <2>1. u # t /\ pc[u] = "decide" /\ job'[u] = job[u]
    BY <1>3 DEF Finish, TypeOK
  <2>2. job[u].app \in apps /\ job[u].app \in App
    BY <2>1, Deciding
  <2>3. stageOf'[job[u].app] = stageOf[job[u].app]
    BY <2>2, <1>1, <1>2, <1>4
  <2> QED
    BY <1>3, <2>1, <2>3 DEF ReadsCurrent
<1> QED
  BY <1>5, <1>6, <1>7, <1>8

(* Writes to requisition rows that nobody has locked, and to the stages.   *)
LEMMA UnlockedWriteKeeps ==
  ASSUME EngineInv, UNCHANGED <<appVars, lock, txVars>>,
         status' \in [Req -> Statuses], hired' \subseteq Stage,
         headcount' \in [Req -> Nat], filled' \in [Req -> Nat],
         \A r \in Req : lock[r] # Free =>
           headcount'[r] = headcount[r] /\ filled'[r] = filled[r]
  PROVE  EngineInv'
<1> USE DEF EngineInv
<1>1. UNCHANGED <<apps, reqOf, stageOf, refused, closed, lock, pc, job, answer>>
  BY DEF appVars, txVars
<1>2. TypeOK'
  BY <1>1 DEF TypeOK
<1>3. RefusedAreClosed' /\ ArgumentsKnown' /\ InsertsFresh' /\ LocksHeld'
  BY <1>1 DEF RefusedAreClosed, ArgumentsKnown, InsertsFresh, LocksHeld
<1>4. ReadsCurrent'
  <2> SUFFICES ASSUME NEW u \in Tx, pc[u] = "decide"
               PROVE  OpeningsLeft(headcount'[job[u].req], filled'[job[u].req])
                        = OpeningsLeft(headcount[job[u].req], filled[job[u].req])
    BY <1>1 DEF ReadsCurrent, OpeningsLeft
  <2>1. job[u].req \in Req /\ lock[job[u].req] = u /\ u # Free
    BY Deciding, IdAssumption
  <2> QED
    BY <2>1
<1> QED
  BY <1>2, <1>3, <1>4

-----------------------------------------------------------------------------
(* Every step of the engine keeps the invariant.                           *)

(* The steps that write rows of applications or counters.                  *)
Commits(t) ==
  \/ MoveIntoHired(t) \/ MoveOutOfHired(t) \/ MoveSideways(t)
  \/ RefuseOngoing(t) \/ RefuseHired(t) \/ InsertApplication(t)

LEMMA CommitsKeep ==
  ASSUME EngineInv, NEW t \in Tx, Commits(t)
  PROVE  EngineInv'
<1>1. ASSUME NEW verb, Admitted(t, verb), UNCHANGED reqVars
      PROVE  /\ UNCHANGED <<status, headcount>> /\ filled' \in [Req -> Nat]
             /\ \A r \in Req : r # job[t].req => filled'[r] = filled[r]
  BY <1>1 DEF EngineInv, TypeOK, reqVars
<1>2. ASSUME NEW verb, Admitted(t, verb), NEW d \in {1, -1}, AddToFilled(job[t].req, d)
      PROVE  /\ UNCHANGED <<status, headcount>> /\ filled' \in [Req -> Nat]
             /\ \A r \in Req : r # job[t].req => filled'[r] = filled[r]
  <2>1. job[t].req \in Req
    BY <1>2, AdmittedFacts
  <2> QED
    BY <1>2, <2>1, CounterCounts DEF EngineInv
<1>3. CASE MoveIntoHired(t) \/ MoveOutOfHired(t)
  <2>1. /\ Admitted(t, "move") /\ PutInStage(job[t]) /\ Finish(t, "ok")
        /\ UNCHANGED hired
        /\ AddToFilled(job[t].req, 1) \/ AddToFilled(job[t].req, -1)
    BY <1>3 DEF MoveIntoHired, MoveOutOfHired, Moves
  <2> QED
    BY <2>1, <1>2, MoveKeeps
<1>4. CASE MoveSideways(t)
  <2>1. /\ Admitted(t, "move") /\ PutInStage(job[t]) /\ Finish(t, "ok")
        /\ UNCHANGED hired /\ UNCHANGED reqVars
    BY <1>4 DEF MoveSideways, Moves
  <2> QED
    BY <2>1, <1>1, MoveKeeps
<1>5. CASE RefuseOngoing(t)
  <2>1. /\ Admitted(t, "refuse") /\ MarkRefused(job[t].app) /\ Finish(t, "ok")
        /\ UNCHANGED hired /\ UNCHANGED reqVars
    BY <1>5 DEF RefuseOngoing
  <2> QED
    BY <2>1, <1>1, RefusalKeeps
<1>6. CASE RefuseHired(t)
  <2>1. /\ Admitted(t, "refuse") /\ MarkRefused(job[t].app) /\ Finish(t, "ok")
        /\ UNCHANGED hired /\ AddToFilled(job[t].req, -1)
    BY <1>6 DEF RefuseHired
  <2> QED
    BY <2>1, <1>2, RefusalKeeps
<1> QED
  BY <1>3, <1>4, <1>5, <1>6, InsertKeeps DEF Commits

(* The requisition's own verbs take the lock of the row they write.        *)
LEMMA SetStatusKeeps ==
  ASSUME EngineInv, NEW r \in Req, NEW to \in Statuses, SetStatus(r, to)
  PROVE  EngineInv'
<1>1. /\ UNCHANGED <<headcount, filled, appVars, hired, lock, txVars>>
      /\ status' = [status EXCEPT ![r] = to]
  BY DEF SetStatus
<1>2. /\ status' \in [Req -> Statuses] /\ hired' \subseteq Stage
      /\ headcount' \in [Req -> Nat] /\ filled' \in [Req -> Nat]
  BY <1>1 DEF EngineInv, TypeOK
<1> QED
  BY <1>1, <1>2, UnlockedWriteKeeps

LEMMA StutterKeeps ==
  ASSUME EngineInv, UNCHANGED vars
  PROVE  EngineInv'
<1>1. UNCHANGED <<status, headcount, filled, appVars, hired, lock, txVars>>
  BY DEF vars, reqVars
<1>2. /\ status' \in [Req -> Statuses] /\ hired' \subseteq Stage
      /\ headcount' \in [Req -> Nat] /\ filled' \in [Req -> Nat]
  BY <1>1 DEF EngineInv, TypeOK
<1> QED
  BY <1>1, <1>2, UnlockedWriteKeeps

LEMMA NextKeeps ==
  ASSUME EngineInv, [Next]_vars
  PROVE  EngineInv'
<1>1. ASSUME NEW t \in Tx, NEW a \in App, NEW s \in Stage, StartMove(t, a, s)
      PROVE  EngineInv'
  BY <1>1, StartVerbKeeps DEF StartMove
<1>2. ASSUME NEW t \in Tx, NEW a \in App, StartRefuse(t, a)
      PROVE  EngineInv'
  <2>1. stageOf[a] \in Stage
    BY DEF EngineInv, TypeOK
  <2> QED
    BY <1>2, <2>1, StartVerbKeeps DEF StartRefuse
<1>3. ASSUME NEW t \in Tx, NEW a \in App, NEW r \in Req, StartCreate(t, a, r)
      PROVE  EngineInv'
  BY <1>3, StartCreateKeeps
<1>4. ASSUME NEW t \in Tx, NEW ans \in Answers, Rollback(t, ans)
      PROVE  EngineInv'
  BY <1>4, RollbackKeeps
<1>5. ASSUME NEW t \in Tx, Abort(t)
      PROVE  EngineInv'
  BY <1>4, <1>5 DEF Abort, Answers
<1>6. ASSUME NEW t \in Tx, VerbStep(t)
      PROVE  EngineInv'
  <2>1. CASE LockFirst(t)
    BY <2>1, LockFirstKeeps
  <2>2. CASE LockSecond(t)
    BY <2>2, LockSecondKeeps
  <2>3. CASE RowVanished(t)
    BY <2>3, <1>4 DEF RowVanished, Answers
  <2>4. CASE AlreadyRefused(t)
    BY <2>4, <1>4 DEF AlreadyRefused, Answers
  <2>5. CASE MoveNowhere(t)
    BY <2>5, <1>4 DEF MoveNowhere, Answers
  <2>6. CASE MoveWhenFull(t)
    BY <2>6, <1>4 DEF MoveWhenFull, Answers
  <2>7. CASE Commits(t)
    BY <2>7, CommitsKeep
  <2> QED
    BY <1>6, <2>1, <2>2, <2>3, <2>4, <2>5, <2>6, <2>7 DEF VerbStep, Commits
<1>7. ASSUME NEW r \in Req, NEW v \in LifecycleVerbs, MoveStatus(r, v)
      PROVE  EngineInv'
  <2>1. VerbTo[v] \in Statuses
    BY DEF VerbTo, LifecycleVerbs, Statuses
  <2> QED
    BY <1>7, <2>1, SetStatusKeeps DEF MoveStatus
<1>8. ASSUME NEW r \in Req, ConfirmOpen(r)
      PROVE  EngineInv'
  BY <1>8, SetStatusKeeps DEF ConfirmOpen, Statuses
<1>9. CASE UNCHANGED vars
  BY <1>9, StutterKeeps
<1> QED
  BY <1>1, <1>2, <1>3, <1>5, <1>6, <1>7, <1>8, <1>9 DEF Next

(* Nothing but a commit writes the rows of applications or a counter.      *)
LEMMA OnlyCommitsWrite ==
  ASSUME [Next]_vars
  PROVE  \/ UNCHANGED <<headcount, filled, appVars, hired>>
         \/ \E t \in Tx : Commits(t)
<1>1. CASE \E t \in Tx : VerbStep(t)
  <2> PICK t \in Tx : VerbStep(t)
    BY <1>1
  <2>1. CASE \/ LockFirst(t) \/ LockSecond(t) \/ RowVanished(t)
             \/ AlreadyRefused(t) \/ MoveNowhere(t) \/ MoveWhenFull(t)
    BY <2>1 DEF LockFirst, LockSecond, RowVanished, AlreadyRefused,
                MoveNowhere, MoveWhenFull, Rollback, reqVars
  <2> QED
    BY <2>1 DEF VerbStep, Commits
<1>2. CASE Next /\ ~ \E t \in Tx : VerbStep(t)
  BY <1>2 DEF Next, StartMove, StartRefuse, StartVerb, StartCreate, Abort,
              Rollback, MoveStatus, ConfirmOpen, SetStatus, reqVars
<1>3. CASE UNCHANGED vars
  BY <1>3 DEF vars, reqVars
<1> QED
  BY <1>1, <1>2, <1>3

-----------------------------------------------------------------------------
(* What holds whatever the configuration.                                  *)

(* Between two commits the rows, the locks and what every transaction has  *)
(* read of the rows it locked agree, whichever stages are flagged.         *)
THEOREM EngineConsistent == Spec => []EngineInv
<1>1. Init => EngineInv
  BY InitEngineInv
<1>2. EngineInv /\ [Next]_vars => EngineInv'
  BY NextKeeps
<1> QED
  BY <1>1, <1>2, PTL DEF Spec

LEMMA NoCycle ==
  ASSUME EngineInv
  PROVE  NoLockCycle
<1> SUFFICES ASSUME NEW group \in (SUBSET Tx) \ {{}}
             PROVE  \E t \in group : \A row \in Awaited(t) : lock[row] \notin group
  BY DEF NoLockCycle
<1> USE DEF EngineInv
<1>1. group \subseteq Tx /\ \E t \in Tx : t \in group
  OBVIOUS
<1>2. ASSUME NEW t \in group, pc[t] \in {"idle", "decide"}
      PROVE  \A row \in Awaited(t) : lock[row] \notin group
  BY <1>2 DEF Awaited
<1>3. ASSUME NEW t \in group, pc[t] \in {"lock2", "insert"},
             \A u \in group : pc[u] # "decide"
      PROVE  \A row \in Awaited(t) : lock[row] \notin group
  <2>1. Awaited(t) = {job[t].req} /\ job[t].req \in Req
    BY <1>1, <1>3 DEF Awaited, LockOrder, ArgumentsKnown, Job
  <2>2. \A u \in group : lock[job[t].req] # u
    <3>1. ASSUME NEW u \in group, lock[job[t].req] = u
          PROVE  FALSE
      <4>1. u \in Tx /\ pc[u] # "decide" /\ job[t].req \in Row
        BY <1>1, <1>3, <2>1 DEF Row
      <4>2. pc[u] = "lock2" /\ job[t].req = job[u].app
        BY <3>1, <4>1 DEF LocksHeld
      <4>3. job[u].app \in App
        BY <4>1, <4>2 DEF ArgumentsKnown, Locking, TypeOK
      <4> QED
        BY <2>1, <4>2, <4>3, IdAssumption
    <3> QED
      BY <3>1
  <2> QED
    BY <2>1, <2>2
<1>4. ASSUME NEW t \in group, \A u \in group : pc[u] = "lock1"
      PROVE  \A row \in Awaited(t) : lock[row] \notin group
  <2>1. Awaited(t) = {job[t].app} /\ job[t].app \in Row
    BY <1>1, <1>4 DEF Awaited, LockOrder, ArgumentsKnown, Locking, Row, TypeOK
  <2>2. \A u \in group : lock[job[t].app] # u
    BY <1>1, <1>4, <2>1 DEF LocksHeld
  <2> QED
    BY <2>1, <2>2
<1>5. \A t \in group : pc[t] \in Steps
  BY <1>1 DEF TypeOK
<1> QED
  BY <1>1, <1>2, <1>3, <1>4, <1>5 DEF Steps

(* No group of transactions can wait only for each other's row locks: a    *)
(* requisition row is held only by a transaction that waits for nothing,   *)
(* and one that waits for an application row holds nothing.                *)
THEOREM NoDeadlock == Spec => []NoLockCycle
<1>1. EngineInv => NoLockCycle
  BY NoCycle
<1> QED
  BY <1>1, EngineConsistent, PTL

LEMMA StickyStep ==
  ASSUME EngineInv, [Next]_vars
  PROVE  \A a \in refused : a \in refused' /\ a \in closed'
                            /\ stageOf'[a] = stageOf[a]
<1> SUFFICES ASSUME NEW a \in refused
             PROVE  a \in refused' /\ a \in closed' /\ stageOf'[a] = stageOf[a]
  OBVIOUS
<1>1. a \in closed /\ a \in apps /\ a \in App /\ stageOf \in [App -> Stage]
  BY DEF EngineInv, RefusedAreClosed, TypeOK
<1>2. CASE UNCHANGED appVars
  BY <1>1, <1>2 DEF appVars
<1>3. ASSUME NEW t \in Tx, Admitted(t, "move"), PutInStage(job[t])
      PROVE  a \in refused' /\ a \in closed' /\ stageOf'[a] = stageOf[a]
  <2>1. job[t].app # a
    BY <1>3, AdmittedFacts
  <2> QED
    BY <1>1, <1>3, <2>1 DEF PutInStage
<1>4. ASSUME NEW x, MarkRefused(x)
      PROVE  a \in refused' /\ a \in closed' /\ stageOf'[a] = stageOf[a]
  BY <1>1, <1>4 DEF MarkRefused
<1>5. ASSUME NEW t \in Tx, InsertApplication(t)
      PROVE  a \in refused' /\ a \in closed' /\ stageOf'[a] = stageOf[a]
  <2>1. job[t].app # a
    BY <1>1, <1>5 DEF InsertApplication, EngineInv, ArgumentsKnown
  <2> QED
    BY <1>1, <1>5, <2>1 DEF InsertApplication
<1>6. ASSUME NEW t \in Tx, Commits(t)
      PROVE  a \in refused' /\ a \in closed' /\ stageOf'[a] = stageOf[a]
  <2>1. CASE MoveIntoHired(t) \/ MoveOutOfHired(t) \/ MoveSideways(t)
    BY <2>1, <1>3 DEF MoveIntoHired, MoveOutOfHired, MoveSideways, Moves
  <2>2. CASE RefuseOngoing(t) \/ RefuseHired(t)
    BY <2>2, <1>4 DEF RefuseOngoing, RefuseHired
  <2> QED
    BY <1>6, <2>1, <2>2, <1>5 DEF Commits
<1> QED
  BY <1>2, <1>6, OnlyCommitsWrite

(* Nothing moves or reopens a refused application, whatever a concurrent   *)
(* transaction had read before the refusal.                                *)
THEOREM RefusalIsSticky == Spec => RefusalSticky
<1>1. EngineInv /\ [Next]_vars =>
        [\A a \in refused : a \in refused' /\ a \in closed'
                            /\ stageOf'[a] = stageOf[a]]_vars
  BY StickyStep
<1> QED
  BY <1>1, EngineConsistent, PTL DEF Spec, RefusalSticky

-----------------------------------------------------------------------------
(* The same next to the generic writes of requisitions and stages, which   *)
(* break SeatsCounted.                                                     *)

(* A form carries what was once a row.                                     *)
FormsTyped ==
  form \in [Clerk -> {NoForm} \cup [req : Req, headcount : Nat, filled : Nat]]

MasterInv == EngineInv /\ FormsTyped

LEMMA SaveFormKeeps ==
  ASSUME MasterInv, NEW c \in Clerk, NEW h \in Nat, SaveForm(c, h)
  PROVE  MasterInv'
<1> USE DEF MasterInv
<1>1. PICK r \in Req, n \in Nat : r = form[c].req /\ n = form[c].filled
                                  /\ form[c] \in [req : Req, headcount : Nat, filled : Nat]
  BY DEF SaveForm, FormsTyped
<1>2. /\ lock[r] = Free
      /\ headcount' = [headcount EXCEPT ![r] = h]
      /\ filled' = [filled EXCEPT ![r] = n]
      /\ form' = [form EXCEPT ![c] = NoForm]
      /\ UNCHANGED <<status, appVars, hired, lock, txVars>>
  BY <1>1 DEF SaveForm
<1>3. /\ headcount' \in [Req -> Nat] /\ filled' \in [Req -> Nat]
      /\ status' \in [Req -> Statuses] /\ hired' \subseteq Stage
      /\ \A q \in Req : lock[q] # Free =>
           headcount'[q] = headcount[q] /\ filled'[q] = filled[q]
  BY <1>2 DEF EngineInv, TypeOK
<1>4. EngineInv'
  BY <1>2, <1>3, UnlockedWriteKeeps
<1>5. FormsTyped'
  BY <1>2 DEF FormsTyped
<1> QED
  BY <1>4, <1>5

LEMMA LoadFormKeeps ==
  ASSUME MasterInv, NEW c \in Clerk, NEW r \in Req, LoadForm(c, r)
  PROVE  MasterInv'
<1>1. EngineInv'
  BY StutterKeeps DEF LoadForm, MasterInv
<1>2. FormsTyped'
  BY DEF LoadForm, MasterInv, FormsTyped, EngineInv, TypeOK
<1> QED
  BY <1>1, <1>2 DEF MasterInv

LEMMA FlipStageKeeps ==
  ASSUME MasterInv, NEW s \in Stage, FlipStage(s)
  PROVE  MasterInv'
<1>1. UNCHANGED <<status, headcount, filled, appVars, lock, txVars, form>>
  BY DEF FlipStage, reqVars
<1>2. /\ status' \in [Req -> Statuses] /\ hired' \subseteq Stage
      /\ headcount' \in [Req -> Nat] /\ filled' \in [Req -> Nat]
  BY <1>1 DEF FlipStage, MasterInv, EngineInv, TypeOK
<1>3. EngineInv'
  BY <1>1, <1>2, UnlockedWriteKeeps DEF MasterInv
<1> QED
  BY <1>1, <1>3 DEF MasterInv, FormsTyped

LEMMA MasterStep ==
  ASSUME MaxHeadcount \in Nat, MasterInv, [Engine \/ Forms \/ Flips]_masterVars
  PROVE  MasterInv' /\ ([Next]_vars \/ UNCHANGED appVars)
<1>1. CASE Engine
  BY <1>1, NextKeeps DEF Engine, MasterInv, FormsTyped
<1>2. CASE Forms
  <2>1. ASSUME NEW c \in Clerk, NEW r \in Req, LoadForm(c, r)
        PROVE  MasterInv' /\ UNCHANGED appVars
    BY <2>1, LoadFormKeeps DEF LoadForm, vars
  <2>2. ASSUME NEW c \in Clerk, NEW h \in 0..MaxHeadcount, SaveForm(c, h)
        PROVE  MasterInv' /\ UNCHANGED appVars
    <3>1. h \in Nat
      OBVIOUS
    <3>2. UNCHANGED appVars
      BY <2>2 DEF SaveForm
    <3> QED
      BY <2>2, <3>1, <3>2, SaveFormKeeps
  <2> QED
    BY <1>2, <2>1, <2>2 DEF Forms
<1>3. CASE Flips
  BY <1>3, FlipStageKeeps DEF Flips, FlipStage
<1>4. CASE UNCHANGED masterVars
  BY <1>4, StutterKeeps DEF masterVars, MasterInv, FormsTyped
<1> QED
  BY <1>1, <1>2, <1>3, <1>4

LEMMA MasterInvariance == MaxHeadcount \in Nat => (MasterSpec => []MasterInv)
<1>1. MasterInit => MasterInv
  BY InitEngineInv DEF MasterInit, MasterInv, FormsTyped
<1>2. MaxHeadcount \in Nat /\ MasterInv /\ [Engine \/ Forms \/ Flips]_masterVars
        => MasterInv'
  BY MasterStep
<1>3. MaxHeadcount \in Nat => [](MaxHeadcount \in Nat)
  <2>1. MaxHeadcount \in Nat => (MaxHeadcount \in Nat)'
    OBVIOUS
  <2> QED
    BY <2>1, PTL
<1> QED
  BY <1>1, <1>2, <1>3, PTL DEF MasterSpec

(* Stale forms that overwrite counters and flips of is_hired may falsify   *)
(* the count, but the locks of the verbs still never close a cycle.        *)
THEOREM NoDeadlockWhileEdited ==
  MaxHeadcount \in Nat => (MasterSpec => []NoLockCycle)
<1>1. MasterInv => NoLockCycle
  BY NoCycle DEF MasterInv
<1> QED
  BY <1>1, MasterInvariance, PTL

(* Nor does editing flags and counters under a running verb let it move or *)
(* reopen a refused application.                                           *)
THEOREM RefusalStickyWhileEdited ==
  MaxHeadcount \in Nat => (MasterSpec => RefusalSticky)
<1>1. MaxHeadcount \in Nat /\ MasterInv /\ [Engine \/ Forms \/ Flips]_masterVars =>
        [\A a \in refused : a \in refused' /\ a \in closed'
                            /\ stageOf'[a] = stageOf[a]]_vars
  <2> SUFFICES ASSUME MaxHeadcount \in Nat, MasterInv,
                      [Engine \/ Forms \/ Flips]_masterVars
               PROVE  \A a \in refused : a \in refused' /\ a \in closed'
                                         /\ stageOf'[a] = stageOf[a]
    OBVIOUS
  <2>1. CASE [Next]_vars
    BY <2>1, StickyStep DEF MasterInv
  <2>2. CASE UNCHANGED appVars
    BY <2>2 DEF appVars, MasterInv, EngineInv, RefusedAreClosed
  <2> QED
    BY <2>1, <2>2, MasterStep
<1>2. MaxHeadcount \in Nat => [](MaxHeadcount \in Nat)
  <2>1. MaxHeadcount \in Nat => (MaxHeadcount \in Nat)'
    OBVIOUS
  <2> QED
    BY <2>1, PTL
<1> QED
  BY <1>1, <1>2, MasterInvariance, PTL DEF MasterSpec, RefusalSticky

-----------------------------------------------------------------------------
(* What needs that the entry stage is not a hired one.                     *)

(* The applications on a requisition's seats are finitely many.            *)
LEMMA SeatedFinite ==
  ASSUME TypeOK, NEW r \in Req
  PROVE  IsFiniteSet(Seated(r))
<1>1. Seated(r) \subseteq App
  BY DEF Seated, TypeOK
<1> QED
  BY <1>1, FS_Subset, IdAssumption

LEMMA InitIInv ==
  ASSUME Init
  PROVE  IInv
<1> USE DEF Init
<1>1. EngineInv
  BY InitEngineInv
<1>2. ConfigurationFixed /\ FlagsCurrent /\ ClosedMatchesPipeline
  BY DEF ConfigurationFixed, FlagsCurrent, Locking, ClosedMatchesPipeline
<1>3. SeatsCounted
  <2>1. \A r \in Req : Seated(r) = {}
    BY DEF Seated
  <2> QED
    BY <2>1, FS_EmptySet DEF SeatsCounted
<1>4. FilledWithinHeadcount
  BY RequisitionAssumption DEF FilledWithinHeadcount
<1> QED
  BY <1>1, <1>2, <1>3, <1>4 DEF IInv

(* No verb writes the stages or a headcount, and none closes an            *)
(* application that is not there.                                          *)
LEMMA ConfigurationKept ==
  ASSUME IInv, [Next]_vars
  PROVE  ConfigurationFixed' /\ UNCHANGED hired
<1> USE DEF IInv
<1>1. CASE UNCHANGED <<headcount, filled, appVars, hired>>
  BY <1>1 DEF ConfigurationFixed, appVars
<1>2. ASSUME NEW t \in Tx, Commits(t)
      PROVE  ConfigurationFixed' /\ UNCHANGED hired
  <2>1. CASE MoveIntoHired(t) \/ MoveOutOfHired(t) \/ MoveSideways(t)
    <3>1. Admitted(t, "move") /\ PutInStage(job[t]) /\ UNCHANGED <<headcount, hired>>
      BY <2>1 DEF MoveIntoHired, MoveOutOfHired, MoveSideways, Moves,
                  AddToFilled, reqVars
    <3>2. job[t].app \in apps
      BY <3>1, AdmittedFacts
    <3> QED
      BY <3>1, <3>2 DEF PutInStage, ConfigurationFixed
  <2>2. CASE RefuseOngoing(t) \/ RefuseHired(t)
    <3>1. Admitted(t, "refuse") /\ MarkRefused(job[t].app) /\ UNCHANGED <<headcount, hired>>
      BY <2>2 DEF RefuseOngoing, RefuseHired, AddToFilled, reqVars
    <3>2. job[t].app \in apps
      BY <3>1, AdmittedFacts
    <3> QED
      BY <3>1, <3>2 DEF MarkRefused, ConfigurationFixed
  <2>3. CASE InsertApplication(t)
    BY <2>3 DEF InsertApplication, ConfigurationFixed, reqVars
  <2> QED
    BY <1>2, <2>1, <2>2, <2>3 DEF Commits
<1> QED
  BY <1>1, <1>2, OnlyCommitsWrite

(* A transaction reads the flags in its first statement, and keeps them.   *)
LEMMA FlagsKept ==
  ASSUME IInv, [Next]_vars
  PROVE  FlagsCurrent'
<1> USE DEF IInv, EngineInv
<1>0. hired' = hired
  BY ConfigurationKept
<1>1. ASSUME NEW t \in Tx, NEW ans, Finish(t, ans)
      PROVE  FlagsCurrent'
  BY <1>0, <1>1 DEF Finish, FlagsCurrent, Locking, TypeOK
<1>2. ASSUME NEW t \in Tx, NEW a \in App, NEW s \in Stage, NEW verb,
             StartVerb(t, verb, a, s)
      PROVE  FlagsCurrent'
  <2>1. \A u \in Tx : u # t => pc'[u] = pc[u] /\ job'[u] = job[u]
    BY <1>2 DEF StartVerb, Begin, TypeOK
  <2>2. /\ job'[t].curHired = (job'[t].seen \in hired)
        /\ job'[t].tgtHired = (job'[t].to \in hired)
    BY <1>2 DEF StartVerb, Begin, Joined, TypeOK
  <2> QED
    BY <1>0, <2>1, <2>2 DEF FlagsCurrent
<1>3. ASSUME NEW t \in Tx, NEW a \in App, NEW r \in Req, StartCreate(t, a, r)
      PROVE  FlagsCurrent'
  <2>1. \A u \in Tx : u # t => pc'[u] = pc[u] /\ job'[u] = job[u]
    BY <1>3 DEF StartCreate, Begin, TypeOK
  <2>2. pc'[t] = "insert"
    BY <1>3 DEF StartCreate, Begin, TypeOK
  <2> QED
    BY <1>0, <2>1, <2>2 DEF FlagsCurrent, Locking
<1>4. ASSUME NEW t \in Tx, LockFirst(t)
      PROVE  FlagsCurrent'
  BY <1>0, <1>4 DEF LockFirst, FlagsCurrent, Locking, TypeOK
<1>5. ASSUME NEW t \in Tx, LockSecond(t)
      PROVE  FlagsCurrent'
  <2>1. \A u \in Tx : u # t => pc'[u] = pc[u] /\ job'[u] = job[u]
    BY <1>5 DEF LockSecond, TypeOK
  <2>2. pc[t] \in Locking
    BY <1>5 DEF LockSecond, Locking
  <2>3. /\ job'[t].seen = job[t].seen /\ job'[t].curHired = job[t].curHired
        /\ job'[t].to = job[t].to /\ job'[t].tgtHired = job[t].tgtHired
    BY <1>5 DEF LockSecond, Recheck, Joined, TypeOK
  <2> QED
    BY <1>0, <2>1, <2>2, <2>3 DEF FlagsCurrent
<1>6. ASSUME UNCHANGED <<pc, job>>
      PROVE  FlagsCurrent'
  BY <1>0, <1>6 DEF FlagsCurrent
<1>7. CASE \E t \in Tx : VerbStep(t)
  <2> PICK t \in Tx : VerbStep(t)
    BY <1>7
  <2>1. LockFirst(t) \/ LockSecond(t) \/ \E ans : Finish(t, ans)
    BY DEF VerbStep, RowVanished, AlreadyRefused, MoveNowhere, MoveIntoHired,
           MoveWhenFull, MoveOutOfHired, MoveSideways, RefuseOngoing,
           RefuseHired, InsertApplication, Rollback
  <2> QED
    BY <2>1, <1>1, <1>4, <1>5
<1>8. CASE Next /\ ~ \E t \in Tx : VerbStep(t)
  <2>1. ASSUME NEW t \in Tx, NEW a \in App, StartRefuse(t, a)
        PROVE  FlagsCurrent'
    <3>1. stageOf[a] \in Stage
      BY DEF TypeOK
    <3> QED
      BY <2>1, <3>1, <1>2 DEF StartRefuse
  <2> QED
    BY <1>8, <2>1, <1>1, <1>2, <1>3, <1>6 DEF Next, StartMove, Abort, Rollback,
       MoveStatus, ConfirmOpen, SetStatus, txVars
<1>9. CASE UNCHANGED vars
  BY <1>9, <1>6 DEF vars, txVars
<1> QED
  BY <1>7, <1>8, <1>9

(* What an admitted verb knows of the stages: the flags it decides on are  *)
(* those of the rows.                                                      *)
LEMMA AdmittedFlags ==
  ASSUME IInv, NEW t \in Tx, NEW verb, Admitted(t, verb)
  PROVE  /\ (job[t].curHired <=> stageOf[job[t].app] \in hired)
         /\ (job[t].tgtHired <=> job[t].to \in hired)
<1>1. pc[t] = "decide" /\ stageOf[job[t].app] = job[t].seen
  BY AdmittedFacts DEF IInv
<1> QED
  BY <1>1 DEF IInv, FlagsCurrent, Locking

(* Rows that did not change keep their meaning.                            *)
LEMMA SameRows ==
  ASSUME UNCHANGED <<headcount, filled, appVars, hired>>
  PROVE  /\ \A r \in Req : Seated(r)' = Seated(r)
         /\ SeatsCounted => SeatsCounted'
         /\ FilledWithinHeadcount => FilledWithinHeadcount'
         /\ ClosedMatchesPipeline => ClosedMatchesPipeline'
         /\ UNCHANGED Promise!vars
<1>1. \A a : PipelineStatus(a)' = PipelineStatus(a)
  BY DEF PipelineStatus, appVars
<1>2. \A r \in Req : Seated(r)' = Seated(r)
  BY <1>1 DEF Seated, appVars
<1>3. UNCHANGED Promise!vars
  BY <1>2 DEF Promise!vars, appVars
<1> QED
  BY <1>1, <1>2, <1>3 DEF appVars, SeatsCounted, FilledWithinHeadcount,
                          ClosedMatchesPipeline

-----------------------------------------------------------------------------
(* The commits, and what they do to the seats.                             *)

(* The counters and the closing marks agree with the rows.                 *)
Accounts == SeatsCounted /\ FilledWithinHeadcount /\ ClosedMatchesPipeline

(* A row of the applications that gains a seat, loses one, or neither.     *)
LEMMA SeatGained ==
  ASSUME IInv, NEW a \in App, NEW r \in Req, a \notin Seated(r),
         Seated(r)' = Seated(r) \cup {a},
         \A q \in Req : q # r => Seated(q)' = Seated(q),
         filled' = [filled EXCEPT ![r] = @ + 1]
  PROVE  SeatsCounted'
<1> USE DEF IInv, EngineInv
<1>1. filled' \in [Req -> Nat] /\ filled'[r] = filled[r] + 1
      /\ \A q \in Req : q # r => filled'[q] = filled[q]
  BY DEF TypeOK
<1>2. Cardinality(Seated(r)') = Cardinality(Seated(r)) + 1
  BY SeatedFinite, FS_AddElement
<1> QED
  BY <1>1, <1>2 DEF SeatsCounted

LEMMA SeatLost ==
  ASSUME IInv, NEW a \in App, NEW r \in Req, a \in Seated(r),
         Seated(r)' = Seated(r) \ {a},
         \A q \in Req : q # r => Seated(q)' = Seated(q),
         filled' = [filled EXCEPT ![r] = @ + (-1)]
  PROVE  SeatsCounted' /\ filled' \in [Req -> Nat]
<1> USE DEF IInv, EngineInv
<1>1. IsFiniteSet(Seated(r))
  BY SeatedFinite
<1>2. Cardinality(Seated(r)') = Cardinality(Seated(r)) - 1
  BY <1>1, FS_RemoveElement
<1>3. filled'[r] = filled[r] - 1 /\ \A q \in Req : q # r => filled'[q] = filled[q]
  BY DEF TypeOK
<1>4. Cardinality(Seated(r)') \in Nat
  BY <1>1, FS_RemoveElement, FS_CardinalityType
<1>5. filled'[r] \in Nat
  BY <1>2, <1>3, <1>4 DEF SeatsCounted
<1>6. filled' \in [Req -> Nat]
  BY <1>5 DEF TypeOK
<1> QED
  BY <1>2, <1>3, <1>6 DEF SeatsCounted

(* The abstract specification counts seats as this one does.               *)
LEMMA SameCardinality ==
  ASSUME NEW S
  PROVE  Promise!Cardinality(S) = Cardinality(S)
BY DEF Promise!Cardinality, Cardinality

LEMMA MoveIntoHiredSeats ==
  ASSUME IInv, NEW t \in Tx, MoveIntoHired(t)
  PROVE  Accounts' /\ \E a \in App, r \in Req : Promise!TakeSeat(a, r)
<1> USE DEF IInv, EngineInv
<1>a. Admitted(t, "move")
  BY DEF MoveIntoHired, Moves
<1>b. PICK a \in App, r \in Req : a = job[t].app /\ r = job[t].req
  BY <1>a, AdmittedFacts
<1> USE <1>b
<1>1. /\ Admitted(t, "move") /\ EntersHired(job[t]) /\ job[t].openings > 0
      /\ AddToFilled(r, 1) /\ PutInStage(job[t]) /\ Finish(t, "ok")
      /\ UNCHANGED hired
  BY DEF MoveIntoHired, Moves
<1>2. /\ pc[t] = "decide" /\ a \in apps /\ a \in App /\ r = reqOf[a] /\ r \in Req
      /\ job[t].to \in Stage /\ a \notin refused
      /\ stageOf[a] \notin hired /\ job[t].to \in hired /\ job[t].tgtHired
      /\ filled[r] < headcount[r]
  <2>1. job[t].openings = headcount[r] - filled[r] /\ r \in Req
    BY <1>1, AdmittedFacts
  <2>2. filled[r] < headcount[r]
    BY <1>1, <2>1 DEF TypeOK
  <2> QED
    BY <1>1, <2>2, AdmittedFacts, AdmittedFlags DEF EntersHired
<1>3. /\ UNCHANGED <<status, headcount, hired, apps, reqOf, refused>>
      /\ stageOf' = [stageOf EXCEPT ![a] = job[t].to]
      /\ closed' = closed \cup {a}
      /\ filled' = [filled EXCEPT ![r] = @ + 1]
  BY <1>1, <1>2 DEF PutInStage, AddToFilled
<1>4. /\ filled' \in [Req -> Nat] /\ stageOf' \in [App -> Stage]
      /\ \A q \in Req : q # r => filled'[q] = filled[q]
      /\ filled'[r] = filled[r] + 1
      /\ \A b \in App : b # a => stageOf'[b] = stageOf[b]
      /\ stageOf'[a] = job[t].to
  BY <1>2, <1>3 DEF TypeOK
<1>6. \A b \in App : PipelineStatus(b)' = IF b = a THEN "hired" ELSE PipelineStatus(b)
  BY <1>2, <1>3, <1>4 DEF PipelineStatus
<1>7. SeatsCounted'
  <2>1. a \notin Seated(r)
    BY <1>2 DEF Seated, PipelineStatus
  <2>2. Seated(r)' = Seated(r) \cup {a}
    BY <1>2, <1>3, <1>6 DEF Seated, TypeOK
  <2>3. \A q \in Req : q # r => Seated(q)' = Seated(q)
    BY <1>2, <1>3, <1>6 DEF Seated, TypeOK
  <2> QED
    BY <1>2, <1>3, <2>1, <2>2, <2>3, SeatGained
<1>8. FilledWithinHeadcount'
  BY <1>2, <1>3, <1>4 DEF FilledWithinHeadcount, TypeOK
<1>9. ClosedMatchesPipeline'
  BY <1>3, <1>6 DEF ClosedMatchesPipeline, TypeOK
<1>10. Promise!TakeSeat(a, r)
  <2>1. \A q \in Req : a \notin Seated(q)
    BY <1>2 DEF Seated, PipelineStatus
  <2>2. Cardinality(Seated(r)) < Seats[r]
    BY <1>2 DEF SeatsCounted, ConfigurationFixed
  <2>3. /\ Seated(r)' = Seated(r) \cup {a}
        /\ \A q \in Req : q # r => Seated(q)' = Seated(q)
    BY <1>2, <1>3, <1>6 DEF Seated, TypeOK
  <2>4. [q \in Req |-> Seated(q)]' =
          [[q \in Req |-> Seated(q)] EXCEPT ![r] = @ \cup {a}]
    BY <2>3
  <2>5. a \notin refused /\ refused' = refused
    BY <1>2, <1>3
  <2>6. \A q \in Req : a \notin [x \in Req |-> Seated(x)][q]
    BY <2>1
  <2>7. Promise!Cardinality([x \in Req |-> Seated(x)][r]) < Seats[r]
    BY <2>2, SameCardinality
  <2> QED
    BY <2>4, <2>5, <2>6, <2>7 DEF Promise!TakeSeat
<1> QED
  BY <1>7, <1>8, <1>9, <1>10 DEF Accounts

LEMMA MoveOutOfHiredFrees ==
  ASSUME IInv, NEW t \in Tx, MoveOutOfHired(t)
  PROVE  Accounts' /\ \E a \in App, r \in Req : Promise!GiveBackSeat(a, r)
<1> USE DEF IInv, EngineInv
<1>a. Admitted(t, "move")
  BY DEF MoveOutOfHired, Moves
<1>b. PICK a \in App, r \in Req : a = job[t].app /\ r = job[t].req
  BY <1>a, AdmittedFacts
<1> USE <1>b
<1>1. /\ Admitted(t, "move") /\ LeavesHired(job[t])
      /\ AddToFilled(r, -1) /\ PutInStage(job[t]) /\ Finish(t, "ok")
      /\ UNCHANGED hired
  BY DEF MoveOutOfHired, Moves
<1>2. /\ pc[t] = "decide" /\ a \in apps /\ a \in App /\ r = reqOf[a] /\ r \in Req
      /\ job[t].to \in Stage /\ a \notin refused
      /\ stageOf[a] \in hired /\ job[t].to \notin hired /\ ~job[t].tgtHired
  BY <1>1, AdmittedFacts, AdmittedFlags DEF LeavesHired
<1>3. /\ UNCHANGED <<status, headcount, hired, apps, reqOf, refused>>
      /\ stageOf' = [stageOf EXCEPT ![a] = job[t].to]
      /\ closed' = closed \ {a}
      /\ filled' = [filled EXCEPT ![r] = @ + (-1)]
  BY <1>1, <1>2 DEF PutInStage, AddToFilled
<1>4. /\ stageOf' \in [App -> Stage]
      /\ \A q \in Req : q # r => filled'[q] = filled[q]
      /\ filled'[r] = filled[r] - 1
      /\ \A b \in App : b # a => stageOf'[b] = stageOf[b]
      /\ stageOf'[a] = job[t].to
  BY <1>2, <1>3 DEF TypeOK
<1>5. \A b \in App : PipelineStatus(b)' = IF b = a THEN "ongoing" ELSE PipelineStatus(b)
  BY <1>2, <1>3, <1>4 DEF PipelineStatus
<1>6. SeatsCounted' /\ filled' \in [Req -> Nat]
  <2>1. a \in Seated(r)
    BY <1>2 DEF Seated, PipelineStatus
  <2>2. Seated(r)' = Seated(r) \ {a}
    BY <1>2, <1>3, <1>5 DEF Seated, TypeOK
  <2>3. \A q \in Req : q # r => Seated(q)' = Seated(q)
    BY <1>2, <1>3, <1>5 DEF Seated, TypeOK
  <2> QED
    BY <1>2, <1>3, <2>1, <2>2, <2>3, SeatLost
<1>8. FilledWithinHeadcount'
  BY <1>2, <1>3, <1>4 DEF FilledWithinHeadcount, TypeOK
<1>9. ClosedMatchesPipeline'
  BY <1>3, <1>5 DEF ClosedMatchesPipeline, TypeOK
<1>10. Promise!GiveBackSeat(a, r)
  <2>1. a \in Seated(r)
    BY <1>2 DEF Seated, PipelineStatus
  <2>2. /\ Seated(r)' = Seated(r) \ {a}
        /\ \A q \in Req : q # r => Seated(q)' = Seated(q)
    BY <1>2, <1>3, <1>5 DEF Seated, TypeOK
  <2> QED
    BY <1>3, <2>1, <2>2 DEF Promise!GiveBackSeat
<1> QED
  BY <1>6, <1>8, <1>9, <1>10 DEF Accounts

LEMMA MoveSidewaysSeatsNobody ==
  ASSUME IInv, NEW t \in Tx, MoveSideways(t)
  PROVE  Accounts' /\ UNCHANGED Promise!vars
<1> USE DEF IInv, EngineInv
<1>a. Admitted(t, "move")
  BY DEF MoveSideways, Moves
<1>b. PICK a \in App, r \in Req : a = job[t].app /\ r = job[t].req
  BY <1>a, AdmittedFacts
<1> USE <1>b
<1>1. /\ Admitted(t, "move") /\ ~EntersHired(job[t]) /\ ~LeavesHired(job[t])
      /\ PutInStage(job[t]) /\ Finish(t, "ok") /\ UNCHANGED <<reqVars, hired>>
  BY DEF MoveSideways, Moves
<1>2. /\ pc[t] = "decide" /\ a \in apps /\ a \in App /\ r = reqOf[a] /\ r \in Req
      /\ job[t].to \in Stage /\ a \notin refused
      /\ (stageOf[a] \in hired <=> job[t].to \in hired)
      /\ (job[t].tgtHired <=> job[t].to \in hired)
  BY <1>1, AdmittedFacts, AdmittedFlags DEF EntersHired, LeavesHired
<1>3. /\ UNCHANGED <<status, headcount, filled, hired, apps, reqOf, refused>>
      /\ stageOf' = [stageOf EXCEPT ![a] = job[t].to]
      /\ closed' = IF job[t].to \in hired THEN closed \cup {a} ELSE closed \ {a}
  BY <1>1, <1>2 DEF PutInStage, reqVars
<1>4. /\ stageOf' \in [App -> Stage] /\ filled' \in [Req -> Nat]
      /\ \A b \in App : b # a => stageOf'[b] = stageOf[b]
      /\ stageOf'[a] = job[t].to
  BY <1>2, <1>3 DEF TypeOK
<1>6. \A b \in App : PipelineStatus(b)' = PipelineStatus(b)
  BY <1>2, <1>3, <1>4 DEF PipelineStatus
<1>7. SeatsCounted' /\ FilledWithinHeadcount'
  <2>1. \A q \in Req : Seated(q)' = Seated(q)
    BY <1>3, <1>6 DEF Seated, TypeOK
  <2> QED
    BY <1>3, <2>1 DEF SeatsCounted, FilledWithinHeadcount
<1>8. ClosedMatchesPipeline'
  <2>1. PipelineStatus(a) # "ongoing" <=> job[t].to \in hired
    BY <1>2 DEF PipelineStatus
  <2> QED
    BY <1>2, <1>3, <1>6, <2>1 DEF ClosedMatchesPipeline, TypeOK
<1>9. UNCHANGED Promise!vars
  <2>1. \A q \in Req : Seated(q)' = Seated(q)
    BY <1>3, <1>6 DEF Seated, TypeOK
  <2> QED
    BY <1>3, <2>1 DEF Promise!vars
<1> QED
  BY <1>7, <1>8, <1>9 DEF Accounts

LEMMA RefuseOngoingBars ==
  ASSUME IInv, NEW t \in Tx, RefuseOngoing(t)
  PROVE  Accounts' /\ \E a \in App : Promise!Bar(a)
<1> USE DEF IInv, EngineInv
<1>a. Admitted(t, "refuse")
  BY DEF RefuseOngoing
<1>b. PICK a \in App, r \in Req : a = job[t].app /\ r = job[t].req
  BY <1>a, AdmittedFacts
<1> USE <1>b
<1>1. /\ Admitted(t, "refuse") /\ ~job[t].curHired
      /\ MarkRefused(a) /\ Finish(t, "ok") /\ UNCHANGED <<reqVars, hired>>
  BY DEF RefuseOngoing
<1>2. /\ pc[t] = "decide" /\ a \in apps /\ a \in App
      /\ a \notin refused /\ stageOf[a] \notin hired
  BY <1>1, AdmittedFacts, AdmittedFlags
<1>3. /\ UNCHANGED <<status, headcount, filled, hired, apps, reqOf, stageOf>>
      /\ refused' = refused \cup {a} /\ closed' = closed \cup {a}
  BY <1>1 DEF MarkRefused, reqVars
<1>4. filled' \in [Req -> Nat] /\ stageOf' \in [App -> Stage]
  BY <1>3 DEF TypeOK
<1>6. \A b \in App : PipelineStatus(b)' = IF b = a THEN "refused" ELSE PipelineStatus(b)
  BY <1>2, <1>3 DEF PipelineStatus
<1>7. SeatsCounted' /\ FilledWithinHeadcount'
  <2>1. \A q \in Req : Seated(q)' = Seated(q)
    BY <1>2, <1>3, <1>6 DEF Seated, TypeOK, PipelineStatus
  <2> QED
    BY <1>3, <2>1 DEF SeatsCounted, FilledWithinHeadcount
<1>8. ClosedMatchesPipeline'
  BY <1>3, <1>6 DEF ClosedMatchesPipeline, TypeOK
<1>9. Promise!Bar(a)
  <2>1. \A q \in Req : Seated(q)' = Seated(q) \ {a}
    BY <1>2, <1>3, <1>6 DEF Seated, TypeOK, PipelineStatus
  <2> QED
    BY <1>2, <1>3, <2>1 DEF Promise!Bar
<1> QED
  BY <1>7, <1>8, <1>9 DEF Accounts

LEMMA RefuseHiredBars ==
  ASSUME IInv, NEW t \in Tx, RefuseHired(t)
  PROVE  Accounts' /\ \E a \in App : Promise!Bar(a)
<1> USE DEF IInv, EngineInv
<1>a. Admitted(t, "refuse")
  BY DEF RefuseHired
<1>b. PICK a \in App, r \in Req : a = job[t].app /\ r = job[t].req
  BY <1>a, AdmittedFacts
<1> USE <1>b
<1>1. /\ Admitted(t, "refuse") /\ job[t].curHired /\ AddToFilled(r, -1)
      /\ MarkRefused(a) /\ Finish(t, "ok") /\ UNCHANGED hired
  BY DEF RefuseHired
<1>2. /\ pc[t] = "decide" /\ a \in apps /\ a \in App /\ r = reqOf[a] /\ r \in Req
      /\ a \notin refused /\ stageOf[a] \in hired
  BY <1>1, AdmittedFacts, AdmittedFlags
<1>3. /\ UNCHANGED <<status, headcount, hired, apps, reqOf, stageOf>>
      /\ refused' = refused \cup {a} /\ closed' = closed \cup {a}
      /\ filled' = [filled EXCEPT ![r] = @ + (-1)]
  BY <1>1 DEF MarkRefused, AddToFilled
<1>4. /\ stageOf' \in [App -> Stage]
      /\ \A q \in Req : q # r => filled'[q] = filled[q]
      /\ filled'[r] = filled[r] - 1
  BY <1>2, <1>3 DEF TypeOK
<1>5. \A b \in App : PipelineStatus(b)' = IF b = a THEN "refused" ELSE PipelineStatus(b)
  BY <1>2, <1>3 DEF PipelineStatus
<1>6. SeatsCounted' /\ filled' \in [Req -> Nat]
  <2>1. a \in Seated(r)
    BY <1>2 DEF Seated, PipelineStatus
  <2>2. Seated(r)' = Seated(r) \ {a}
    BY <1>2, <1>3, <1>5 DEF Seated, TypeOK
  <2>3. \A q \in Req : q # r => Seated(q)' = Seated(q)
    BY <1>2, <1>3, <1>5 DEF Seated, TypeOK
  <2> QED
    BY <1>2, <1>3, <2>1, <2>2, <2>3, SeatLost
<1>8. FilledWithinHeadcount'
  BY <1>2, <1>3, <1>4 DEF FilledWithinHeadcount, TypeOK
<1>9. ClosedMatchesPipeline'
  BY <1>3, <1>5 DEF ClosedMatchesPipeline, TypeOK
<1>10. Promise!Bar(a)
  <2>1. \A q \in Req : Seated(q)' = Seated(q) \ {a}
    BY <1>2, <1>3, <1>5 DEF Seated, TypeOK
  <2> QED
    BY <1>2, <1>3, <2>1 DEF Promise!Bar
<1> QED
  BY <1>6, <1>8, <1>9, <1>10 DEF Accounts

-----------------------------------------------------------------------------
(* An inserted application takes no seat, because the entry stage is not   *)
(* a hired one.                                                            *)

LEMMA InsertTakesNoSeat ==
  ASSUME IInv, EntryNotHired, NEW t \in Tx, InsertApplication(t)
  PROVE  Accounts' /\ UNCHANGED Promise!vars
<1> USE DEF IInv, EngineInv
<1>1. /\ pc[t] = "insert" /\ job[t] \in Job /\ job[t].to = Entry
      /\ job[t].app \notin apps
  BY DEF InsertApplication, ArgumentsKnown
<1>2. PICK a \in App, r \in Req : a = job[t].app /\ r = job[t].req
  BY <1>1 DEF Job
<1>3. /\ UNCHANGED <<status, headcount, filled, refused, closed, hired>>
      /\ apps' = apps \cup {a} /\ Finish(t, "ok")
      /\ reqOf' = [reqOf EXCEPT ![a] = r]
      /\ stageOf' = [stageOf EXCEPT ![a] = Entry]
  BY <1>1, <1>2 DEF InsertApplication, reqVars
<1>4. /\ a \notin apps /\ a \notin refused /\ a \notin closed
      /\ Entry \in Stage /\ Entry \notin hired
  BY <1>1, <1>2, StageAssumption
  DEF ConfigurationFixed, RefusedAreClosed, EntryNotHired
<1>5. /\ reqOf' \in [App -> Req] /\ stageOf' \in [App -> Stage]
      /\ \A b \in App : b # a => reqOf'[b] = reqOf[b] /\ stageOf'[b] = stageOf[b]
      /\ stageOf'[a] = Entry
  BY <1>3, <1>4 DEF TypeOK
<1>6. \A b \in App : PipelineStatus(b)' = IF b = a THEN "ongoing" ELSE PipelineStatus(b)
  BY <1>3, <1>4, <1>5 DEF PipelineStatus
<1>7. SeatsCounted' /\ FilledWithinHeadcount'
  <2>1. \A q \in Req : Seated(q)' = Seated(q)
    BY <1>3, <1>4, <1>5, <1>6 DEF Seated, TypeOK
  <2> QED
    BY <1>3, <2>1 DEF SeatsCounted, FilledWithinHeadcount
<1>8. ClosedMatchesPipeline'
  BY <1>3, <1>4, <1>6 DEF ClosedMatchesPipeline, TypeOK
<1>9. UNCHANGED Promise!vars
  <2>1. \A q \in Req : Seated(q)' = Seated(q)
    BY <1>3, <1>4, <1>5, <1>6 DEF Seated, TypeOK
  <2> QED
    BY <1>3, <2>1 DEF Promise!vars
<1> QED
  BY <1>7, <1>8, <1>9 DEF Accounts

-----------------------------------------------------------------------------
(* Every step of the engine keeps the accounts, and the promise.           *)

LEMMA CommitsAccount ==
  ASSUME IInv, EntryNotHired, NEW t \in Tx, Commits(t)
  PROVE  Accounts' /\ [Promise!Next]_(Promise!vars)
<1>1. CASE MoveIntoHired(t)
  BY <1>1, MoveIntoHiredSeats DEF Promise!Next
<1>2. CASE MoveOutOfHired(t)
  BY <1>2, MoveOutOfHiredFrees DEF Promise!Next
<1>3. CASE MoveSideways(t)
  BY <1>3, MoveSidewaysSeatsNobody
<1>4. CASE RefuseOngoing(t)
  BY <1>4, RefuseOngoingBars DEF Promise!Next
<1>5. CASE RefuseHired(t)
  BY <1>5, RefuseHiredBars DEF Promise!Next
<1>6. CASE InsertApplication(t)
  BY <1>6, InsertTakesNoSeat
<1> QED
  BY <1>1, <1>2, <1>3, <1>4, <1>5, <1>6 DEF Commits

LEMMA StepAccounts ==
  ASSUME IInv, EntryNotHired, [Next]_vars
  PROVE  Accounts' /\ [Promise!Next]_(Promise!vars)
<1>1. CASE UNCHANGED <<headcount, filled, appVars, hired>>
  BY <1>1, SameRows DEF IInv, Accounts
<1> QED
  BY <1>1, CommitsAccount, OnlyCommitsWrite

-----------------------------------------------------------------------------
(* Theorems.                                                               *)

(* The invariant holds in every reachable state of an engine whose entry   *)
(* stage is not a hired one: between two commits of move_stage, refuse and *)
(* create_application the rows, the locks and what every transaction has   *)
(* read agree, and every counter counts the seats.                         *)
THEOREM Invariance == EntryNotHired => (Spec => []IInv)
<1>1. Init => IInv
  BY InitIInv
<1>2. EntryNotHired /\ IInv /\ [Next]_vars => IInv'
  BY NextKeeps, ConfigurationKept, FlagsKept, StepAccounts DEF IInv, Accounts
<1>3. EntryNotHired => [](EntryNotHired)
  <2>1. EntryNotHired => EntryNotHired'
    BY DEF EntryNotHired
  <2> QED
    BY <2>1, PTL
<1> QED
  BY <1>1, <1>2, <1>3, PTL DEF Spec

(* The counter of every requisition equals the number of its applications  *)
(* that sit in a hired stage unrefused.                                    *)
THEOREM CounterIsRight == EntryNotHired => (Spec => []SeatsCounted)
<1>1. IInv => SeatsCounted
  BY DEF IInv
<1> QED
  BY <1>1, Invariance, PTL

(* However many hires race, a requisition never seats more applications    *)
(* than its headcount.                                                     *)
THEOREM NeverOverfilled == EntryNotHired => (Spec => []NoOverfill)
<1>1. IInv => NoOverfill
  BY DEF IInv, SeatsCounted, FilledWithinHeadcount, NoOverfill
<1> QED
  BY <1>1, Invariance, PTL

(* date_closed is set exactly on the applications that are hired or        *)
(* refused.                                                                *)
THEOREM ClosedIsDerived == EntryNotHired => (Spec => []ClosedMatchesPipeline)
<1>1. IInv => ClosedMatchesPipeline
  BY DEF IInv
<1> QED
  BY <1>1, Invariance, PTL

-----------------------------------------------------------------------------
(* A move is turned away only while every seat is taken.                   *)

LEMMA TurnedAwayStep ==
  ASSUME IInv, [Next]_vars,
         NEW t \in Tx, pc[t] = "decide", answer'[t] = "no_open_headcount"
  PROVE  Cardinality(Seated(job[t].req)) >= headcount[job[t].req]
<1> USE DEF IInv, EngineInv
<1>1. answer[t] = "none" /\ job[t] \in Job /\ answer \in [Tx -> Answers]
  BY DEF ArgumentsKnown, TypeOK
<1>2. ASSUME NEW u \in Tx, NEW ans, Finish(u, ans)
      PROVE  u = t /\ ans = "no_open_headcount"
  BY <1>1, <1>2 DEF Finish
<1>3. ASSUME NEW u \in Tx, NEW step, NEW j, Begin(u, step, j)
      PROVE  FALSE
  BY <1>1, <1>3 DEF Begin
<1>4. MoveWhenFull(t)
  <2>1. answer' # answer
    BY <1>1
  <2>2. CASE \E u \in Tx : VerbStep(u)
    <3> PICK u \in Tx : VerbStep(u)
      BY <2>2
    <3>1. ~LockFirst(u) /\ ~LockSecond(u)
      BY <2>1 DEF LockFirst, LockSecond
    <3>2. ~RowVanished(u) /\ ~AlreadyRefused(u) /\ ~MoveNowhere(u)
      BY <1>2 DEF RowVanished, AlreadyRefused, MoveNowhere, Rollback
    <3>3. /\ ~MoveIntoHired(u) /\ ~MoveOutOfHired(u) /\ ~MoveSideways(u)
          /\ ~RefuseOngoing(u) /\ ~RefuseHired(u) /\ ~InsertApplication(u)
      BY <1>2 DEF MoveIntoHired, MoveOutOfHired, MoveSideways, RefuseOngoing,
                  RefuseHired, InsertApplication
    <3>4. MoveWhenFull(u) => u = t
      BY <1>2 DEF MoveWhenFull, Rollback
    <3> QED
      BY <3>1, <3>2, <3>3, <3>4 DEF VerbStep
  <2>3. CASE Next /\ ~ \E u \in Tx : VerbStep(u)
    <3>1. ASSUME NEW u \in Tx, NEW b, NEW x
          PROVE  ~StartMove(u, b, x) /\ ~StartRefuse(u, b) /\ ~StartCreate(u, b, x)
      BY <1>3 DEF StartMove, StartRefuse, StartVerb, StartCreate
    <3>2. ASSUME NEW u \in Tx
          PROVE  ~Abort(u)
      BY <1>2 DEF Abort, Rollback
    <3>3. ASSUME NEW r, NEW v
          PROVE  ~MoveStatus(r, v) /\ ~ConfirmOpen(r)
      BY <2>1 DEF MoveStatus, ConfirmOpen, SetStatus, txVars
    <3> QED
      BY <2>3, <3>1, <3>2, <3>3 DEF Next
  <2>4. CASE UNCHANGED vars
    BY <2>1, <2>4 DEF vars, txVars
  <2> QED
    BY <2>2, <2>3, <2>4
<1>5. job[t].req \in Req /\ job[t].openings = headcount[job[t].req] - filled[job[t].req]
  BY <1>1 DEF ReadsCurrent, OpeningsLeft, Job
<1>6. job[t].openings <= 0
  BY <1>4 DEF MoveWhenFull
<1>7. filled[job[t].req] >= headcount[job[t].req]
  BY <1>5, <1>6 DEF TypeOK
<1> QED
  BY <1>5, <1>7 DEF SeatsCounted

(* No candidate is told "no openings left" on a count that was stale: the  *)
(* counter is read under the row lock.                                     *)
THEOREM TurnedAwayRightly == EntryNotHired => (Spec => TurnedAwayOnlyWhenFull)
<1>1. IInv /\ [Next]_vars =>
        [\A t \in Tx :
           pc[t] = "decide" /\ answer'[t] = "no_open_headcount" =>
             Cardinality(Seated(job[t].req)) >= headcount[job[t].req]]_vars
  BY TurnedAwayStep
<1> QED
  BY <1>1, Invariance, PTL DEF Spec, TurnedAwayOnlyWhenFull

-----------------------------------------------------------------------------
(* The engine implements the promise about seats.                          *)

LEMMA PromiseInit ==
  ASSUME Init
  PROVE  Promise!Init
<1>1. \A r \in Req : Seated(r) = {}
  BY DEF Init, Seated
<1> QED
  BY <1>1 DEF Init, Promise!Init

(* Locks, counters and connections included, the engine does nothing to    *)
(* the seats of a requisition that Vacancy.tla does not allow.             *)
THEOREM ImplementsVacancy == EntryNotHired => (Spec => KeepsVacancyPromise)
<1>1. Init => Promise!Init
  BY PromiseInit
<1>2. IInv /\ EntryNotHired /\ [Next]_vars => [Promise!Next]_(Promise!vars)
  BY StepAccounts
<1>3. EntryNotHired => [](EntryNotHired)
  <2>1. EntryNotHired => EntryNotHired'
    BY DEF EntryNotHired
  <2> QED
    BY <2>1, PTL
<1> QED
  BY <1>1, <1>2, <1>3, Invariance, PTL DEF Spec, KeepsVacancyPromise, Promise!Spec
=============================================================================
