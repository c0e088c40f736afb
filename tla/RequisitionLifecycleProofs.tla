--------------------- MODULE RequisitionLifecycleProofs ---------------------
(***************************************************************************)
(* Proofs about the requisition verbs, for any number of requisitions,     *)
(* engine requests and verbs in progress.                                  *)
(***************************************************************************)
EXTENDS RequisitionLifecycle, TLAPS

(* A held lock belongs to a confirm_open in progress on that row.          *)
LocksAreOwned ==
  \A r \in Req, t \in Tx :
    lock[r] = t <=> pc[t] \in {"ask", "open"} /\ job[t].req = r

(* A verb in progress knows what it works on.                              *)
JobsTyped == \A t \in Tx : pc[t] # "idle" => job[t] \in Job

(* What confirm_open read under its lock stays true until it opens the     *)
(* row: a draft that still links what it linked, approved once it has been *)
(* asked for, or no link at all under a port that was unwired.             *)
ConfirmersKnow ==
  \A t \in Tx :
    /\ pc[t] \in {"ask", "open"} =>
         Draft(job[t].req) /\ link[job[t].req] = job[t].request
    /\ pc[t] = "ask" => job[t].request # None
    /\ pc[t] = "open" =>
         \/ job[t].request # None /\ verdict[job[t].request] = "approved"
         \/ job[t].request = None /\ ~job[t].wired

(* A request that a row links, unless a body brought it, or that a verb is *)
(* about to link was filed for that very requisition.                      *)
LinksAreFiled ==
  /\ \A r \in Req : link[r] # None /\ r \notin byHand => filedFor[link[r]] = r
  /\ \A t \in Tx : pc[t] = "stamp" =>
       job[t].request \in Request /\ filedFor[job[t].request] = job[t].req

IInv == TypeOK /\ JobsTyped /\ LocksAreOwned /\ ConfirmersKnow /\ LinksAreFiled

-----------------------------------------------------------------------------
(* The end of a verb: nothing it knew or held is left.                     *)
LEMMA FinishTx ==
  ASSUME TypeOK, NEW t \in Tx, NEW ans \in Answers, Finish(t, ans)
  PROVE  /\ pc' \in [Tx -> Steps] /\ job' \in [Tx -> Job \cup {None}]
         /\ answer' \in [Tx -> Answers] /\ lock' \in [Req -> Tx \cup {None}]
         /\ pc'[t] = "idle"
         /\ \A u \in Tx : u # t => pc'[u] = pc[u] /\ job'[u] = job[u]
         /\ \A r \in Req, u \in Tx : lock'[r] = u <=> lock[r] = u /\ u # t
BY LifecycleAssumption DEF Finish, TypeOK, Steps

(* A verb that is refused, or dies, leaves everything but its locks.       *)
LEMMA RefusedKeeps ==
  ASSUME IInv, NEW t \in Tx, NEW ans \in Answers, Refused(t, ans)
  PROVE  IInv'
<1> USE DEF IInv
<1>1. /\ UNCHANGED <<created, status, link, deleted, wired, filedFor, verdict, byHand>>
      /\ Finish(t, ans)
  BY DEF Refused, rowVars, engineVars
<1>2. /\ pc' \in [Tx -> Steps] /\ job' \in [Tx -> Job \cup {None}]
      /\ answer' \in [Tx -> Answers] /\ lock' \in [Req -> Tx \cup {None}]
      /\ pc'[t] = "idle"
      /\ \A u \in Tx : u # t => pc'[u] = pc[u] /\ job'[u] = job[u]
      /\ \A r \in Req, u \in Tx : lock'[r] = u <=> lock[r] = u /\ u # t
  BY <1>1, FinishTx
<1>3. TypeOK'
  BY <1>1, <1>2 DEF TypeOK, Steps, Answers
<1>4. JobsTyped'
  BY <1>1, <1>2 DEF JobsTyped
<1>5. LocksAreOwned'
  BY <1>1, <1>2 DEF LocksAreOwned
<1>6. ConfirmersKnow'
  BY <1>1, <1>2 DEF ConfirmersKnow, Draft, Visible
<1>7. LinksAreFiled'
  BY <1>1, <1>2 DEF LinksAreFiled
<1> QED
  BY <1>3, <1>4, <1>5, <1>6, <1>7

(* file_open has seen a draft and goes on to file it without the lock.     *)
LEMMA BeginFile ==
  ASSUME IInv, NEW t \in Tx, NEW r \in Req, NEW step \in Steps, NEW q \in {None},
         pc[t] = "idle", step = "file", Begin(t, step, r, q),
         UNCHANGED <<rowVars, engineVars, byHand, lock>>
  PROVE  IInv'
<1> USE DEF IInv
<1>1. UNCHANGED <<created, status, link, deleted, wired, filedFor, verdict, byHand, lock>>
  BY DEF rowVars, engineVars
<1>2. /\ \A u \in Tx : u # t => pc'[u] = pc[u] /\ job'[u] = job[u]
      /\ pc'[t] = step /\ job'[t] = [req |-> r, request |-> q, wired |-> wired]
      /\ answer' \in [Tx -> Answers]
  BY DEF Begin, TypeOK, Answers
<1>3. job'[t] \in Job /\ pc' \in [Tx -> Steps] /\ job' \in [Tx -> Job \cup {None}]
  BY <1>2 DEF Begin, TypeOK, Job, Steps
<1>4. pc[t] = "idle" /\ step = "file"
  OBVIOUS
<1>5. TypeOK'
  BY <1>1, <1>2, <1>3, <1>4 DEF TypeOK, Steps, Answers
<1>6. JobsTyped'
  BY <1>1, <1>2, <1>3, <1>4 DEF JobsTyped
<1>7. LocksAreOwned'
  BY <1>1, <1>2, <1>3, <1>4 DEF LocksAreOwned
<1>8. ConfirmersKnow'
  BY <1>1, <1>2, <1>3, <1>4 DEF ConfirmersKnow, Draft, Visible
<1>9. LinksAreFiled'
  BY <1>1, <1>2, <1>3, <1>4 DEF LinksAreFiled
<1> QED
  BY <1>5, <1>6, <1>7, <1>8, <1>9

(* confirm_open has locked a draft and goes on to ask the engine, or to    *)
(* open a row nobody filed.                                                *)
LEMMA BeginConfirm ==
  ASSUME IInv, NEW t \in Tx, NEW r \in Req, NEW step \in {"ask", "open"},
         NEW q \in Request \cup {None},
         pc[t] = "idle", Lockable(r), Draft(r), Begin(t, step, r, q), link[r] = q,
         step = "ask" => q # None, step = "open" => q = None /\ ~wired,
         lock' = [lock EXCEPT ![r] = t],
         UNCHANGED <<rowVars, engineVars, byHand>>
  PROVE  IInv'
<1> USE DEF IInv
<1>1. UNCHANGED <<created, status, link, deleted, wired, filedFor, verdict, byHand>>
  BY DEF rowVars, engineVars
<1>2. /\ \A u \in Tx : u # t => pc'[u] = pc[u] /\ job'[u] = job[u]
      /\ pc'[t] = step /\ job'[t] = [req |-> r, request |-> q, wired |-> wired]
      /\ answer' \in [Tx -> Answers]
  BY DEF Begin, TypeOK, Answers
<1>3. job'[t] \in Job /\ pc' \in [Tx -> Steps] /\ job' \in [Tx -> Job \cup {None}]
  BY <1>2 DEF Begin, TypeOK, Job, Steps
<1>4. /\ pc[t] = "idle" /\ step \in {"ask", "open"} /\ Draft(r) /\ link[r] = q
      /\ step = "ask" => q # None
      /\ step = "open" => q = None /\ ~wired
  OBVIOUS
<1>5. /\ lock[r] = None /\ lock'[r] = t /\ lock' \in [Req -> Tx \cup {None}]
      /\ \A p \in Req : p # r => lock'[p] = lock[p]
  BY DEF TypeOK, Lockable
<1>6. TypeOK'
  BY <1>1, <1>2, <1>3, <1>4, <1>5 DEF TypeOK, Steps, Answers
<1>7. JobsTyped'
  BY <1>1, <1>2, <1>3, <1>4, <1>5 DEF JobsTyped
<1>8. LocksAreOwned'
  BY <1>1, <1>2, <1>3, <1>4, <1>5, LifecycleAssumption DEF LocksAreOwned, JobsTyped, Job
<1>9. ConfirmersKnow'
  BY <1>1, <1>2, <1>3, <1>4, <1>5 DEF ConfirmersKnow, Draft, Visible
<1>10. LinksAreFiled'
  BY <1>1, <1>2, <1>3, <1>4, <1>5 DEF LinksAreFiled
<1> QED
  BY <1>6, <1>7, <1>8, <1>9, <1>10

(* The engine records a request under a fresh id.                          *)
LEMMA FileRequestKeeps ==
  ASSUME IInv, NEW t \in Tx, NEW q \in Request, FileRequest(t, q)
  PROVE  IInv'
<1> USE DEF IInv
<1>1. UNCHANGED <<created, status, link, deleted, wired, verdict, byHand, lock, answer>>
  BY DEF FileRequest, rowVars
<1>2. pc[t] = "file" /\ job[t] \in Job /\ filedFor[q] = None
  BY DEF FileRequest, JobsTyped
<1>3. /\ \A u \in Tx : u # t => pc'[u] = pc[u] /\ job'[u] = job[u]
      /\ pc'[t] = "stamp" /\ job'[t] = [job[t] EXCEPT !.request = q]
      /\ pc' \in [Tx -> Steps]
  BY DEF FileRequest, TypeOK, Steps
<1>4. /\ job'[t] \in Job /\ job'[t].req = job[t].req /\ job'[t].request = q
      /\ job' \in [Tx -> Job \cup {None}]
  BY <1>2, <1>3 DEF Job, FileRequest, TypeOK
<1>5. /\ filedFor' \in [Request -> Req \cup {Elsewhere, None}] /\ filedFor'[q] = job[t].req
      /\ \A p \in Request : p # q => filedFor'[p] = filedFor[p]
  BY <1>2 DEF FileRequest, TypeOK, Job
<1>6. TypeOK'
  BY <1>1, <1>2, <1>3, <1>4, <1>5 DEF TypeOK, Steps, Answers
<1>7. JobsTyped'
  BY <1>1, <1>2, <1>3, <1>4, <1>5 DEF JobsTyped
<1>8. LocksAreOwned'
  BY <1>1, <1>2, <1>3, <1>4, <1>5 DEF LocksAreOwned
<1>9. ConfirmersKnow'
  BY <1>1, <1>2, <1>3, <1>4, <1>5 DEF ConfirmersKnow, Draft, Visible
<1>10. LinksAreFiled'
  BY <1>1, <1>2, <1>3, <1>4, <1>5, LifecycleAssumption DEF LinksAreFiled, TypeOK, JobsTyped, Job
<1> QED
  BY <1>6, <1>7, <1>8, <1>9, <1>10

(* The requisition links the request that was filed for it.                *)
LEMMA StampLinkKeeps ==
  ASSUME IInv, NEW t \in Tx, StampLink(t)
  PROVE  IInv'
<1> USE DEF IInv
<1>1. /\ UNCHANGED <<created, status, deleted, wired, filedFor, verdict>>
      /\ byHand' = byHand \ {job[t].req}
      /\ Finish(t, "filed") /\ "filed" \in Answers
  BY DEF StampLink, engineVars, Answers
<1>2. /\ pc' \in [Tx -> Steps] /\ job' \in [Tx -> Job \cup {None}]
      /\ answer' \in [Tx -> Answers] /\ lock' \in [Req -> Tx \cup {None}]
  BY <1>1, FinishTx
<1>3. /\ \A u \in Tx : u # t => pc'[u] = pc[u] /\ job'[u] = job[u]
      /\ pc'[t] = "idle"
      /\ \A r \in Req, u \in Tx : lock'[r] = u <=> lock[r] = u /\ u # t
  BY <1>1, FinishTx
<1>4. /\ pc[t] = "stamp" /\ job[t] \in Job /\ lock[job[t].req] = None
      /\ job[t].request \in Request /\ filedFor[job[t].request] = job[t].req
  BY DEF StampLink, JobsTyped, LinksAreFiled, Lockable
<1>5. /\ link' \in [Req -> Request \cup {None}]
      /\ link'[job[t].req] = job[t].request
      /\ \A r \in Req : r # job[t].req => link'[r] = link[r]
  BY <1>4 DEF StampLink, TypeOK, Job
<1>6. TypeOK'
  BY <1>1, <1>2, <1>3, <1>4, <1>5 DEF TypeOK, Steps, Answers
<1>7. JobsTyped'
  BY <1>1, <1>2, <1>3, <1>4, <1>5 DEF JobsTyped
<1>8. LocksAreOwned'
  BY <1>1, <1>2, <1>3, <1>4, <1>5 DEF LocksAreOwned
<1>9. ConfirmersKnow'
  BY <1>1, <1>2, <1>3, <1>4, <1>5, LifecycleAssumption DEF ConfirmersKnow, Draft, Visible, LocksAreOwned, JobsTyped, Job
<1>10. LinksAreFiled'
  BY <1>1, <1>2, <1>3, <1>4, <1>5 DEF LinksAreFiled
<1> QED
  BY <1>6, <1>7, <1>8, <1>9, <1>10

(* The engine granted the request that the locked row links.               *)
LEMMA AskVerdictKeeps ==
  ASSUME IInv, NEW t \in Tx, AskVerdict(t)
  PROVE  IInv'
<1> USE DEF IInv
<1>1. /\ UNCHANGED <<created, status, link, deleted, wired, filedFor, verdict, byHand, lock>>
      /\ UNCHANGED <<job, answer>>
  BY DEF AskVerdict, rowVars, engineVars
<1>2. pc[t] = "ask" /\ job[t] \in Job /\ verdict[job[t].request] = "approved"
  BY DEF AskVerdict, JobsTyped, Granted
<1>3. /\ \A u \in Tx : u # t => pc'[u] = pc[u]
      /\ pc'[t] = "open" /\ pc' \in [Tx -> Steps]
  BY DEF AskVerdict, TypeOK, Steps
<1>4. TypeOK'
  BY <1>1, <1>2, <1>3 DEF TypeOK, Steps, Answers
<1>5. JobsTyped'
  BY <1>1, <1>2, <1>3 DEF JobsTyped
<1>6. LocksAreOwned'
  BY <1>1, <1>2, <1>3 DEF LocksAreOwned
<1>7. ConfirmersKnow'
  BY <1>1, <1>2, <1>3 DEF ConfirmersKnow, Draft, Visible
<1>8. LinksAreFiled'
  BY <1>1, <1>2, <1>3 DEF LinksAreFiled
<1> QED
  BY <1>4, <1>5, <1>6, <1>7, <1>8

(* The locked draft opens.                                                 *)
LEMMA OpenRowKeeps ==
  ASSUME IInv, NEW t \in Tx, OpenRow(t)
  PROVE  IInv'
<1> USE DEF IInv
<1>1. /\ UNCHANGED <<created, link, deleted, wired, filedFor, verdict, byHand>>
      /\ Finish(t, "ok") /\ "ok" \in Answers
  BY DEF OpenRow, engineVars, Answers
<1>2. /\ pc' \in [Tx -> Steps] /\ job' \in [Tx -> Job \cup {None}]
      /\ answer' \in [Tx -> Answers] /\ lock' \in [Req -> Tx \cup {None}]
  BY <1>1, FinishTx
<1>3. /\ \A u \in Tx : u # t => pc'[u] = pc[u] /\ job'[u] = job[u]
      /\ pc'[t] = "idle"
      /\ \A r \in Req, u \in Tx : lock'[r] = u <=> lock[r] = u /\ u # t
  BY <1>1, FinishTx
<1>4. pc[t] = "open" /\ job[t] \in Job /\ lock[job[t].req] = t
  BY DEF OpenRow, JobsTyped, LocksAreOwned, Job
<1>5. /\ status' \in [Req -> Statuses]
      /\ \A r \in Req : r # job[t].req => status'[r] = status[r]
  BY <1>4 DEF OpenRow, TypeOK, Job, Statuses
<1>6. TypeOK'
  BY <1>1, <1>2, <1>3, <1>4, <1>5 DEF TypeOK, Steps, Answers
<1>7. JobsTyped'
  BY <1>1, <1>2, <1>3, <1>4, <1>5 DEF JobsTyped
<1>8. LocksAreOwned'
  BY <1>1, <1>2, <1>3, <1>4, <1>5 DEF LocksAreOwned
<1>9. ConfirmersKnow'
  BY <1>1, <1>2, <1>3, <1>4, <1>5 DEF ConfirmersKnow, Draft, Visible, LocksAreOwned, JobsTyped, Job
<1>10. LinksAreFiled'
  BY <1>1, <1>2, <1>3, <1>4, <1>5 DEF LinksAreFiled
<1> QED
  BY <1>6, <1>7, <1>8, <1>9, <1>10

(* hold, resume, close and cancel move a row that nobody has locked.       *)
LEMMA MovedKeeps ==
  ASSUME IInv, NEW t \in Tx, NEW r \in Req, NEW st \in Statuses, Lockable(r),
         pc[t] = "idle", status' = [status EXCEPT ![r] = st], Finish(t, "ok"),
         UNCHANGED <<created, deleted, link, engineVars, byHand>>
  PROVE  IInv'
<1> USE DEF IInv
<1>1. /\ UNCHANGED <<created, link, deleted, wired, filedFor, verdict, byHand>>
      /\ "ok" \in Answers /\ pc[t] = "idle" /\ lock[r] = None
  BY DEF engineVars, Answers, Lockable
<1>2. /\ pc' \in [Tx -> Steps] /\ job' \in [Tx -> Job \cup {None}]
      /\ answer' \in [Tx -> Answers] /\ lock' \in [Req -> Tx \cup {None}]
  BY <1>1, FinishTx
<1>3. /\ \A u \in Tx : u # t => pc'[u] = pc[u] /\ job'[u] = job[u]
      /\ pc'[t] = "idle"
      /\ \A p \in Req, u \in Tx : lock'[p] = u <=> lock[p] = u /\ u # t
  BY <1>1, FinishTx
<1>4. /\ status' \in [Req -> Statuses]
      /\ \A p \in Req : p # r => status'[p] = status[p]
  BY DEF TypeOK
<1>5. TypeOK'
  BY <1>1, <1>2, <1>3, <1>4 DEF TypeOK, Steps, Answers
<1>6. JobsTyped'
  BY <1>1, <1>2, <1>3, <1>4 DEF JobsTyped
<1>7. LocksAreOwned'
  BY <1>1, <1>2, <1>3, <1>4 DEF LocksAreOwned
<1>8. ConfirmersKnow'
  BY <1>1, <1>2, <1>3, <1>4, LifecycleAssumption DEF ConfirmersKnow, Draft, Visible, LocksAreOwned, JobsTyped, Job
<1>9. LinksAreFiled'
  BY <1>1, <1>2, <1>3, <1>4 DEF LinksAreFiled
<1> QED
  BY <1>5, <1>6, <1>7, <1>8, <1>9

(* The generic surface creates rows, and writes the links of rows that     *)
(* nobody has locked, deletes and restores them.                           *)
LEMMA GenericKeeps ==
  ASSUME IInv, UNCHANGED <<status, engineVars, lock, txVars>>,
         created' \subseteq Req, deleted' \subseteq Req, byHand' \subseteq Req,
         link' \in [Req -> Request \cup {None}],
         \A r \in Req : link'[r] # None /\ r \notin byHand' => filedFor[link'[r]] = r,
         \A r \in Req : ~Lockable(r) =>
           link'[r] = link[r] /\ Visible(r)' = Visible(r)
  PROVE  IInv'
<1> USE DEF IInv
<1>1. UNCHANGED <<status, wired, filedFor, verdict, lock, pc, job, answer>>
  BY DEF engineVars, txVars
<1>2. \A r \in Req : link'[r] # None /\ r \notin byHand' => filedFor[link'[r]] = r
  OBVIOUS
<1>3. /\ created' \subseteq Req /\ deleted' \subseteq Req /\ byHand' \subseteq Req
      /\ link' \in [Req -> Request \cup {None}]
  OBVIOUS
<1>4. \A r \in Req : lock[r] # None =>
        link'[r] = link[r] /\ Visible(r)' = Visible(r)
  BY DEF Lockable
<1>5. TypeOK'
  BY <1>1, <1>2, <1>3, <1>4 DEF TypeOK, Steps, Answers
<1>6. JobsTyped'
  BY <1>1 DEF JobsTyped
<1>7. LocksAreOwned'
  BY <1>1 DEF LocksAreOwned
<1>8. ConfirmersKnow'
  BY <1>1, <1>4, LifecycleAssumption DEF ConfirmersKnow, Draft, LocksAreOwned, JobsTyped, Job
<1>9. LinksAreFiled'
  BY <1>1, <1>2 DEF LinksAreFiled
<1> QED
  BY <1>5, <1>6, <1>7, <1>8, <1>9

(* The engine takes a request for something else, decides a pending one,   *)
(* or is put behind the port.                                              *)
LEMMA EngineKeeps ==
  ASSUME IInv, UNCHANGED <<rowVars, byHand, lock, txVars>>, wired' \in BOOLEAN,
         filedFor' \in [Request -> Req \cup {Elsewhere, None}],
         \A q \in Request : filedFor[q] \in Req => filedFor'[q] = filedFor[q],
         verdict' \in [Request -> Verdicts],
         \A q \in Request : verdict[q] = "approved" => verdict'[q] = "approved"
  PROVE  IInv'
<1> USE DEF IInv
<1>1. UNCHANGED <<created, status, link, deleted, byHand, lock, pc, job, answer>>
  BY DEF rowVars, txVars
<1>2. /\ wired' \in BOOLEAN /\ verdict' \in [Request -> Verdicts]
      /\ \A q \in Request : verdict[q] = "approved" => verdict'[q] = "approved"
      /\ filedFor' \in [Request -> Req \cup {Elsewhere, None}]
      /\ \A q \in Request : filedFor[q] \in Req => filedFor'[q] = filedFor[q]
  OBVIOUS
<1>3. TypeOK'
  BY <1>1, <1>2 DEF TypeOK, Steps, Answers
<1>4. JobsTyped'
  BY <1>1 DEF JobsTyped
<1>5. LocksAreOwned'
  BY <1>1 DEF LocksAreOwned
<1>6. ConfirmersKnow'
  BY <1>1, <1>2 DEF ConfirmersKnow, Draft, Visible, JobsTyped, Job
<1>7. LinksAreFiled'
  BY <1>1, <1>2 DEF LinksAreFiled, JobsTyped, Job, TypeOK
<1> QED
  BY <1>3, <1>4, <1>5, <1>6, <1>7

-----------------------------------------------------------------------------
(* Every step keeps the invariant.                                         *)

LEMMA StartFileKeeps ==
  ASSUME IInv, NEW t \in Tx, NEW r \in Req, StartFile(t, r)
  PROVE  IInv'
<1>1. CASE Refused(t, "not_found") \/ Refused(t, "not_draft")
  BY <1>1, RefusedKeeps DEF Answers
<1>2. CASE Begin(t, "file", r, None) /\ UNCHANGED <<rowVars, engineVars, byHand, lock>>
  BY <1>2, BeginFile DEF StartFile, Steps
<1> QED
  BY <1>1, <1>2 DEF StartFile

LEMMA StartConfirmKeeps ==
  ASSUME IInv, NEW t \in Tx, NEW r \in Req, StartConfirm(t, r)
  PROVE  IInv'
<1>1. CASE \/ Refused(t, "not_found") \/ Refused(t, "already")
           \/ Refused(t, "not_draft") \/ Refused(t, "approval_not_filed")
  BY <1>1, RefusedKeeps DEF Answers
<1>2. CASE /\ Draft(r)
           /\ \/ MayOpenUnfiled(r) /\ Begin(t, "open", r, None)
              \/ link[r] # None /\ Begin(t, "ask", r, link[r])
           /\ lock' = [lock EXCEPT ![r] = t]
           /\ UNCHANGED <<rowVars, engineVars, byHand>>
  <2>1. pc[t] = "idle" /\ Lockable(r) /\ link[r] \in Request \cup {None}
    BY DEF StartConfirm, IInv, TypeOK
  <2>2. CASE MayOpenUnfiled(r) /\ Begin(t, "open", r, None)
    BY <1>2, <2>1, <2>2, BeginConfirm DEF MayOpenUnfiled
  <2>3. CASE link[r] # None /\ Begin(t, "ask", r, link[r])
    BY <1>2, <2>1, <2>3, BeginConfirm
  <2> QED
    BY <1>2, <2>2, <2>3
<1> QED
  BY <1>1, <1>2 DEF StartConfirm

LEMMA MoveStatusKeeps ==
  ASSUME IInv, NEW t \in Tx, NEW r \in Req, NEW v \in LifecycleVerbs,
         MoveStatus(t, r, v)
  PROVE  IInv'
<1>1. CASE \/ Refused(t, "not_found") \/ Refused(t, "already")
           \/ Refused(t, "invalid_transition")
  BY <1>1, RefusedKeeps DEF Answers
<1>2. CASE /\ status' = [status EXCEPT ![r] = VerbTo[v]]
           /\ Finish(t, "ok")
           /\ UNCHANGED <<created, deleted, link, engineVars, byHand>>
  <2>1. VerbTo[v] \in Statuses
    BY DEF VerbTo, LifecycleVerbs, Statuses
  <2>2. pc[t] = "idle" /\ Lockable(r)
    BY DEF MoveStatus
  <2> QED
    BY <1>2, <2>1, <2>2, MovedKeeps
<1> QED
  BY <1>1, <1>2 DEF MoveStatus

LEMMA ProgressKeeps ==
  ASSUME IInv, NEW t \in Tx, Progress(t) \/ Crash(t)
  PROVE  IInv'
<1>1. CASE FileUnwired(t) \/ FileFails(t) \/ NotGranted(t) \/ Crash(t)
  BY <1>1, RefusedKeeps DEF FileUnwired, FileFails, NotGranted, Crash, Answers
<1> QED
  BY <1>1, StampLinkKeeps, FileRequestKeeps, AskVerdictKeeps, OpenRowKeeps
  DEF Progress

(* A row that was not there yet was locked by nobody.                      *)
LEMMA CreateKeeps ==
  ASSUME IInv, NEW r \in Req, NEW q \in Request \cup {None}, Create(r, q)
  PROVE  IInv'
<1> USE DEF IInv
<1>1. Lockable(r)
  <2>1. ASSUME NEW t \in Tx, lock[r] = t
        PROVE  FALSE
    BY <2>1 DEF LocksAreOwned, ConfirmersKnow, Draft, Visible, Create
  <2> QED
    BY <2>1 DEF Lockable, TypeOK
<1>2. /\ UNCHANGED <<status, engineVars, lock, txVars>>
      /\ created' = created \cup {r} /\ deleted' = deleted
      /\ byHand' = byHand \cup {r} /\ link' = [link EXCEPT ![r] = q]
  BY DEF Create
<1>3. /\ created' \subseteq Req /\ deleted' \subseteq Req /\ byHand' \subseteq Req
      /\ link' \in [Req -> Request \cup {None}]
  BY <1>2 DEF TypeOK
<1>4. \A p \in Req : link'[p] # None /\ p \notin byHand' => filedFor[link'[p]] = p
  BY <1>2 DEF TypeOK, LinksAreFiled
<1>5. \A p \in Req : ~Lockable(p) => link'[p] = link[p] /\ Visible(p)' = Visible(p)
  BY <1>1, <1>2 DEF TypeOK, Visible
<1> QED
  BY <1>2, <1>3, <1>4, <1>5, GenericKeeps

(* A body's link is written to a row that nobody has locked.               *)
LEMMA UpdateKeeps ==
  ASSUME IInv, NEW r \in Req, NEW q \in Request \cup {None}, Update(r, q)
  PROVE  IInv'
<1> USE DEF IInv
<1>1. /\ UNCHANGED <<status, engineVars, lock, txVars>>
      /\ created' = created /\ deleted' = deleted /\ Lockable(r)
      /\ byHand' = byHand \cup {r} /\ link' = [link EXCEPT ![r] = q]
  BY DEF Update
<1>2. /\ created' \subseteq Req /\ deleted' \subseteq Req /\ byHand' \subseteq Req
      /\ link' \in [Req -> Request \cup {None}]
  BY <1>1 DEF TypeOK
<1>3. \A p \in Req : link'[p] # None /\ p \notin byHand' => filedFor[link'[p]] = p
  BY <1>1 DEF TypeOK, LinksAreFiled
<1>4. \A p \in Req : ~Lockable(p) => link'[p] = link[p] /\ Visible(p)' = Visible(p)
  BY <1>1 DEF TypeOK, Visible
<1> QED
  BY <1>1, <1>2, <1>3, <1>4, GenericKeeps

LEMMA TrashKeeps ==
  ASSUME IInv, NEW r \in Req, SoftDelete(r) \/ Restore(r)
  PROVE  IInv'
<1> USE DEF IInv
<1>1. /\ UNCHANGED <<status, engineVars, lock, txVars, created, link, byHand>>
      /\ deleted' \subseteq Req
  BY DEF SoftDelete, Restore, TypeOK
<1>2. /\ created' \subseteq Req /\ byHand' \subseteq Req
      /\ link' \in [Req -> Request \cup {None}]
      /\ \A p \in Req : link'[p] # None /\ p \notin byHand' => filedFor[link'[p]] = p
  BY <1>1 DEF TypeOK, LinksAreFiled
<1>3. \A p \in Req : ~Lockable(p) => link'[p] = link[p] /\ Visible(p)' = Visible(p)
  BY <1>1 DEF SoftDelete, Restore, Visible
<1> QED
  BY <1>1, <1>2, <1>3, GenericKeeps

LEMMA EngineStepKeeps ==
  ASSUME IInv,
         \/ \E q \in Request, v \in {"approved", "rejected"} : Decide(q, v)
         \/ \E q \in Request : FileElsewhere(q)
         \/ SetApprovals
         \/ UNCHANGED vars
  PROVE  IInv'
<1>1. /\ UNCHANGED <<rowVars, byHand, lock, txVars>>
      /\ wired' \in BOOLEAN
      /\ verdict' \in [Request -> Verdicts]
      /\ \A q \in Request : verdict[q] = "approved" => verdict'[q] = "approved"
  BY DEF Decide, FileElsewhere, SetApprovals, vars, engineVars, IInv, TypeOK, Verdicts
<1>2. /\ filedFor' \in [Request -> Req \cup {Elsewhere, None}]
      /\ \A q \in Request : filedFor[q] \in Req => filedFor'[q] = filedFor[q]
  BY LifecycleAssumption
  DEF Decide, FileElsewhere, SetApprovals, vars, engineVars, IInv, TypeOK
<1> QED
  BY <1>1, <1>2, EngineKeeps

LEMMA StepKeeps ==
  ASSUME IInv, [Next]_vars
  PROVE  IInv'
BY StartFileKeeps, StartConfirmKeeps, MoveStatusKeeps, ProgressKeeps,
   CreateKeeps, UpdateKeeps, TrashKeeps, EngineStepKeeps DEF Next

LEMMA InitHolds ==
  ASSUME Init
  PROVE  IInv
<1>1. TypeOK
  BY DEF Init, TypeOK, Statuses, Verdicts, Steps, Answers
<1>2. JobsTyped /\ LocksAreOwned /\ ConfirmersKnow /\ LinksAreFiled
  BY LifecycleAssumption
  DEF Init, JobsTyped, LocksAreOwned, ConfirmersKnow, LinksAreFiled
<1> QED
  BY <1>1, <1>2 DEF IInv

-----------------------------------------------------------------------------
(* The invariant holds in every reachable state.                           *)
THEOREM RequisitionInvariant == Spec => []IInv
<1>1. Init => IInv
  BY InitHolds
<1>2. IInv /\ [Next]_vars => IInv'
  BY StepKeeps
<1> QED
  BY <1>1, <1>2, PTL DEF Spec

(* Every value keeps its type.                                             *)
THEOREM RequisitionTypes == Spec => []TypeOK
BY RequisitionInvariant, PTL DEF IInv

-----------------------------------------------------------------------------
(* How the status moves.                                                   *)

(* A status moves only when confirm_open opens its locked draft or a verb  *)
(* moves an unlocked row that is not deleted.                              *)
LEMMA StatusMoves ==
  ASSUME IInv, [Next]_vars, NEW r \in Req, status'[r] # status[r]
  PROVE  \/ \E t \in Tx :
              /\ lock[r] = t /\ pc[t] = "open" /\ job[t].req = r
              /\ Draft(r) /\ status'[r] = "open"
         \/ \E v \in LifecycleVerbs :
              /\ Visible(r)
              /\ status[r] \in VerbFrom[v] /\ status'[r] = VerbTo[v]
<1> USE DEF IInv
<1>1. ASSUME NEW t \in Tx, OpenRow(t)
      PROVE  /\ lock[r] = t /\ pc[t] = "open" /\ job[t].req = r
             /\ Draft(r) /\ status'[r] = "open"
  <2>1. pc[t] = "open" /\ job[t] \in Job /\ job[t].req = r
    BY <1>1 DEF OpenRow, JobsTyped, TypeOK
  <2>2. lock[r] = t /\ Draft(r)
    BY <2>1 DEF LocksAreOwned, ConfirmersKnow
  <2> QED
    BY <1>1, <2>1, <2>2 DEF OpenRow, Draft, TypeOK
<1>2. ASSUME NEW t \in Tx, NEW p \in Req, NEW v \in LifecycleVerbs,
             MoveStatus(t, p, v)
      PROVE  /\ Visible(r)
             /\ status[r] \in VerbFrom[v] /\ status'[r] = VerbTo[v]
  BY <1>2 DEF MoveStatus, Refused, rowVars, TypeOK
<1>3. ASSUME NEW t \in Tx, Progress(t) \/ Crash(t)
      PROVE  OpenRow(t)
  BY <1>3 DEF Progress, Crash, FileUnwired, FileFails, StampLink, FileRequest,
              AskVerdict, NotGranted, Refused, rowVars
<1>4. ASSUME NEW t \in Tx, NEW p \in Req, StartFile(t, p) \/ StartConfirm(t, p)
      PROVE  FALSE
  BY <1>4 DEF StartFile, StartConfirm, Refused, rowVars
<1>5. ASSUME \/ \E p \in Req, q \in Request \cup {None} : Create(p, q) \/ Update(p, q)
             \/ \E p \in Req : SoftDelete(p) \/ Restore(p)
             \/ \E q \in Request : FileElsewhere(q)
             \/ \E q \in Request, v \in {"approved", "rejected"} : Decide(q, v)
             \/ SetApprovals
             \/ UNCHANGED vars
      PROVE  FALSE
  BY <1>5 DEF Create, Update, SoftDelete, Restore, FileElsewhere, Decide,
              SetApprovals, vars, rowVars
<1> QED
  BY <1>1, <1>2, <1>3, <1>4, <1>5 DEF Next

(* No draft is opened but on an approval that it links, its own unless a   *)
(* body brought the link, or without a link under a port that was unwired  *)
(* when confirm_open started.                                              *)
THEOREM OnlyOnApproval == Spec => OpenedOnlyOnApproval
<1>1. ASSUME IInv, [Next]_vars, NEW r \in Req, status[r] = "draft", status'[r] = "open"
      PROVE  \/ /\ link[r] # None /\ verdict[link[r]] = "approved"
                /\ filedFor[link[r]] = r \/ r \in byHand
             \/ /\ link[r] = None
                /\ \E t \in Tx : lock[r] = t /\ ~job[t].wired
  <2>1. ASSUME NEW v \in LifecycleVerbs, status[r] \in VerbFrom[v],
               status'[r] = VerbTo[v]
        PROVE  FALSE
    BY <1>1, <2>1 DEF LifecycleVerbs, VerbFrom, VerbTo
  <2>2. PICK t \in Tx : lock[r] = t /\ pc[t] = "open" /\ job[t].req = r
    BY <1>1, <2>1, StatusMoves
  <2>3. link[r] = job[t].request
    BY <1>1, <2>2 DEF IInv, ConfirmersKnow
  <2>4. CASE job[t].request # None /\ verdict[job[t].request] = "approved"
    BY <1>1, <2>3, <2>4 DEF IInv, LinksAreFiled
  <2>5. CASE job[t].request = None /\ ~job[t].wired
    BY <2>2, <2>3, <2>5
  <2> QED
    BY <1>1, <2>2, <2>4, <2>5 DEF IInv, ConfirmersKnow
<1>2. IInv /\ [Next]_vars =>
        [\A r \in Req : status[r] = "draft" /\ status'[r] = "open" =>
           \/ /\ link[r] # None /\ verdict[link[r]] = "approved"
              /\ filedFor[link[r]] = r \/ r \in byHand
           \/ /\ link[r] = None
              /\ \E t \in Tx : lock[r] = t /\ ~job[t].wired]_vars
  BY <1>1
<1> QED
  BY <1>2, RequisitionInvariant, PTL DEF Spec, OpenedOnlyOnApproval

(* Closed and cancelled requisitions stay so; none becomes a draft again.  *)
THEOREM SettledStays == Spec => SettledStatusStays
<1>1. ASSUME IInv, [Next]_vars, NEW r \in Req
      PROVE  /\ status[r] \in {"closed", "cancelled"} => status'[r] = status[r]
             /\ status[r] # "draft" => status'[r] # "draft"
  <2>1. CASE status'[r] = status[r]
    BY <2>1
  <2>2. CASE Draft(r) /\ status'[r] = "open"
    BY <2>2 DEF Draft
  <2>3. ASSUME NEW v \in LifecycleVerbs, status[r] \in VerbFrom[v],
               status'[r] = VerbTo[v]
        PROVE  /\ status[r] \notin {"closed", "cancelled"}
               /\ status'[r] # "draft"
    BY <2>3 DEF LifecycleVerbs, VerbFrom, VerbTo
  <2> QED
    BY <1>1, <2>1, <2>2, <2>3, StatusMoves
<1>2. IInv /\ [Next]_vars =>
        [\A r \in Req :
           /\ status[r] \in {"closed", "cancelled"} => status'[r] = status[r]
           /\ status[r] # "draft" => status'[r] # "draft"]_vars
  BY <1>1
<1> QED
  BY <1>2, RequisitionInvariant, PTL DEF Spec, SettledStatusStays

(* No verb moves a deleted requisition.                                    *)
THEOREM DeletedStays == Spec => DeletedStandStill
<1>1. IInv /\ [Next]_vars => [\A r \in deleted : status'[r] = status[r]]_vars
  BY StatusMoves DEF IInv, TypeOK, Draft, Visible
<1> QED
  BY <1>1, RequisitionInvariant, PTL DEF Spec, DeletedStandStill
-----------------------------------------------------------------------------
(* The promise.  An approval is never taken back, since only a pending     *)
(* request is decided.                                                     *)

ApprovedRequests == {q \in Request : verdict[q] = "approved"}

OpensUnwired(t) == pc[t] = "open" /\ job[t].request = None /\ ~job[t].wired

Direct == ~wired \/ \E t \in Tx : OpensUnwired(t)

(* A verb that starts, ends or goes on opens a draft unwired only if that  *)
(* was possible before.                                                    *)
LEMMA DirectFalls ==
  ASSUME IInv, [Next]_vars
  PROVE  Direct' => Direct
<1> USE DEF IInv
<1>1. ~wired' => ~wired
  <2>1. ASSUME NEW t \in Tx, NEW r \in Req,
               \/ StartFile(t, r) \/ StartConfirm(t, r)
               \/ \E v \in LifecycleVerbs : MoveStatus(t, r, v)
        PROVE  wired' = wired
    BY <2>1 DEF StartFile, StartConfirm, MoveStatus, Refused, engineVars
  <2>2. ASSUME \/ \E r \in Req, q \in Request \cup {None} : Create(r, q) \/ Update(r, q)
               \/ \E r \in Req : SoftDelete(r) \/ Restore(r)
               \/ \E q \in Request : FileElsewhere(q)
               \/ \E q \in Request, v \in {"approved", "rejected"} : Decide(q, v)
               \/ UNCHANGED vars
        PROVE  wired' = wired
    BY <2>2 DEF Create, Update, SoftDelete, Restore, FileElsewhere, Decide, vars,
                engineVars
  <2>3. ASSUME NEW t \in Tx, Progress(t) \/ Crash(t)
        PROVE  wired' = wired
    BY <2>3 DEF Progress, Crash, FileUnwired, FileFails, StampLink, FileRequest,
                AskVerdict, NotGranted, OpenRow, Refused, engineVars
  <2> QED
    BY <2>1, <2>2, <2>3 DEF Next, SetApprovals
<1>2. ASSUME NEW u \in Tx, OpensUnwired(u)', ~OpensUnwired(u)
      PROVE  ~wired
  <2> USE <1>2 DEF OpensUnwired
  <2>1. ASSUME NEW t \in Tx, NEW r \in Req, StartConfirm(t, r)
        PROVE  ~wired
    BY <2>1 DEF StartConfirm, Begin, Refused, Finish, MayOpenUnfiled, TypeOK
  <2>2. ASSUME NEW t \in Tx, NEW r \in Req,
               StartFile(t, r) \/ \E v \in LifecycleVerbs : MoveStatus(t, r, v)
        PROVE  FALSE
    BY <2>2 DEF StartFile, MoveStatus, Begin, Refused, Finish, TypeOK
  <2>3. ASSUME NEW t \in Tx, AskVerdict(t)
        PROVE  FALSE
    BY <2>3 DEF AskVerdict, ConfirmersKnow, TypeOK
  <2>4. ASSUME NEW t \in Tx, NEW q \in Request, FileRequest(t, q)
        PROVE  FALSE
    BY <2>4 DEF FileRequest, TypeOK
  <2>5. ASSUME NEW t \in Tx, \E ans \in Answers : Finish(t, ans)
        PROVE  FALSE
    BY <2>5 DEF Finish, TypeOK
  <2>6. ASSUME NEW t \in Tx,
               \/ FileUnwired(t) \/ FileFails(t) \/ StampLink(t)
               \/ NotGranted(t) \/ OpenRow(t) \/ Crash(t)
        PROVE  FALSE
    BY <2>5, <2>6 DEF FileUnwired, FileFails, StampLink, NotGranted, OpenRow, Crash,
                      Refused, Answers
  <2>7. ASSUME \/ \E r \in Req, q \in Request \cup {None} : Create(r, q) \/ Update(r, q)
               \/ \E r \in Req : SoftDelete(r) \/ Restore(r)
               \/ \E q \in Request : FileElsewhere(q)
               \/ \E q \in Request, v \in {"approved", "rejected"} : Decide(q, v)
               \/ SetApprovals \/ UNCHANGED vars
        PROVE  FALSE
    BY <2>7 DEF Create, Update, SoftDelete, Restore, FileElsewhere, Decide,
                SetApprovals, vars, txVars
  <2> QED
    BY <2>1, <2>2, <2>3, <2>4, <2>6, <2>7 DEF Next, Progress
<1> QED
  BY <1>1, <1>2 DEF Direct

(* What a verb in progress works on has been read.                         *)
FilersRead == \A t \in Tx : pc[t] # "idle" => job[t].req \in created

LEMMA FilersReadKept ==
  ASSUME IInv, FilersRead, [Next]_vars
  PROVE  FilersRead'
<1> USE DEF IInv
<1>1. ASSUME NEW t \in Tx, \E ans \in Answers : Finish(t, ans), created' = created
      PROVE  FilersRead'
  BY <1>1 DEF Finish, FilersRead, TypeOK
<1>2. ASSUME NEW t \in Tx, NEW r \in Req, NEW step \in {"file", "ask", "open"},
             \E q \in Request \cup {None} : Begin(t, step, r, q),
             r \in created, created' = created
      PROVE  FilersRead'
  BY <1>2 DEF Begin, FilersRead, TypeOK
<1>3. ASSUME NEW t \in Tx, NEW r \in Req, StartFile(t, r)
      PROVE  FilersRead'
  <2>1. created' = created
    BY <1>3 DEF StartFile, Refused, rowVars
  <2>2. CASE \E ans \in Answers : Finish(t, ans)
    BY <1>1, <2>1, <2>2
  <2>3. CASE Draft(r) /\ Begin(t, "file", r, None)
    BY <1>2, <2>1, <2>3 DEF Draft, Visible
  <2> QED
    BY <1>3, <2>2, <2>3 DEF StartFile, Refused, Answers
<1>4. ASSUME NEW t \in Tx, NEW r \in Req, StartConfirm(t, r)
      PROVE  FilersRead'
  <2>1. created' = created
    BY <1>4 DEF StartConfirm, Refused, rowVars
  <2>2. CASE \E ans \in Answers : Finish(t, ans)
    BY <1>1, <2>1, <2>2
  <2>3. CASE /\ Draft(r)
             /\ Begin(t, "open", r, None) \/ Begin(t, "ask", r, link[r])
    <3>1. link[r] \in Request \cup {None} /\ r \in created
      BY <2>3 DEF TypeOK, Draft, Visible
    <3> QED
      BY <1>2, <2>1, <2>3, <3>1
  <2> QED
    BY <1>4, <2>2, <2>3 DEF StartConfirm, Refused, Answers
<1>5. ASSUME NEW t \in Tx, NEW r \in Req, NEW v \in LifecycleVerbs, MoveStatus(t, r, v)
      PROVE  FilersRead'
  <2>1. created' = created /\ \E ans \in Answers : Finish(t, ans)
    BY <1>5 DEF MoveStatus, Refused, rowVars, Answers
  <2> QED
    BY <1>1, <2>1
<1>6. ASSUME NEW t \in Tx,
             \/ FileUnwired(t) \/ FileFails(t) \/ StampLink(t)
             \/ NotGranted(t) \/ OpenRow(t) \/ Crash(t)
      PROVE  FilersRead'
  <2>1. created' = created /\ \E ans \in Answers : Finish(t, ans)
    BY <1>6 DEF FileUnwired, FileFails, StampLink, NotGranted, OpenRow, Crash,
                Refused, rowVars, Answers
  <2> QED
    BY <1>1, <2>1
<1>7. ASSUME NEW t \in Tx, NEW q \in Request, FileRequest(t, q)
      PROVE  FilersRead'
  <2>1. pc[t] # "idle" /\ job[t] \in Job /\ created' = created
    BY <1>7 DEF FileRequest, JobsTyped, rowVars
  <2>2. \A u \in Tx : /\ pc'[u] # "idle" => pc[u] # "idle"
                      /\ pc[u] # "idle" => job'[u].req = job[u].req
    BY <1>7, <2>1 DEF FileRequest, TypeOK, JobsTyped, Job
  <2> QED
    BY <2>1, <2>2 DEF FilersRead
<1>8. ASSUME NEW t \in Tx, AskVerdict(t)
      PROVE  FilersRead'
  BY <1>8 DEF AskVerdict, FilersRead, TypeOK, rowVars
<1>9. ASSUME \/ \E r \in Req, q \in Request \cup {None} : Create(r, q) \/ Update(r, q)
             \/ \E r \in Req : SoftDelete(r) \/ Restore(r)
             \/ \E q \in Request : FileElsewhere(q)
             \/ \E q \in Request, v \in {"approved", "rejected"} : Decide(q, v)
             \/ SetApprovals \/ UNCHANGED vars
      PROVE  FilersRead'
  BY <1>9 DEF Create, Update, SoftDelete, Restore, FileElsewhere, Decide,
              SetApprovals, vars, rowVars, txVars, FilersRead
<1> QED
  BY <1>3, <1>4, <1>5, <1>6, <1>7, <1>8, <1>9 DEF Next, Progress

(* A step that leaves the rows and the approvals alone may end, and never  *)
(* restores, that a draft is opened directly.                              *)
LEMMA QuietPromised ==
  ASSUME IInv, [Next]_vars, UNCHANGED rowVars, ApprovedRequests' = ApprovedRequests
  PROVE  [Promise!Next]_Promise!vars
<1>1. Direct' = Direct \/ Direct' = FALSE
  BY DirectFalls DEF Direct
<1>2. UNCHANGED <<created, deleted, status, link>>
  BY DEF rowVars
<1>3. CASE Direct' = Direct
  BY <1>2, <1>3
  DEF Promise!vars, ApprovedRequests, Direct, OpensUnwired
<1>4. CASE Direct' = FALSE
  <2>1. Promise!Wire
    BY <1>2, <1>4 DEF Promise!Wire, ApprovedRequests, Direct, OpensUnwired
  <2> QED
    BY <2>1 DEF Promise!Next
<1> QED
  BY <1>1, <1>3, <1>4

(* The step that opens a draft.                                            *)
LEMMA OpenRowPromised ==
  ASSUME IInv, [Next]_vars, NEW t \in Tx, OpenRow(t)
  PROVE  [Promise!Next]_Promise!vars
<1> USE DEF IInv
<1>0. PICK r \in Req : r = job[t].req
  BY DEF OpenRow, JobsTyped, Job
<1>1. /\ pc[t] = "open" /\ job[t] \in Job /\ job[t].req = r /\ Draft(r)
      /\ link[r] = job[t].request
      /\ \/ job[t].request # None /\ verdict[job[t].request] = "approved"
         \/ job[t].request = None /\ ~job[t].wired
  BY <1>0 DEF OpenRow, JobsTyped, ConfirmersKnow
<1>2. link[r] \in ApprovedRequests \/ (link[r] = None /\ Direct)
  BY <1>1 DEF ApprovedRequests, Direct, OpensUnwired, Job
<1>3. /\ status' = [status EXCEPT ![r] = "open"]
      /\ UNCHANGED <<created, deleted, link, verdict>>
  BY <1>1 DEF OpenRow, Draft, engineVars
<1>4. ApprovedRequests' = ApprovedRequests
  BY <1>3 DEF ApprovedRequests
<1>5. Direct' \in {Direct, FALSE}
  BY DirectFalls DEF Direct
<1>6. Promise!Open(r)
  BY <1>1, <1>2, <1>3, <1>4, <1>5
  DEF Promise!Open, Promise!SetStatus, Draft, Visible, ApprovedRequests, Direct,
      OpensUnwired
<1> QED
  BY <1>6 DEF Promise!Next

(* The step of a verb that moves a requisition.                            *)
LEMMA MoveStatusPromised ==
  ASSUME IInv, NEW t \in Tx, NEW r \in Req, NEW v \in LifecycleVerbs,
         MoveStatus(t, r, v), status' # status
  PROVE  Promise!Advance(r)
<1> USE DEF IInv
<1>1. /\ Visible(r) /\ status[r] \in VerbFrom[v] /\ pc[t] = "idle"
      /\ status' = [status EXCEPT ![r] = VerbTo[v]]
      /\ Finish(t, "ok")
      /\ UNCHANGED <<created, deleted, link, wired, verdict>>
  BY DEF MoveStatus, Refused, rowVars, engineVars
<1>2. /\ VerbTo[v] \in {"open", "on_hold", "closed", "cancelled"}
      /\ <<status[r], VerbTo[v]>> \in Promise!Edges
  BY <1>1 DEF LifecycleVerbs, VerbFrom, VerbTo, Promise!Edges
<1>3. ApprovedRequests' = ApprovedRequests
  BY <1>1 DEF ApprovedRequests
<1>4. /\ pc'[t] = "idle"
      /\ \A u \in Tx : u # t => pc'[u] = pc[u] /\ job'[u] = job[u]
  BY <1>1 DEF Finish, TypeOK
<1>5. \A u \in Tx : OpensUnwired(u)' = OpensUnwired(u)
  BY <1>1, <1>4 DEF OpensUnwired
<1>6. Direct' = Direct
  BY <1>1, <1>5 DEF Direct
<1> QED
  BY <1>1, <1>2, <1>3, <1>6
  DEF Promise!Advance, Promise!SetStatus, Visible, ApprovedRequests, Direct,
      OpensUnwired

(* The link that file_open writes: the row was there when it was read.     *)
LEMMA StampLinkPromised ==
  ASSUME IInv, [Next]_vars, NEW t \in Tx, StampLink(t), job[t].req \in created
  PROVE  [Promise!Next]_Promise!vars
<1> DEFINE r == job[t].req
<1> DEFINE q == job[t].request
<1> USE DEF IInv
<1>1. pc[t] = "stamp" /\ job[t] \in Job /\ r \in Req /\ q \in Request \cup {None}
  BY DEF StampLink, JobsTyped, Job
<1>2. /\ UNCHANGED <<created, deleted, status, wired, verdict>>
      /\ link' = [link EXCEPT ![r] = q]
      /\ Finish(t, "filed")
  BY DEF StampLink, engineVars
<1>3. ApprovedRequests' = ApprovedRequests
  BY <1>2 DEF ApprovedRequests
<1>4. /\ pc'[t] = "idle"
      /\ \A u \in Tx : u # t => pc'[u] = pc[u] /\ job'[u] = job[u]
  BY <1>2 DEF Finish, TypeOK
<1>5. \A u \in Tx : OpensUnwired(u)' = OpensUnwired(u)
  BY <1>1, <1>4 DEF OpensUnwired
<1>6. Direct' = Direct
  BY <1>2, <1>5 DEF Direct
<1>7. Promise!Link(r, q)
  BY <1>2, <1>3, <1>6 DEF Promise!Link, ApprovedRequests, Direct, OpensUnwired
<1> QED
  BY <1>1, <1>7 DEF Promise!Next

(* The generic surface creates and links, deletes and restores.            *)
LEMMA GenericPromised ==
  ASSUME \/ \E r \in Req, q \in Request \cup {None} : Create(r, q) \/ Update(r, q)
         \/ \E r \in Req : SoftDelete(r) \/ Restore(r)
  PROVE  Promise!Next
<1>1. UNCHANGED <<wired, verdict, pc, job>>
  BY DEF Create, Update, SoftDelete, Restore, engineVars, txVars
<1>2. Direct' = Direct /\ ApprovedRequests' = ApprovedRequests
  BY <1>1 DEF Direct, OpensUnwired, ApprovedRequests
<1>3. ASSUME NEW r \in Req, NEW q \in Request \cup {None}, Create(r, q) \/ Update(r, q)
      PROVE  Promise!Create(r, q) \/ Promise!Link(r, q)
  BY <1>2, <1>3
  DEF Create, Update, Promise!Create, Promise!Link, Direct, OpensUnwired,
      ApprovedRequests
<1>4. ASSUME NEW r \in Req, SoftDelete(r) \/ Restore(r)
      PROVE  Promise!Delete(r) \/ Promise!Restore(r)
  BY <1>2, <1>4
  DEF SoftDelete, Restore, Promise!Delete, Promise!Restore, Direct, OpensUnwired,
      ApprovedRequests
<1> QED
  BY <1>3, <1>4 DEF Promise!Next

(* A decision approves the request it is for, or nothing.                  *)
LEMMA DecidePromised ==
  ASSUME IInv, [Next]_vars, NEW q \in Request, NEW v \in {"approved", "rejected"},
         Decide(q, v)
  PROVE  [Promise!Next]_Promise!vars
<1> USE DEF IInv
<1>1. /\ verdict[q] = "pending" /\ verdict'[q] = v
      /\ \A p \in Request : p # q => verdict'[p] = verdict[p]
      /\ UNCHANGED <<created, deleted, status, link, wired, pc, job>>
  BY DEF Decide, rowVars, txVars, TypeOK
<1>2. Direct' = Direct
  BY <1>1 DEF Direct, OpensUnwired
<1>3. CASE v = "approved"
  <2>1. ApprovedRequests' = ApprovedRequests \cup {q}
    BY <1>1, <1>3 DEF ApprovedRequests
  <2>2. Promise!Approve(q)
    BY <1>1, <1>2, <2>1
    DEF Promise!Approve, ApprovedRequests, Direct, OpensUnwired
  <2> QED
    BY <2>2 DEF Promise!Next
<1>4. CASE v = "rejected"
  BY <1>1, <1>2, <1>4, QuietPromised DEF ApprovedRequests, rowVars
<1> QED
  BY <1>3, <1>4

(* Any other step leaves the rows and the approvals alone.                 *)
LEMMA StepPromised ==
  ASSUME IInv, FilersRead, [Next]_vars
  PROVE  [Promise!Next]_Promise!vars
<1>1. CASE UNCHANGED <<rowVars, verdict>>
  BY <1>1, QuietPromised DEF ApprovedRequests
<1>2. ASSUME NEW t \in Tx, Progress(t) \/ Crash(t)
      PROVE  UNCHANGED <<rowVars, verdict>> \/ OpenRow(t) \/ StampLink(t)
  BY <1>2 DEF Progress, Crash, FileUnwired, FileFails, FileRequest, AskVerdict,
              NotGranted, Refused, engineVars
<1>3. ASSUME NEW t \in Tx, StampLink(t)
      PROVE  job[t].req \in created
  BY <1>3 DEF StampLink, FilersRead
<1>4. ASSUME NEW t \in Tx, NEW r \in Req, NEW v \in LifecycleVerbs, MoveStatus(t, r, v)
      PROVE  [Promise!Next]_Promise!vars
  <2>1. CASE status' = status
    <3>1. UNCHANGED <<rowVars, verdict>>
      BY <1>4, <2>1 DEF MoveStatus, Refused, rowVars, engineVars
    <3> QED
      BY <1>1, <3>1
  <2>2. CASE status' # status
    BY <1>4, <2>2, MoveStatusPromised DEF Promise!Next
  <2> QED
    BY <2>1, <2>2
<1>5. ASSUME \/ \E t \in Tx, r \in Req : StartFile(t, r) \/ StartConfirm(t, r)
             \/ \E q \in Request : FileElsewhere(q)
             \/ SetApprovals \/ UNCHANGED vars
      PROVE  UNCHANGED <<rowVars, verdict>>
  BY <1>5 DEF StartFile, StartConfirm, FileElsewhere, SetApprovals, Refused, vars,
              engineVars
<1> QED
  BY <1>1, <1>2, <1>3, <1>4, <1>5, OpenRowPromised, StampLinkPromised,
     GenericPromised, DecidePromised DEF Next

(* RequisitionLifecycle implements ApprovedOpening.                        *)
THEOREM ImplementsOpening == Spec => KeepsOpeningPromise
<1>1. Init => Promise!Init
  BY LifecycleAssumption DEF Init, Promise!Init
<1>2. Init => FilersRead
  BY DEF Init, FilersRead
<1>3. IInv /\ FilersRead /\ [Next]_vars => FilersRead'
  BY FilersReadKept
<1>4. IInv /\ FilersRead /\ [Next]_vars => [Promise!Next]_Promise!vars
  BY StepPromised
<1> QED
  BY <1>1, <1>2, <1>3, <1>4, RequisitionInvariant, PTL
  DEF Spec, KeepsOpeningPromise, Promise!Spec
=============================================================================
