------------------------ MODULE OfferLifecycleProofs ------------------------
(***************************************************************************)
(* Proofs about the offers and the hand-off of the hired, for any number   *)
(* of offers, applications, requisitions, openings and requests.  The      *)
(* second half relates the offers to what is around them: the way from the *)
(* draft to the employee implements ApprovedHire, offers follow their      *)
(* applications, and the pipeline around the offers implements Vacancy.    *)
(***************************************************************************)
EXTENDS HireHandoff, TLAPS

Filers  == {"insert", "file", "stamp", "undo"}
Working == {"file", "stamp", "undo"}

(* A request that is not idle knows what it works on.                      *)
JobsTyped == \A t \in Tx : pc[t] # "idle" => job[t] \in Job

(* The draft a request is about to insert is nobody else's.                *)
InsertsFresh ==
  \A t \in Tx : pc[t] = "insert" =>
    /\ state[job[t].offer] = "none"
    /\ \A u \in Tx : pc[u] # "idle" /\ job[u].offer = job[t].offer => u = t

(* A draft is filed by the request that inserted it, and is not linked and *)
(* goes nowhere but to withdrawn before that request has finished.         *)
FilersAlone ==
  /\ \A t \in Tx : pc[t] \in Working =>
       /\ state[job[t].offer] \in {"draft", "withdrawn"}
       /\ job[t].offer \notin linked
  /\ \A t, u \in Tx :
       pc[t] \in Filers /\ pc[u] \in Filers /\ job[t].offer = job[u].offer => t = u

Approved(o) == o \in linked /\ o \in filed /\ verdict[o] = "approved"

(* What extend has learnt before it locks the offer stays true.            *)
ExtendersKnow ==
  \A t \in Tx :
    /\ pc[t] = "verdict" => job[t].offer \in linked
    /\ pc[t] \in {"snapshot", "extend"} => Approved(job[t].offer)

(* The request that extended an offer is the only one to send its letter.  *)
SendersAlone ==
  \A t \in Tx : pc[t] = "send" =>
    /\ letters[job[t].offer] = 0
    /\ job[t].offer \in linked
    /\ state[job[t].offer] \notin {"none", "draft", "deleted"}
    /\ \A u \in Tx : pc[u] = "send" /\ job[u].offer = job[t].offer => u = t

(* Between the checks of hire and its commit the row is locked.            *)
HirersLock ==
  \A t \in Tx : pc[t] = "hire" =>
    state[job[t].offer] = "extended" /\ lock[job[t].offer] = t

(* Only rows that exist are linked, and only linked offers were sent.      *)
LinksAreReal ==
  \A o \in Offer :
    /\ o \in linked => state[o] # "none"
    /\ letters[o] > 0 => o \in linked

IInv ==
  /\ TypeOK
  /\ JobsTyped
  /\ InsertsFresh
  /\ FilersAlone
  /\ ExtendersKnow
  /\ SendersAlone
  /\ HirersLock
  /\ LinksAreReal
  /\ AcceptedWithOneEvent
  /\ ExtendedOnlyApproved
  /\ OneLetterAtMost
  /\ DraftsAreFiled
  /\ NothingSilentlyUnsent

-----------------------------------------------------------------------------
(* What a request reads of an offer is a job to go on with.                *)
LEMMA SeenIsJob ==
  ASSUME NEW o \in Offer, NEW a \in App
  PROVE  Seen(o, a) \in Job
BY DEF Seen, Job, RequireOpening

(* The end of a request: nothing else it knew or held is left.             *)
LEMMA FinishTx ==
  ASSUME TypeOK, NEW t \in Tx, NEW ans \in Answers, Finish(t, ans)
  PROVE  /\ pc' \in [Tx -> Steps] /\ job' \in [Tx -> Job \cup {NoJob}]
         /\ answer' \in [Tx -> Answers] /\ lock' \in [Offer -> Tx \cup {Free}]
         /\ pc'[t] = "idle"
         /\ \A u \in Tx : pc'[u] # "idle" =>
              u # t /\ pc[u] # "idle" /\ pc'[u] = pc[u] /\ job'[u] = job[u]
         /\ \A u \in Tx : u # t => pc'[u] = pc[u] /\ job'[u] = job[u]
         /\ \A o \in Offer, u \in Tx : u # t /\ lock[o] = u => lock'[o] = u
BY OfferAssumption DEF Finish, Goto, TypeOK, Steps


(* A request that gives up, or dies, leaves the rows alone and, if it was  *)
(* half-way through an offer, leaves that offer half-done.                 *)
LEMMA GivingUp ==
  ASSUME IInv, NEW t \in Tx, NEW ans \in Answers, Finish(t, ans),
         UNCHANGED <<pipeVars, offerVars, engineVars, sinkVars>>,
         halfDone \subseteq halfDone', halfDone' \subseteq Offer,
         pc[t] \in Working \cup {"send"} => job[t].offer \in halfDone'
  PROVE  IInv'
<1> USE DEF IInv
<1>1. UNCHANGED <<staged, barred, status, state, appOf, linked, templated,
                 wired, filed, verdict, lettersWired, events, letters, failed>>
  BY DEF pipeVars, offerVars, engineVars, sinkVars
<1>2. /\ pc' \in [Tx -> Steps] /\ job' \in [Tx -> Job \cup {NoJob}]
      /\ answer' \in [Tx -> Answers] /\ lock' \in [Offer -> Tx \cup {Free}]
  BY FinishTx
<1>3. \A u \in Tx : pc'[u] # "idle" =>
        u # t /\ pc[u] # "idle" /\ pc'[u] = pc[u] /\ job'[u] = job[u]
  BY FinishTx
<1>4. \A u \in Tx : u # t => pc'[u] = pc[u] /\ job'[u] = job[u]
  BY FinishTx
<1>5. \A o \in Offer, u \in Tx : u # t /\ lock[o] = u => lock'[o] = u
  BY FinishTx
<1>6. /\ halfDone \subseteq halfDone' /\ halfDone' \subseteq Offer
      /\ pc[t] \in Working \cup {"send"} => job[t].offer \in halfDone'
  OBVIOUS
<1>7. TypeOK'
  BY <1>1, <1>2 DEF TypeOK
<1>8. JobsTyped'
  BY <1>3 DEF JobsTyped
<1>9. InsertsFresh'
  BY <1>1, <1>3 DEF InsertsFresh
<1>10. FilersAlone'
  BY <1>1, <1>3 DEF FilersAlone, Filers, Working
<1>11. ExtendersKnow'
  BY <1>1, <1>3 DEF ExtendersKnow, Approved
<1>12. SendersAlone'
  BY <1>1, <1>3 DEF SendersAlone
<1>13. HirersLock'
  BY <1>1, <1>3, <1>5 DEF HirersLock, JobsTyped, Job
<1>14. LinksAreReal'
  BY <1>1 DEF LinksAreReal
<1>15. AcceptedWithOneEvent'
  BY <1>1 DEF AcceptedWithOneEvent
<1>16. ExtendedOnlyApproved'
  BY <1>1 DEF ExtendedOnlyApproved
<1>17. OneLetterAtMost'
  BY <1>1 DEF OneLetterAtMost
<1>18. DraftsAreFiled'
  BY <1>1, <1>4 DEF DraftsAreFiled, Working
<1>19. NothingSilentlyUnsent'
  BY <1>1, <1>4 DEF NothingSilentlyUnsent
<1> QED
  BY <1>7, <1>8, <1>9, <1>10, <1>11, <1>12, <1>13, <1>14, <1>15, <1>16, <1>17, <1>18, <1>19

(* What the stage engine and the requisition's own verbs do to the rows    *)
(* that the offer verbs only read.                                         *)
LEMMA SurroundingsMove ==
  ASSUME IInv, staged' \subseteq App, barred' \subseteq App,
         status' \in [Req -> Statuses],
         UNCHANGED <<offerVars, engineVars, sinkVars, lock, halfDone, txVars>>
  PROVE  IInv'
<1> USE DEF IInv
<1>1. UNCHANGED <<state, appOf, linked, templated, wired, filed, verdict,
                lettersWired, events, letters, failed, halfDone, lock, pc,
                job, answer>>
  BY DEF offerVars, engineVars, sinkVars, txVars
<1>2. /\ staged' \subseteq App /\ barred' \subseteq App
      /\ status' \in [Req -> Statuses]
  OBVIOUS
<1>3. TypeOK'
  BY <1>1 DEF TypeOK
<1>4. JobsTyped'
  BY <1>1 DEF JobsTyped
<1>5. InsertsFresh'
  BY <1>1 DEF InsertsFresh
<1>6. FilersAlone'
  BY <1>1 DEF FilersAlone
<1>7. ExtendersKnow'
  BY <1>1 DEF ExtendersKnow, Approved
<1>8. SendersAlone'
  BY <1>1 DEF SendersAlone
<1>9. HirersLock'
  BY <1>1 DEF HirersLock
<1>10. LinksAreReal'
  BY <1>1 DEF LinksAreReal
<1>11. AcceptedWithOneEvent'
  BY <1>1 DEF AcceptedWithOneEvent
<1>12. ExtendedOnlyApproved'
  BY <1>1 DEF ExtendedOnlyApproved
<1>13. OneLetterAtMost'
  BY <1>1 DEF OneLetterAtMost
<1>14. DraftsAreFiled'
  BY <1>1 DEF DraftsAreFiled
<1>15. NothingSilentlyUnsent'
  BY <1>1 DEF NothingSilentlyUnsent
<1> QED
  BY <1>3, <1>4, <1>5, <1>6, <1>7, <1>8, <1>9, <1>10, <1>11, <1>12, <1>13, <1>14, <1>15

(* The engine decides a pending request, or is put behind the port.        *)
LEMMA EngineMoves ==
  ASSUME IInv, wired' \in BOOLEAN,
         \/ verdict' = verdict
         \/ \E o \in Offer, v \in {"approved", "rejected"} : Decide(o, v),
         UNCHANGED <<pipeVars, offerVars, filed, sinkVars, lock, halfDone, txVars>>
  PROVE  IInv'
<1> USE DEF IInv
<1>1. UNCHANGED <<staged, barred, status, state, appOf, linked, templated,
                filed, lettersWired, events, letters, failed, halfDone,
                lock, pc, job, answer>>
  BY DEF pipeVars, offerVars, sinkVars, txVars
<1>2. /\ verdict' \in [Offer -> {"pending", "approved", "rejected"}]
      /\ wired' \in BOOLEAN
      /\ \A o \in Offer : verdict[o] = "approved" => verdict'[o] = "approved"
  BY DEF Decide, TypeOK
<1>3. TypeOK'
  BY <1>1, <1>2 DEF TypeOK
<1>4. JobsTyped'
  BY <1>1 DEF JobsTyped
<1>5. InsertsFresh'
  BY <1>1 DEF InsertsFresh
<1>6. FilersAlone'
  BY <1>1 DEF FilersAlone
<1>7. ExtendersKnow'
  BY <1>1, <1>2 DEF ExtendersKnow, Approved, JobsTyped, Job
<1>8. SendersAlone'
  BY <1>1 DEF SendersAlone
<1>9. HirersLock'
  BY <1>1 DEF HirersLock
<1>10. LinksAreReal'
  BY <1>1 DEF LinksAreReal
<1>11. AcceptedWithOneEvent'
  BY <1>1 DEF AcceptedWithOneEvent
<1>12. ExtendedOnlyApproved'
  BY <1>1, <1>2 DEF ExtendedOnlyApproved
<1>13. OneLetterAtMost'
  BY <1>1 DEF OneLetterAtMost
<1>14. DraftsAreFiled'
  BY <1>1 DEF DraftsAreFiled
<1>15. NothingSilentlyUnsent'
  BY <1>1 DEF NothingSilentlyUnsent
<1> QED
  BY <1>3, <1>4, <1>5, <1>6, <1>7, <1>8, <1>9, <1>10, <1>11, <1>12, <1>13, <1>14, <1>15

(* extend read the link of the offer and goes on to ask the engine.        *)
LEMMA BeginExtend ==
  ASSUME IInv, NEW t \in Tx, NEW j \in Job, NEW step \in Steps, Begin(t, step, j),
         step = "verdict", j.offer \in linked,
         UNCHANGED <<pipeVars, offerVars, engineVars, sinkVars, lock, halfDone>>
  PROVE  IInv'
<1> USE DEF IInv
<1>1. UNCHANGED <<staged, barred, status, state, appOf, linked, templated,
                wired, filed, verdict, lettersWired, events, letters,
                failed, halfDone, lock>>
  BY DEF pipeVars, offerVars, engineVars, sinkVars
<1>2. /\ pc' = [pc EXCEPT ![t] = step] /\ job' = [job EXCEPT ![t] = j]
      /\ answer' = [answer EXCEPT ![t] = "none"] /\ pc[t] = "idle"
  BY DEF Begin, Goto
<1>3. /\ \A u \in Tx : u # t => pc'[u] = pc[u] /\ job'[u] = job[u]
      /\ pc'[t] = step /\ job'[t] = j /\ pc[t] = "idle"
  BY <1>2 DEF TypeOK
<1>4. /\ pc' \in [Tx -> Steps] /\ job' \in [Tx -> Job \cup {NoJob}]
      /\ answer' \in [Tx -> Answers]
  BY <1>2 DEF TypeOK, Steps, Answers
<1>5. step = "verdict" /\ j.offer \in linked /\ j \in Job
  OBVIOUS
<1>6. TypeOK'
  BY <1>1, <1>4 DEF TypeOK
<1>7. JobsTyped'
  BY <1>3 DEF JobsTyped
<1>8. InsertsFresh'
  BY <1>1, <1>3 DEF InsertsFresh, LinksAreReal, Job
<1>9. FilersAlone'
  BY <1>1, <1>3 DEF FilersAlone, Filers, Working
<1>10. ExtendersKnow'
  BY <1>1, <1>3 DEF ExtendersKnow, Approved
<1>11. SendersAlone'
  BY <1>1, <1>3 DEF SendersAlone
<1>12. HirersLock'
  BY <1>1, <1>3 DEF HirersLock
<1>13. LinksAreReal'
  BY <1>1 DEF LinksAreReal
<1>14. AcceptedWithOneEvent'
  BY <1>1 DEF AcceptedWithOneEvent
<1>15. ExtendedOnlyApproved'
  BY <1>1 DEF ExtendedOnlyApproved
<1>16. OneLetterAtMost'
  BY <1>1 DEF OneLetterAtMost
<1>17. DraftsAreFiled'
  BY <1>1, <1>3 DEF DraftsAreFiled
<1>18. NothingSilentlyUnsent'
  BY <1>1, <1>3 DEF NothingSilentlyUnsent
<1> QED
  BY <1>6, <1>7, <1>8, <1>9, <1>10, <1>11, <1>12, <1>13, <1>14, <1>15, <1>16, <1>17, <1>18

(* create_draft passed its guards and goes on to insert a new row.         *)
LEMMA BeginDraft ==
  ASSUME IInv, NEW t \in Tx, NEW j \in Job, NEW step \in Steps, Begin(t, step, j),
         step = "insert", Unused(j.offer),
         UNCHANGED <<pipeVars, offerVars, engineVars, sinkVars, lock, halfDone>>
  PROVE  IInv'
<1> USE DEF IInv
<1>1. UNCHANGED <<staged, barred, status, state, appOf, linked, templated,
                wired, filed, verdict, lettersWired, events, letters,
                failed, halfDone, lock>>
  BY DEF pipeVars, offerVars, engineVars, sinkVars
<1>2. /\ pc' = [pc EXCEPT ![t] = step] /\ job' = [job EXCEPT ![t] = j]
      /\ answer' = [answer EXCEPT ![t] = "none"] /\ pc[t] = "idle"
  BY DEF Begin, Goto
<1>3. /\ \A u \in Tx : u # t => pc'[u] = pc[u] /\ job'[u] = job[u]
      /\ pc'[t] = step /\ job'[t] = j /\ pc[t] = "idle"
  BY <1>2 DEF TypeOK
<1>4. /\ pc' \in [Tx -> Steps] /\ job' \in [Tx -> Job \cup {NoJob}]
      /\ answer' \in [Tx -> Answers]
  BY <1>2 DEF TypeOK, Steps, Answers
<1>5. step = "insert" /\ Unused(j.offer) /\ j \in Job
  OBVIOUS
<1>6. TypeOK'
  BY <1>1, <1>4 DEF TypeOK
<1>7. JobsTyped'
  BY <1>3 DEF JobsTyped
<1>8. InsertsFresh'
  BY <1>1, <1>3 DEF InsertsFresh, Unused
<1>9. FilersAlone'
  BY <1>1, <1>3 DEF FilersAlone, Filers, Working, Unused
<1>10. ExtendersKnow'
  BY <1>1, <1>3 DEF ExtendersKnow, Approved
<1>11. SendersAlone'
  BY <1>1, <1>3 DEF SendersAlone
<1>12. HirersLock'
  BY <1>1, <1>3 DEF HirersLock
<1>13. LinksAreReal'
  BY <1>1 DEF LinksAreReal
<1>14. AcceptedWithOneEvent'
  BY <1>1 DEF AcceptedWithOneEvent
<1>15. ExtendedOnlyApproved'
  BY <1>1 DEF ExtendedOnlyApproved
<1>16. OneLetterAtMost'
  BY <1>1 DEF OneLetterAtMost
<1>17. DraftsAreFiled'
  BY <1>1, <1>3 DEF DraftsAreFiled
<1>18. NothingSilentlyUnsent'
  BY <1>1, <1>3 DEF NothingSilentlyUnsent
<1> QED
  BY <1>6, <1>7, <1>8, <1>9, <1>10, <1>11, <1>12, <1>13, <1>14, <1>15, <1>16, <1>17, <1>18

(* hire locked an extended offer and goes on to its commit.                *)
LEMMA BeginHire ==
  ASSUME IInv, NEW t \in Tx, NEW j \in Job, NEW step \in Steps, Begin(t, step, j),
         step = "hire", state[j.offer] = "extended", Lockable(j.offer),
         lock' = [lock EXCEPT ![j.offer] = t],
         UNCHANGED <<pipeVars, offerVars, engineVars, sinkVars, halfDone>>
  PROVE  IInv'
<1> USE DEF IInv
<1>1. UNCHANGED <<staged, barred, status, state, appOf, linked, templated,
                wired, filed, verdict, lettersWired, events, letters,
                failed, halfDone>>
  BY DEF pipeVars, offerVars, engineVars, sinkVars
<1>2. /\ pc' = [pc EXCEPT ![t] = step] /\ job' = [job EXCEPT ![t] = j]
      /\ answer' = [answer EXCEPT ![t] = "none"] /\ pc[t] = "idle"
  BY DEF Begin, Goto
<1>3. /\ \A u \in Tx : u # t => pc'[u] = pc[u] /\ job'[u] = job[u]
      /\ pc'[t] = step /\ job'[t] = j /\ pc[t] = "idle"
  BY <1>2 DEF TypeOK
<1>4. /\ pc' \in [Tx -> Steps] /\ job' \in [Tx -> Job \cup {NoJob}]
      /\ answer' \in [Tx -> Answers]
  BY <1>2 DEF TypeOK, Steps, Answers
<1>5. /\ step = "hire" /\ j \in Job /\ state[j.offer] = "extended"
      /\ lock' \in [Offer -> Tx \cup {Free}] /\ lock'[j.offer] = t
      /\ \A o \in Offer : lock[o] # Free => lock'[o] = lock[o]
  BY DEF TypeOK, Job, Lockable
<1>6. TypeOK'
  BY <1>1, <1>4 DEF TypeOK
<1>7. JobsTyped'
  BY <1>3 DEF JobsTyped
<1>8. InsertsFresh'
  BY <1>1, <1>3 DEF InsertsFresh
<1>9. FilersAlone'
  BY <1>1, <1>3 DEF FilersAlone, Filers, Working
<1>10. ExtendersKnow'
  BY <1>1, <1>3 DEF ExtendersKnow, Approved
<1>11. SendersAlone'
  BY <1>1, <1>3 DEF SendersAlone
<1>12. HirersLock'
  BY <1>1, <1>3, <1>5, OfferAssumption DEF HirersLock
<1>13. LinksAreReal'
  BY <1>1 DEF LinksAreReal
<1>14. AcceptedWithOneEvent'
  BY <1>1 DEF AcceptedWithOneEvent
<1>15. ExtendedOnlyApproved'
  BY <1>1 DEF ExtendedOnlyApproved
<1>16. OneLetterAtMost'
  BY <1>1 DEF OneLetterAtMost
<1>17. DraftsAreFiled'
  BY <1>1, <1>3 DEF DraftsAreFiled
<1>18. NothingSilentlyUnsent'
  BY <1>1, <1>3 DEF NothingSilentlyUnsent
<1> QED
  BY <1>6, <1>7, <1>8, <1>9, <1>10, <1>11, <1>12, <1>13, <1>14, <1>15, <1>16, <1>17, <1>18

(* The row appears as a draft, to be filed by the request that inserted    *)
(* it.                                                                     *)
LEMMA InsertDraftKeeps ==
  ASSUME IInv, NEW t \in Tx, InsertDraft(t)
  PROVE  IInv'
<1> USE DEF IInv
<1>1. UNCHANGED <<staged, barred, status, linked, wired, filed, verdict,
                lettersWired, events, letters, failed, halfDone, lock,
                answer>>
  BY DEF pipeVars, offerVars, engineVars, sinkVars, InsertDraft
<1>2. /\ pc[t] = "insert" /\ pc' = [pc EXCEPT ![t] = "file"] /\ job' = job
  BY DEF InsertDraft, Goto
<1>3. /\ \A u \in Tx : u # t => pc'[u] = pc[u]
      /\ pc'[t] = "file" /\ pc' \in [Tx -> Steps] /\ job[t] \in Job
  BY <1>2 DEF TypeOK, Steps, JobsTyped
<1>4. /\ state' = [state EXCEPT ![job[t].offer] = "draft"]
      /\ state' \in [Offer -> OfferStates] /\ appOf' \in [Offer -> App]
      /\ templated' \subseteq Offer
      /\ \A o \in Offer : o # job[t].offer =>
           state'[o] = state[o] /\ (o \in templated' <=> o \in templated)
      /\ state'[job[t].offer] = "draft" /\ state[job[t].offer] = "none"
      /\ job[t].offer \notin linked
  BY <1>2, <1>3 DEF InsertDraft, TypeOK, OfferStates, Job, InsertsFresh, LinksAreReal
<1>5. TypeOK'
  BY <1>1, <1>2, <1>4 DEF TypeOK, Steps
<1>6. JobsTyped'
  BY <1>2 DEF JobsTyped
<1>7. InsertsFresh'
  BY <1>2, <1>3, <1>4 DEF InsertsFresh
<1>8. FilersAlone'
  BY <1>1, <1>2, <1>4 DEF FilersAlone, Filers
<1>9. ExtendersKnow'
  BY <1>1, <1>2 DEF ExtendersKnow, Approved
<1>10. SendersAlone'
  BY <1>1, <1>2, <1>4 DEF SendersAlone
<1>11. HirersLock'
  BY <1>1, <1>2, <1>4 DEF HirersLock
<1>12. LinksAreReal'
  BY <1>1, <1>4 DEF LinksAreReal
<1>13. AcceptedWithOneEvent'
  BY <1>1, <1>4 DEF AcceptedWithOneEvent
<1>14. ExtendedOnlyApproved'
  BY <1>1, <1>4 DEF ExtendedOnlyApproved
<1>15. OneLetterAtMost'
  BY <1>1, <1>4 DEF OneLetterAtMost
<1>16. DraftsAreFiled'
  BY <1>1, <1>2, <1>3, <1>4 DEF DraftsAreFiled
<1>17. NothingSilentlyUnsent'
  BY <1>1, <1>2, <1>4 DEF NothingSilentlyUnsent
<1> QED
  BY <1>5, <1>6, <1>7, <1>8, <1>9, <1>10, <1>11, <1>12, <1>13, <1>14, <1>15, <1>16, <1>17

(* The engine records the request, or fails before or after that.          *)
LEMMA FileOfferKeeps ==
  ASSUME IInv, NEW t \in Tx, FileOffer(t)
  PROVE  IInv'
<1> USE DEF IInv
<1>1. UNCHANGED <<staged, barred, status, state, appOf, linked, templated,
                wired, verdict, lettersWired, events, letters, failed,
                halfDone, lock, job, answer>>
  BY DEF pipeVars, offerVars, engineVars, sinkVars, FileOffer
<1>2. /\ pc[t] = "file" /\ \A u \in Tx : u # t => pc'[u] = pc[u]
      /\ pc'[t] \in {"stamp", "undo"} /\ pc' \in [Tx -> Steps]
      /\ job[t] \in Job
  BY DEF FileOffer, Goto, TypeOK, Steps, JobsTyped
<1>3. filed \subseteq filed' /\ filed' \subseteq Offer
  BY <1>2 DEF FileOffer, TypeOK, Job
<1>4. TypeOK'
  BY <1>1, <1>2, <1>3 DEF TypeOK
<1>5. JobsTyped'
  BY <1>1, <1>2 DEF JobsTyped
<1>6. InsertsFresh'
  BY <1>1, <1>2 DEF InsertsFresh
<1>7. FilersAlone'
  BY <1>1, <1>2 DEF FilersAlone, Filers, Working, Filers, Working
<1>8. ExtendersKnow'
  BY <1>1, <1>2, <1>3 DEF ExtendersKnow, Approved
<1>9. SendersAlone'
  BY <1>1, <1>2 DEF SendersAlone
<1>10. HirersLock'
  BY <1>1, <1>2 DEF HirersLock
<1>11. LinksAreReal'
  BY <1>1 DEF LinksAreReal
<1>12. AcceptedWithOneEvent'
  BY <1>1 DEF AcceptedWithOneEvent
<1>13. ExtendedOnlyApproved'
  BY <1>1, <1>3 DEF ExtendedOnlyApproved
<1>14. OneLetterAtMost'
  BY <1>1 DEF OneLetterAtMost
<1>15. DraftsAreFiled'
  BY <1>1, <1>2 DEF DraftsAreFiled
<1>16. NothingSilentlyUnsent'
  BY <1>1, <1>2 DEF NothingSilentlyUnsent
<1> QED
  BY <1>4, <1>5, <1>6, <1>7, <1>8, <1>9, <1>10, <1>11, <1>12, <1>13, <1>14, <1>15, <1>16

(* The draft is linked to its request, in whatever state it is by now.     *)
LEMMA StampLinkKeeps ==
  ASSUME IInv, NEW t \in Tx, StampLink(t)
  PROVE  IInv'
<1> USE DEF IInv
<1>1. UNCHANGED <<staged, barred, status, state, appOf, templated, wired,
                filed, verdict, lettersWired, events, letters, failed,
                halfDone>>
  BY DEF pipeVars, offerVars, engineVars, sinkVars, StampLink
<1>2. Finish(t, "ok") /\ "ok" \in Answers
  BY DEF StampLink, Answers
<1>3. /\ pc' \in [Tx -> Steps] /\ job' \in [Tx -> Job \cup {NoJob}]
      /\ answer' \in [Tx -> Answers] /\ lock' \in [Offer -> Tx \cup {Free}]
  BY <1>2, FinishTx
<1>4. \A u \in Tx : pc'[u] # "idle" =>
        u # t /\ pc[u] # "idle" /\ pc'[u] = pc[u] /\ job'[u] = job[u]
  BY <1>2, FinishTx
<1>5. /\ \A u \in Tx : u # t => pc'[u] = pc[u] /\ job'[u] = job[u]
      /\ \A o \in Offer, u \in Tx : u # t /\ lock[o] = u => lock'[o] = u
  BY <1>2, FinishTx
<1>6. /\ pc[t] = "stamp" /\ job[t] \in Job
      /\ linked' = linked \cup {job[t].offer}
  BY DEF StampLink, JobsTyped
<1>7. TypeOK'
  BY <1>1, <1>3, <1>6 DEF TypeOK, Job
<1>8. JobsTyped'
  BY <1>4 DEF JobsTyped
<1>9. InsertsFresh'
  BY <1>1, <1>4 DEF InsertsFresh
<1>10. FilersAlone'
  BY <1>1, <1>4, <1>6 DEF FilersAlone, Filers, Working
<1>11. ExtendersKnow'
  BY <1>1, <1>4, <1>6 DEF ExtendersKnow, Approved
<1>12. SendersAlone'
  BY <1>1, <1>4, <1>6 DEF SendersAlone
<1>13. HirersLock'
  BY <1>1, <1>4, <1>5 DEF HirersLock, JobsTyped, Job
<1>14. LinksAreReal'
  BY <1>1, <1>6 DEF LinksAreReal, FilersAlone, Working
<1>15. AcceptedWithOneEvent'
  BY <1>1 DEF AcceptedWithOneEvent
<1>16. ExtendedOnlyApproved'
  BY <1>1, <1>6 DEF ExtendedOnlyApproved
<1>17. OneLetterAtMost'
  BY <1>1 DEF OneLetterAtMost
<1>18. DraftsAreFiled'
  BY <1>1, <1>5, <1>6 DEF DraftsAreFiled
<1>19. NothingSilentlyUnsent'
  BY <1>1, <1>5, <1>6 DEF NothingSilentlyUnsent
<1> QED
  BY <1>7, <1>8, <1>9, <1>10, <1>11, <1>12, <1>13, <1>14, <1>15, <1>16, <1>17, <1>18, <1>19

(* The filing failed: the draft, or what became of it, is deleted.         *)
LEMMA UndoDraftKeeps ==
  ASSUME IInv, NEW t \in Tx, UndoDraft(t)
  PROVE  IInv'
<1> USE DEF IInv
<1>1. UNCHANGED <<staged, barred, status, appOf, linked, templated, wired,
                filed, verdict, lettersWired, events, letters, failed,
                halfDone>>
  BY DEF pipeVars, offerVars, engineVars, sinkVars, UndoDraft
<1>2. Finish(t, "approval_not_granted") /\ "approval_not_granted" \in Answers
  BY DEF UndoDraft, Answers
<1>3. /\ pc' \in [Tx -> Steps] /\ job' \in [Tx -> Job \cup {NoJob}]
      /\ answer' \in [Tx -> Answers] /\ lock' \in [Offer -> Tx \cup {Free}]
  BY <1>2, FinishTx
<1>4. \A u \in Tx : pc'[u] # "idle" =>
        u # t /\ pc[u] # "idle" /\ pc'[u] = pc[u] /\ job'[u] = job[u]
  BY <1>2, FinishTx
<1>5. /\ \A u \in Tx : u # t => pc'[u] = pc[u] /\ job'[u] = job[u]
      /\ \A o \in Offer, u \in Tx : u # t /\ lock[o] = u => lock'[o] = u
  BY <1>2, FinishTx
<1>6. /\ pc[t] = "undo" /\ job[t] \in Job /\ lock[job[t].offer] = Free
      /\ state[job[t].offer] \in {"draft", "withdrawn"}
      /\ job[t].offer \notin linked
      /\ state' = [state EXCEPT ![job[t].offer] = "deleted"]
  BY DEF UndoDraft, Lockable, JobsTyped, FilersAlone, Working
<1>7. /\ state' \in [Offer -> OfferStates] /\ state'[job[t].offer] = "deleted"
      /\ \A o \in Offer : o # job[t].offer => state'[o] = state[o]
  BY <1>6 DEF TypeOK, OfferStates, Job
<1>8. TypeOK'
  BY <1>1, <1>3, <1>7 DEF TypeOK
<1>9. JobsTyped'
  BY <1>4 DEF JobsTyped
<1>10. InsertsFresh'
  BY <1>4, <1>6 DEF InsertsFresh
<1>11. FilersAlone'
  BY <1>1, <1>4, <1>6 DEF FilersAlone, Filers, Working
<1>12. ExtendersKnow'
  BY <1>1, <1>4 DEF ExtendersKnow, Approved
<1>13. SendersAlone'
  BY <1>1, <1>4, <1>6 DEF SendersAlone
<1>14. HirersLock'
  BY <1>4, <1>5, <1>6 DEF HirersLock, JobsTyped, Job
<1>15. LinksAreReal'
  BY <1>1, <1>7 DEF LinksAreReal
<1>16. AcceptedWithOneEvent'
  BY <1>1, <1>6 DEF AcceptedWithOneEvent
<1>17. ExtendedOnlyApproved'
  BY <1>1, <1>7 DEF ExtendedOnlyApproved
<1>18. OneLetterAtMost'
  BY <1>1, <1>6 DEF OneLetterAtMost, LinksAreReal
<1>19. DraftsAreFiled'
  BY <1>1, <1>5, <1>7 DEF DraftsAreFiled
<1>20. NothingSilentlyUnsent'
  BY <1>1, <1>5, <1>6 DEF NothingSilentlyUnsent
<1> QED
  BY <1>8, <1>9, <1>10, <1>11, <1>12, <1>13, <1>14, <1>15, <1>16, <1>17, <1>18, <1>19, <1>20

(* extend reads the offer's surroundings and waits for the row.            *)
LEMMA SnapshotKeeps ==
  ASSUME IInv, NEW t \in Tx, Snapshot(t)
  PROVE  IInv'
<1> USE DEF IInv
<1>1. UNCHANGED <<staged, barred, status, state, appOf, linked, templated,
                wired, filed, verdict, lettersWired, events, letters,
                failed, halfDone, lock, answer>>
  BY DEF pipeVars, offerVars, engineVars, sinkVars, Snapshot
<1>2. /\ pc[t] = "snapshot" /\ pc' = [pc EXCEPT ![t] = "extend"]
      /\ job' = [job EXCEPT ![t] = Seen(job[t].offer, job[t].app)]
  BY DEF Snapshot, Goto
<1>3. job[t] \in Job /\ Seen(job[t].offer, job[t].app) \in Job
  BY <1>2, SeenIsJob DEF JobsTyped, Job
<1>4. /\ \A u \in Tx : u # t => pc'[u] = pc[u] /\ job'[u] = job[u]
      /\ pc'[t] = "extend" /\ job'[t] \in Job
      /\ job'[t].offer = job[t].offer
      /\ pc' \in [Tx -> Steps] /\ job' \in [Tx -> Job \cup {NoJob}]
  BY <1>2, <1>3 DEF TypeOK, Steps, Seen
<1>5. TypeOK'
  BY <1>1, <1>4 DEF TypeOK
<1>6. JobsTyped'
  BY <1>4 DEF JobsTyped
<1>7. InsertsFresh'
  BY <1>1, <1>2, <1>4 DEF InsertsFresh
<1>8. FilersAlone'
  BY <1>1, <1>4 DEF FilersAlone, Filers, Working
<1>9. ExtendersKnow'
  BY <1>1, <1>2, <1>4 DEF ExtendersKnow, Approved
<1>10. SendersAlone'
  BY <1>1, <1>4 DEF SendersAlone
<1>11. HirersLock'
  BY <1>1, <1>4 DEF HirersLock
<1>12. LinksAreReal'
  BY <1>1 DEF LinksAreReal
<1>13. AcceptedWithOneEvent'
  BY <1>1 DEF AcceptedWithOneEvent
<1>14. ExtendedOnlyApproved'
  BY <1>1 DEF ExtendedOnlyApproved
<1>15. OneLetterAtMost'
  BY <1>1 DEF OneLetterAtMost
<1>16. DraftsAreFiled'
  BY <1>1, <1>2 DEF DraftsAreFiled
<1>17. NothingSilentlyUnsent'
  BY <1>1, <1>2 DEF NothingSilentlyUnsent
<1> QED
  BY <1>5, <1>6, <1>7, <1>8, <1>9, <1>10, <1>11, <1>12, <1>13, <1>14, <1>15, <1>16, <1>17

(* The engine granted what the offer links.                                *)
LEMMA GrantedKeeps ==
  ASSUME IInv, NEW t \in Tx, AskVerdict(t), Granted(job[t].offer)
  PROVE  IInv'
<1> USE DEF IInv
<1>1. UNCHANGED <<staged, barred, status, state, appOf, linked, templated,
                wired, filed, verdict, lettersWired, events, letters,
                failed, halfDone, lock, answer>>
  BY DEF pipeVars, offerVars, engineVars, sinkVars, AskVerdict, Rollback
<1>2. /\ pc[t] = "verdict" /\ pc' = [pc EXCEPT ![t] = "snapshot"] /\ job' = job
  BY DEF AskVerdict, Goto
<1>3. /\ \A u \in Tx : u # t => pc'[u] = pc[u]
      /\ pc'[t] = "snapshot" /\ pc' \in [Tx -> Steps] /\ job[t] \in Job
  BY <1>2 DEF TypeOK, Steps, JobsTyped
<1>4. Approved(job[t].offer)
  BY <1>2 DEF Granted, Approved, ExtendersKnow
<1>5. TypeOK'
  BY <1>1, <1>2 DEF TypeOK, Steps
<1>6. JobsTyped'
  BY <1>2 DEF JobsTyped
<1>7. InsertsFresh'
  BY <1>1, <1>2 DEF InsertsFresh
<1>8. FilersAlone'
  BY <1>1, <1>2 DEF FilersAlone, Filers, Working
<1>9. ExtendersKnow'
  BY <1>1, <1>2, <1>4 DEF ExtendersKnow, Approved
<1>10. SendersAlone'
  BY <1>1, <1>2 DEF SendersAlone
<1>11. HirersLock'
  BY <1>1, <1>2 DEF HirersLock
<1>12. LinksAreReal'
  BY <1>1 DEF LinksAreReal
<1>13. AcceptedWithOneEvent'
  BY <1>1 DEF AcceptedWithOneEvent
<1>14. ExtendedOnlyApproved'
  BY <1>1 DEF ExtendedOnlyApproved
<1>15. OneLetterAtMost'
  BY <1>1 DEF OneLetterAtMost
<1>16. DraftsAreFiled'
  BY <1>1, <1>2 DEF DraftsAreFiled
<1>17. NothingSilentlyUnsent'
  BY <1>1, <1>2 DEF NothingSilentlyUnsent
<1> QED
  BY <1>5, <1>6, <1>7, <1>8, <1>9, <1>10, <1>11, <1>12, <1>13, <1>14, <1>15, <1>16, <1>17

(* An offer without a letter is extended, and extend has finished.         *)
LEMMA ExtendSilently ==
  ASSUME IInv, NEW t \in Tx, ExtendOffer(t), job[t].offer \notin templated
  PROVE  IInv'
<1> USE DEF IInv
<1>1. UNCHANGED <<staged, barred, status, appOf, linked, templated, wired,
                filed, verdict, lettersWired, events, letters, failed,
                halfDone>>
  BY DEF pipeVars, offerVars, engineVars, sinkVars, ExtendOffer
<1>2. Finish(t, "ok") /\ "ok" \in Answers
  BY DEF ExtendOffer, Answers
<1>3. /\ pc' \in [Tx -> Steps] /\ job' \in [Tx -> Job \cup {NoJob}]
      /\ answer' \in [Tx -> Answers] /\ lock' \in [Offer -> Tx \cup {Free}]
  BY <1>2, FinishTx
<1>4. \A u \in Tx : pc'[u] # "idle" =>
        u # t /\ pc[u] # "idle" /\ pc'[u] = pc[u] /\ job'[u] = job[u]
  BY <1>2, FinishTx
<1>5. /\ \A u \in Tx : u # t => pc'[u] = pc[u] /\ job'[u] = job[u]
      /\ \A o \in Offer, u \in Tx : u # t /\ lock[o] = u => lock'[o] = u
  BY <1>2, FinishTx
<1>6. /\ pc[t] = "extend" /\ job[t] \in Job /\ lock[job[t].offer] = Free
      /\ state[job[t].offer] = "draft" /\ Approved(job[t].offer)
      /\ job[t].offer \in templated => lettersWired
      /\ state' = [state EXCEPT ![job[t].offer] = "extended"]
  BY DEF ExtendOffer, Lockable, JobsTyped, ExtendersKnow, Refusal, StateRefusal,
         LetterUnsendable
<1>7. /\ state' \in [Offer -> OfferStates] /\ state'[job[t].offer] = "extended"
      /\ \A o \in Offer : o # job[t].offer => state'[o] = state[o]
      /\ job[t].offer \in Offer
  BY <1>6 DEF TypeOK, OfferStates, Job
<1>8. letters[job[t].offer] = 0
  BY <1>6, <1>7 DEF TypeOK, OneLetterAtMost
<1>9. TypeOK'
  BY <1>1, <1>3, <1>7 DEF TypeOK
<1>10. JobsTyped'
  BY <1>4 DEF JobsTyped
<1>11. InsertsFresh'
  BY <1>4, <1>6 DEF InsertsFresh
<1>12. FilersAlone'
  BY <1>1, <1>4, <1>6 DEF FilersAlone, Filers, Working, Approved
<1>13. ExtendersKnow'
  BY <1>1, <1>4 DEF ExtendersKnow, Approved
<1>14. SendersAlone'
  BY <1>1, <1>4, <1>7 DEF SendersAlone, JobsTyped, Job
<1>15. HirersLock'
  BY <1>4, <1>5, <1>7 DEF HirersLock, JobsTyped, Job
<1>16. LinksAreReal'
  BY <1>1, <1>7 DEF LinksAreReal
<1>17. AcceptedWithOneEvent'
  BY <1>1, <1>6 DEF AcceptedWithOneEvent
<1>18. ExtendedOnlyApproved'
  BY <1>1, <1>6 DEF ExtendedOnlyApproved, Approved
<1>19. OneLetterAtMost'
  BY <1>1, <1>7 DEF OneLetterAtMost
<1>20. DraftsAreFiled'
  BY <1>1, <1>5, <1>7 DEF DraftsAreFiled
<1>21. NothingSilentlyUnsent'
  BY <1>1, <1>5, <1>6 DEF NothingSilentlyUnsent
<1> QED
  BY <1>9, <1>10, <1>11, <1>12, <1>13, <1>14, <1>15, <1>16, <1>17, <1>18, <1>19, <1>20, <1>21

(* An offer with a letter is extended, and its letter is about to go out.  *)
LEMMA ExtendWithLetter ==
  ASSUME IInv, NEW t \in Tx, ExtendOffer(t), job[t].offer \in templated
  PROVE  IInv'
<1> USE DEF IInv
<1>1. UNCHANGED <<staged, barred, status, appOf, linked, templated, wired,
                filed, verdict, lettersWired, events, letters, failed,
                halfDone, lock, answer, job>>
  BY DEF pipeVars, offerVars, engineVars, sinkVars, ExtendOffer
<1>2. /\ pc[t] = "extend" /\ pc' = [pc EXCEPT ![t] = "send"] /\ job' = job
  BY DEF ExtendOffer, Goto
<1>3. /\ \A u \in Tx : u # t => pc'[u] = pc[u]
      /\ pc'[t] = "send" /\ pc' \in [Tx -> Steps] /\ job[t] \in Job
  BY <1>2 DEF TypeOK, Steps, JobsTyped
<1>4. /\ pc[t] = "extend" /\ job[t] \in Job /\ lock[job[t].offer] = Free
      /\ state[job[t].offer] = "draft" /\ Approved(job[t].offer)
      /\ job[t].offer \in templated => lettersWired
      /\ state' = [state EXCEPT ![job[t].offer] = "extended"]
  BY DEF ExtendOffer, Lockable, JobsTyped, ExtendersKnow, Refusal, StateRefusal,
         LetterUnsendable
<1>5. /\ state' \in [Offer -> OfferStates] /\ state'[job[t].offer] = "extended"
      /\ \A o \in Offer : o # job[t].offer => state'[o] = state[o]
      /\ job[t].offer \in Offer
  BY <1>4 DEF TypeOK, OfferStates, Job
<1>6. letters[job[t].offer] = 0
  BY <1>4, <1>5 DEF TypeOK, OneLetterAtMost
<1>7. TypeOK'
  BY <1>1, <1>3, <1>5 DEF TypeOK
<1>8. JobsTyped'
  BY <1>2 DEF JobsTyped
<1>9. InsertsFresh'
  BY <1>2, <1>5 DEF InsertsFresh, JobsTyped, Job
<1>10. FilersAlone'
  BY <1>1, <1>3, <1>4 DEF FilersAlone, Filers, Working, Approved
<1>11. ExtendersKnow'
  BY <1>1, <1>3 DEF ExtendersKnow, Approved
<1>12. SendersAlone'
  BY <1>1, <1>3, <1>4, <1>5, <1>6 DEF SendersAlone, Approved
<1>13. HirersLock'
  BY <1>1, <1>3, <1>5 DEF HirersLock, JobsTyped, Job
<1>14. LinksAreReal'
  BY <1>1, <1>5 DEF LinksAreReal
<1>15. AcceptedWithOneEvent'
  BY <1>1, <1>4 DEF AcceptedWithOneEvent
<1>16. ExtendedOnlyApproved'
  BY <1>1, <1>4 DEF ExtendedOnlyApproved, Approved
<1>17. OneLetterAtMost'
  BY <1>1, <1>5 DEF OneLetterAtMost
<1>18. DraftsAreFiled'
  BY <1>1, <1>3, <1>5 DEF DraftsAreFiled
<1>19. NothingSilentlyUnsent'
  BY <1>1, <1>3, <1>4 DEF NothingSilentlyUnsent
<1> QED
  BY <1>7, <1>8, <1>9, <1>10, <1>11, <1>12, <1>13, <1>14, <1>15, <1>16, <1>17, <1>18, <1>19

(* The letter reaches the sink.                                            *)
LEMMA SendLetterKeeps ==
  ASSUME IInv, NEW t \in Tx, SendLetter(t)
  PROVE  IInv'
<1> USE DEF IInv
<1>1. UNCHANGED <<staged, barred, status, state, appOf, linked, templated,
                wired, filed, verdict, lettersWired, events, failed,
                halfDone>>
  BY DEF pipeVars, offerVars, engineVars, sinkVars, SendLetter
<1>2. Finish(t, "ok") /\ "ok" \in Answers
  BY DEF SendLetter, Answers
<1>3. /\ pc' \in [Tx -> Steps] /\ job' \in [Tx -> Job \cup {NoJob}]
      /\ answer' \in [Tx -> Answers] /\ lock' \in [Offer -> Tx \cup {Free}]
  BY <1>2, FinishTx
<1>4. \A u \in Tx : pc'[u] # "idle" =>
        u # t /\ pc[u] # "idle" /\ pc'[u] = pc[u] /\ job'[u] = job[u]
  BY <1>2, FinishTx
<1>5. /\ \A u \in Tx : u # t => pc'[u] = pc[u] /\ job'[u] = job[u]
      /\ \A o \in Offer, u \in Tx : u # t /\ lock[o] = u => lock'[o] = u
  BY <1>2, FinishTx
<1>6. /\ pc[t] = "send" /\ job[t] \in Job /\ job[t].offer \in Offer
      /\ letters[job[t].offer] = 0
      /\ state[job[t].offer] \notin {"none", "draft", "deleted"}
      /\ job[t].offer \in linked
      /\ \A u \in Tx : pc[u] = "send" /\ job[u].offer = job[t].offer => u = t
  BY DEF SendLetter, JobsTyped, Job, SendersAlone
<1>7. /\ letters' \in [Offer -> Nat] /\ letters'[job[t].offer] = 1
      /\ \A o \in Offer : o # job[t].offer => letters'[o] = letters[o]
  BY <1>6 DEF SendLetter, TypeOK
<1>8. TypeOK'
  BY <1>1, <1>3, <1>7 DEF TypeOK
<1>9. JobsTyped'
  BY <1>4 DEF JobsTyped
<1>10. InsertsFresh'
  BY <1>1, <1>4 DEF InsertsFresh
<1>11. FilersAlone'
  BY <1>1, <1>4 DEF FilersAlone, Filers, Working
<1>12. ExtendersKnow'
  BY <1>1, <1>4 DEF ExtendersKnow, Approved
<1>13. SendersAlone'
  BY <1>1, <1>4, <1>6, <1>7 DEF SendersAlone, JobsTyped, Job
<1>14. HirersLock'
  BY <1>1, <1>4, <1>5 DEF HirersLock, JobsTyped, Job
<1>15. LinksAreReal'
  BY <1>1, <1>6, <1>7 DEF LinksAreReal
<1>16. AcceptedWithOneEvent'
  BY <1>1 DEF AcceptedWithOneEvent
<1>17. ExtendedOnlyApproved'
  BY <1>1 DEF ExtendedOnlyApproved
<1>18. OneLetterAtMost'
  BY <1>1, <1>6, <1>7 DEF OneLetterAtMost
<1>19. DraftsAreFiled'
  BY <1>1, <1>5, <1>6 DEF DraftsAreFiled
<1>20. NothingSilentlyUnsent'
  BY <1>1, <1>5, <1>7 DEF NothingSilentlyUnsent, TypeOK
<1> QED
  BY <1>8, <1>9, <1>10, <1>11, <1>12, <1>13, <1>14, <1>15, <1>16, <1>17, <1>18, <1>19, <1>20

(* The sink reports a failure, whether or not the letter is out.           *)
LEMMA SendFailsKeeps ==
  ASSUME IInv, NEW t \in Tx, SendFails(t)
  PROVE  IInv'
<1> USE DEF IInv
<1>1. UNCHANGED <<staged, barred, status, state, appOf, linked, templated,
                wired, filed, verdict, lettersWired, events, halfDone>>
  BY DEF pipeVars, offerVars, engineVars, sinkVars, SendFails
<1>2. Finish(t, "letter_delivery_failed") /\ "letter_delivery_failed" \in Answers
  BY DEF SendFails, Answers
<1>3. /\ pc' \in [Tx -> Steps] /\ job' \in [Tx -> Job \cup {NoJob}]
      /\ answer' \in [Tx -> Answers] /\ lock' \in [Offer -> Tx \cup {Free}]
  BY <1>2, FinishTx
<1>4. \A u \in Tx : pc'[u] # "idle" =>
        u # t /\ pc[u] # "idle" /\ pc'[u] = pc[u] /\ job'[u] = job[u]
  BY <1>2, FinishTx
<1>5. /\ \A u \in Tx : u # t => pc'[u] = pc[u] /\ job'[u] = job[u]
      /\ \A o \in Offer, u \in Tx : u # t /\ lock[o] = u => lock'[o] = u
  BY <1>2, FinishTx
<1>6. /\ pc[t] = "send" /\ job[t] \in Job /\ job[t].offer \in Offer
      /\ letters[job[t].offer] = 0
      /\ state[job[t].offer] \notin {"none", "draft", "deleted"}
      /\ job[t].offer \in linked
      /\ \A u \in Tx : pc[u] = "send" /\ job[u].offer = job[t].offer => u = t
  BY DEF SendFails, JobsTyped, Job, SendersAlone
<1>7. /\ letters' \in [Offer -> Nat] /\ letters'[job[t].offer] \in {0, 1}
      /\ \A o \in Offer : o # job[t].offer => letters'[o] = letters[o]
      /\ failed' = failed \cup {job[t].offer} /\ failed' \subseteq Offer
  BY <1>6 DEF SendFails, TypeOK
<1>8. TypeOK'
  BY <1>1, <1>3, <1>7 DEF TypeOK
<1>9. JobsTyped'
  BY <1>4 DEF JobsTyped
<1>10. InsertsFresh'
  BY <1>1, <1>4 DEF InsertsFresh
<1>11. FilersAlone'
  BY <1>1, <1>4 DEF FilersAlone, Filers, Working
<1>12. ExtendersKnow'
  BY <1>1, <1>4 DEF ExtendersKnow, Approved
<1>13. SendersAlone'
  BY <1>1, <1>4, <1>6, <1>7 DEF SendersAlone, JobsTyped, Job
<1>14. HirersLock'
  BY <1>1, <1>4, <1>5 DEF HirersLock, JobsTyped, Job
<1>15. LinksAreReal'
  BY <1>1, <1>6, <1>7 DEF LinksAreReal
<1>16. AcceptedWithOneEvent'
  BY <1>1 DEF AcceptedWithOneEvent
<1>17. ExtendedOnlyApproved'
  BY <1>1 DEF ExtendedOnlyApproved
<1>18. OneLetterAtMost'
  BY <1>1, <1>6, <1>7 DEF OneLetterAtMost
<1>19. DraftsAreFiled'
  BY <1>1, <1>5, <1>6 DEF DraftsAreFiled
<1>20. NothingSilentlyUnsent'
  BY <1>1, <1>5, <1>7 DEF NothingSilentlyUnsent, TypeOK
<1> QED
  BY <1>8, <1>9, <1>10, <1>11, <1>12, <1>13, <1>14, <1>15, <1>16, <1>17, <1>18, <1>19, <1>20

(* The acceptance and its event commit together.                           *)
LEMMA CommitHireKeeps ==
  ASSUME IInv, NEW t \in Tx, CommitHire(t)
  PROVE  IInv'
<1> USE DEF IInv
<1>1. UNCHANGED <<staged, barred, status, appOf, linked, templated, wired,
                filed, verdict, lettersWired, letters, failed, halfDone>>
  BY DEF pipeVars, offerVars, engineVars, sinkVars, CommitHire
<1>2. Finish(t, "ok") /\ "ok" \in Answers
  BY DEF CommitHire, Answers
<1>3. /\ pc' \in [Tx -> Steps] /\ job' \in [Tx -> Job \cup {NoJob}]
      /\ answer' \in [Tx -> Answers] /\ lock' \in [Offer -> Tx \cup {Free}]
  BY <1>2, FinishTx
<1>4. \A u \in Tx : pc'[u] # "idle" =>
        u # t /\ pc[u] # "idle" /\ pc'[u] = pc[u] /\ job'[u] = job[u]
  BY <1>2, FinishTx
<1>5. /\ \A u \in Tx : u # t => pc'[u] = pc[u] /\ job'[u] = job[u]
      /\ \A o \in Offer, u \in Tx : u # t /\ lock[o] = u => lock'[o] = u
  BY <1>2, FinishTx
<1>6. /\ pc[t] = "hire" /\ job[t] \in Job /\ job[t].offer \in Offer
      /\ lock[job[t].offer] = t
      /\ state[job[t].offer] = "extended" /\ events[job[t].offer] = 0
  BY DEF CommitHire, JobsTyped, Job, HirersLock, AcceptedWithOneEvent
<1>7. /\ state' \in [Offer -> OfferStates] /\ state'[job[t].offer] = "accepted"
      /\ events' \in [Offer -> Nat] /\ events'[job[t].offer] = 1
      /\ \A o \in Offer : o # job[t].offer =>
           state'[o] = state[o] /\ events'[o] = events[o]
  BY <1>6 DEF CommitHire, TypeOK, OfferStates
<1>8. TypeOK'
  BY <1>1, <1>3, <1>7 DEF TypeOK
<1>9. JobsTyped'
  BY <1>4 DEF JobsTyped
<1>10. InsertsFresh'
  BY <1>4, <1>6, <1>7 DEF InsertsFresh, JobsTyped, Job
<1>11. FilersAlone'
  BY <1>1, <1>4, <1>6, <1>7 DEF FilersAlone, Filers, Working, JobsTyped, Job
<1>12. ExtendersKnow'
  BY <1>1, <1>4 DEF ExtendersKnow, Approved
<1>13. SendersAlone'
  BY <1>1, <1>4, <1>7 DEF SendersAlone, JobsTyped, Job
<1>14. HirersLock'
  BY <1>4, <1>5, <1>6, <1>7 DEF HirersLock, JobsTyped, Job
<1>15. LinksAreReal'
  BY <1>1, <1>7 DEF LinksAreReal
<1>16. AcceptedWithOneEvent'
  BY <1>7 DEF AcceptedWithOneEvent
<1>17. ExtendedOnlyApproved'
  BY <1>1, <1>6, <1>7 DEF ExtendedOnlyApproved
<1>18. OneLetterAtMost'
  BY <1>1, <1>7 DEF OneLetterAtMost
<1>19. DraftsAreFiled'
  BY <1>1, <1>5, <1>7 DEF DraftsAreFiled
<1>20. NothingSilentlyUnsent'
  BY <1>1, <1>5, <1>7 DEF NothingSilentlyUnsent, TypeOK
<1> QED
  BY <1>8, <1>9, <1>10, <1>11, <1>12, <1>13, <1>14, <1>15, <1>16, <1>17, <1>18, <1>19, <1>20

(* decline and withdraw move an offer from draft or extended.              *)
LEMMA CasKeeps ==
  ASSUME IInv, NEW t \in Tx, NEW o \in Offer, NEW from, NEW to, Cas(t, o, from, to),
         state[o] \in from, from \subseteq {"draft", "extended"},
         to \in {"declined", "withdrawn"}, to = "declined" => "draft" \notin from
  PROVE  IInv'
<1> USE DEF IInv
<1>1. UNCHANGED <<staged, barred, status, appOf, linked, templated, wired,
                filed, verdict, lettersWired, events, letters, failed,
                halfDone>>
  BY DEF pipeVars, offerVars, engineVars, sinkVars, Cas, Rollback
<1>2. Finish(t, "ok") /\ state' = [state EXCEPT ![o] = to] /\ pc[t] = "idle"
      /\ lock[o] = Free /\ "ok" \in Answers
  BY DEF Cas, Rollback, Lockable, Answers
<1>3. /\ pc' \in [Tx -> Steps] /\ job' \in [Tx -> Job \cup {NoJob}]
      /\ answer' \in [Tx -> Answers] /\ lock' \in [Offer -> Tx \cup {Free}]
  BY <1>2, FinishTx
<1>4. \A u \in Tx : pc'[u] # "idle" =>
        u # t /\ pc[u] # "idle" /\ pc'[u] = pc[u] /\ job'[u] = job[u]
  BY <1>2, FinishTx
<1>5. /\ \A u \in Tx : u # t => pc'[u] = pc[u] /\ job'[u] = job[u]
      /\ \A p \in Offer, u \in Tx : u # t /\ lock[p] = u => lock'[p] = u
  BY <1>2, FinishTx
<1>6. /\ state[o] \in {"draft", "extended"}
      /\ to \in {"declined", "withdrawn"} /\ to = "declined" => state[o] = "extended"
      /\ state' \in [Offer -> OfferStates] /\ state'[o] = to
      /\ \A p \in Offer : p # o => state'[p] = state[p]
  BY <1>2 DEF TypeOK, OfferStates
<1>7. TypeOK'
  BY <1>1, <1>3, <1>6 DEF TypeOK
<1>8. JobsTyped'
  BY <1>4 DEF JobsTyped
<1>9. InsertsFresh'
  BY <1>4, <1>6 DEF InsertsFresh, JobsTyped, Job
<1>10. FilersAlone'
  BY <1>1, <1>2, <1>4 DEF FilersAlone, Filers, Working
<1>11. ExtendersKnow'
  BY <1>1, <1>4 DEF ExtendersKnow, Approved
<1>12. SendersAlone'
  BY <1>1, <1>4, <1>6 DEF SendersAlone, JobsTyped, Job
<1>13. HirersLock'
  BY <1>2, <1>4, <1>5, OfferAssumption DEF HirersLock, JobsTyped, Job
<1>14. LinksAreReal'
  BY <1>1, <1>6 DEF LinksAreReal
<1>15. AcceptedWithOneEvent'
  BY <1>1, <1>6 DEF AcceptedWithOneEvent
<1>16. ExtendedOnlyApproved'
  BY <1>1, <1>6 DEF ExtendedOnlyApproved
<1>17. OneLetterAtMost'
  BY <1>1, <1>6 DEF OneLetterAtMost
<1>18. DraftsAreFiled'
  BY <1>1, <1>2, <1>5 DEF DraftsAreFiled
<1>19. NothingSilentlyUnsent'
  BY <1>1, <1>2, <1>5 DEF NothingSilentlyUnsent
<1> QED
  BY <1>7, <1>8, <1>9, <1>10, <1>11, <1>12, <1>13, <1>14, <1>15, <1>16, <1>17, <1>18, <1>19

-----------------------------------------------------------------------------
(* Every step keeps the invariant.                                         *)

LEMMA RollbackKeeps ==
  ASSUME IInv, NEW t \in Tx, NEW ans \in Answers, Rollback(t, ans),
         pc[t] \notin Working \cup {"send"}
  PROVE  IInv'
<1>1. /\ Finish(t, ans)
      /\ UNCHANGED <<pipeVars, offerVars, engineVars, sinkVars>>
      /\ halfDone' = halfDone /\ halfDone \subseteq Offer
  BY DEF Rollback, IInv, TypeOK
<1> QED
  BY <1>1, GivingUp

LEMMA CrashKeeps ==
  ASSUME IInv, NEW t \in Tx, Crash(t)
  PROVE  IInv'
<1>1. /\ Finish(t, "internal_error") /\ "internal_error" \in Answers
      /\ UNCHANGED <<pipeVars, offerVars, engineVars, sinkVars>>
  BY DEF Crash, Answers
<1>2. pc[t] # "idle" /\ job[t] \in Job /\ halfDone \subseteq Offer
  BY DEF Crash, IInv, JobsTyped, TypeOK
<1>3. /\ halfDone \subseteq halfDone' /\ halfDone' \subseteq Offer
      /\ pc[t] \in Working \cup {"send"} => job[t].offer \in halfDone'
  BY <1>2 DEF Crash, Working, Job
<1> QED
  BY <1>1, <1>3, GivingUp

LEMMA FileUnwiredKeeps ==
  ASSUME IInv, NEW t \in Tx, FileUnwired(t)
  PROVE  IInv'
<1>1. /\ Finish(t, "ok") /\ "ok" \in Answers
      /\ UNCHANGED <<pipeVars, offerVars, engineVars, sinkVars>>
      /\ halfDone' = halfDone \cup {job[t].offer}
  BY DEF FileUnwired, Answers
<1>2. job[t] \in Job /\ halfDone \subseteq Offer
  BY DEF FileUnwired, IInv, JobsTyped, TypeOK
<1> QED
  BY <1>1, <1>2, GivingUp DEF Job

LEMMA StartDraftKeeps ==
  ASSUME IInv, NEW t \in Tx, NEW o \in Offer, NEW a \in Offered, StartDraft(t, o, a)
  PROVE  IInv'
<1>1. CASE pc[t] = "idle" /\ Rollback(t, "application_refused")
  BY <1>1, RollbackKeeps DEF Answers, Working
<1>2. CASE pc[t] = "idle" /\ Rollback(t, "no_open_headcount")
  BY <1>2, RollbackKeeps DEF Answers, Working
<1>3. CASE /\ Begin(t, "insert", Seen(o, a))
           /\ UNCHANGED <<pipeVars, offerVars, engineVars, sinkVars, lock,
                          halfDone>>
  <2>1. Seen(o, a) \in Job /\ Seen(o, a).offer = o /\ Unused(o)
    BY SeenIsJob, OfferAssumption DEF Seen, StartDraft
  <2> QED
    BY <1>3, <2>1, BeginDraft DEF Steps
<1> QED
  BY <1>1, <1>2, <1>3 DEF StartDraft

LEMMA StartExtendKeeps ==
  ASSUME IInv, NEW t \in Tx, NEW o \in Offer, StartExtend(t, o)
  PROVE  IInv'
<1>1. CASE pc[t] = "idle" /\ Rollback(t, "approval_not_granted")
  BY <1>1, RollbackKeeps DEF Answers, Working
<1>2. CASE /\ o \in linked /\ Begin(t, "verdict", Seen(o, appOf[o]))
           /\ UNCHANGED <<pipeVars, offerVars, engineVars, sinkVars, lock,
                          halfDone>>
  <2>1. /\ Seen(o, appOf[o]) \in Job
        /\ Seen(o, appOf[o]).offer = o
    <3>1. appOf[o] \in App
      BY DEF IInv, TypeOK
    <3> QED
      BY <3>1, SeenIsJob DEF Seen
  <2> QED
    BY <1>2, <2>1, BeginExtend DEF Steps
<1> QED
  BY <1>1, <1>2 DEF StartExtend

LEMMA StartHireKeeps ==
  ASSUME IInv, NEW t \in Tx, NEW o \in Offer, StartHire(t, o)
  PROVE  IInv'
<1>1. CASE pc[t] = "idle" /\ Rollback(t, "no_op")
  BY <1>1, RollbackKeeps DEF Answers, Working
<1>2. CASE pc[t] = "idle" /\ Rollback(t, "not_extensible")
  BY <1>2, RollbackKeeps DEF Answers, Working
<1>3. CASE pc[t] = "idle" /\ Rollback(t, "application_not_hired")
  BY <1>3, RollbackKeeps DEF Answers, Working
<1>4. CASE /\ state[o] = "extended" /\ Begin(t, "hire", Seen(o, appOf[o]))
           /\ lock' = [lock EXCEPT ![o] = t]
           /\ UNCHANGED <<pipeVars, offerVars, engineVars, sinkVars, halfDone>>
  <2>1. appOf[o] \in App /\ Lockable(o)
    BY DEF IInv, TypeOK, StartHire
  <2>2. Seen(o, appOf[o]) \in Job /\ Seen(o, appOf[o]).offer = o
    BY <2>1, SeenIsJob DEF Seen
  <2> QED
    BY <1>4, <2>1, <2>2, BeginHire DEF Steps
<1> QED
  BY <1>1, <1>2, <1>3, <1>4 DEF StartHire

LEMMA DeclineWithdrawKeep ==
  ASSUME IInv, NEW t \in Tx, NEW o \in Offer, Decline(t, o) \/ Withdraw(t, o)
  PROVE  IInv'
<1>1. CASE pc[t] = "idle" /\ Rollback(t, "not_extensible")
  BY <1>1, RollbackKeeps DEF Answers, Working
<1>2. CASE Decline(t, o) /\ state[o] = "extended"
  BY <1>2, CasKeeps DEF Decline
<1>3. CASE Withdraw(t, o) /\ state[o] \in {"draft", "extended"}
  BY <1>3, CasKeeps DEF Withdraw
<1> QED
  BY <1>1, <1>2, <1>3 DEF Decline, Withdraw, Cas

LEMMA ExtendKeeps ==
  ASSUME IInv, NEW t \in Tx, AskVerdict(t) \/ ExtendRefused(t) \/ ExtendOffer(t)
  PROVE  IInv'
<1>1. CASE AskVerdict(t) /\ ~Granted(job[t].offer)
  BY <1>1, RollbackKeeps DEF AskVerdict, Answers, Working
<1>2. CASE AskVerdict(t) /\ Granted(job[t].offer)
  BY <1>2, GrantedKeeps
<1>3. CASE ExtendRefused(t)
  <2>1. Refusal(job[t]) \in Answers
    BY DEF Refusal, StateRefusal, Answers
  <2> QED
    BY <1>3, <2>1, RollbackKeeps DEF ExtendRefused, Working
<1>4. CASE ExtendOffer(t)
  BY <1>4, ExtendSilently, ExtendWithLetter
<1> QED
  BY <1>1, <1>2, <1>3, <1>4

LEMMA SurroundingsKeep ==
  ASSUME IInv,
         \/ \E a \in App : EnterHired(a) \/ LeaveHired(a) \/ Refuse(a)
         \/ \E r \in Req, v \in LifecycleVerbs : MoveStatus(r, v)
         \/ \E o \in Offer, v \in {"approved", "rejected"} : Decide(o, v)
         \/ SetApprovals
  PROVE  IInv'
<1>1. ASSUME NEW a \in App, EnterHired(a) \/ LeaveHired(a) \/ Refuse(a)
      PROVE  IInv'
  BY <1>1, SurroundingsMove
  DEF EnterHired, LeaveHired, Refuse, PipelineOnly, IInv, TypeOK
<1>2. ASSUME NEW r \in Req, NEW v \in LifecycleVerbs, MoveStatus(r, v)
      PROVE  IInv'
  <2>1. /\ status' \in [Req -> Statuses] /\ staged' = staged /\ barred' = barred
        /\ UNCHANGED <<offerVars, engineVars, sinkVars, lock, halfDone, txVars>>
    BY <1>2 DEF MoveStatus, LifecycleVerbs, VerbTo, Statuses, IInv, TypeOK
  <2> QED
    BY <2>1, SurroundingsMove DEF IInv, TypeOK
<1>3. ASSUME NEW o \in Offer, NEW v \in {"approved", "rejected"}, Decide(o, v)
      PROVE  IInv'
  <2>1. /\ wired' \in BOOLEAN
        /\ UNCHANGED <<pipeVars, offerVars, filed, sinkVars, lock, halfDone, txVars>>
    BY <1>3 DEF Decide, IInv, TypeOK
  <2> QED
    BY <1>3, <2>1, EngineMoves
<1>4. CASE SetApprovals
  BY <1>4, EngineMoves DEF SetApprovals
<1> QED
  BY <1>1, <1>2, <1>3, <1>4

LEMMA StutterKeeps ==
  ASSUME IInv, UNCHANGED vars
  PROVE  IInv'
<1>1. /\ UNCHANGED <<offerVars, engineVars, sinkVars, lock, halfDone, txVars>>
      /\ staged' \subseteq App /\ barred' \subseteq App
      /\ status' \in [Req -> Statuses]
  BY DEF vars, pipeVars, IInv, TypeOK
<1> QED
  BY <1>1, SurroundingsMove

LEMMA StepKeeps ==
  ASSUME IInv, [Next]_vars
  PROVE  IInv'
<1>1. ASSUME NEW t \in Tx, Progress(t)
      PROVE  IInv'
  BY <1>1, InsertDraftKeeps, FileUnwiredKeeps, FileOfferKeeps, StampLinkKeeps,
     UndoDraftKeeps, ExtendKeeps, SnapshotKeeps, SendLetterKeeps, SendFailsKeeps,
     CommitHireKeeps DEF Progress
<1>2. ASSUME NEW t \in Tx, NEW o \in Offer,
             StartExtend(t, o) \/ StartHire(t, o) \/ Decline(t, o) \/ Withdraw(t, o)
      PROVE  IInv'
  BY <1>2, StartExtendKeeps, StartHireKeeps, DeclineWithdrawKeep
<1> QED
  BY <1>1, <1>2, StartDraftKeeps, CrashKeeps, SurroundingsKeep, StutterKeeps
  DEF Next

LEMMA InitHolds ==
  ASSUME Init
  PROVE  IInv
<1>1. TypeOK
  <2>1. (CHOOSE a \in Offered : TRUE) \in App
    BY OfferAssumption
  <2> QED
    BY <2>1 DEF Init, TypeOK, Statuses, OfferStates, Steps, Answers
<1>2. JobsTyped /\ InsertsFresh /\ FilersAlone /\ ExtendersKnow /\ SendersAlone
  BY DEF Init, JobsTyped, InsertsFresh, FilersAlone, Filers, Working,
         ExtendersKnow, SendersAlone
<1>3. HirersLock /\ LinksAreReal /\ AcceptedWithOneEvent /\ ExtendedOnlyApproved
  BY DEF Init, HirersLock, LinksAreReal, AcceptedWithOneEvent, ExtendedOnlyApproved
<1>4. OneLetterAtMost /\ DraftsAreFiled /\ NothingSilentlyUnsent
  BY DEF Init, OneLetterAtMost, DraftsAreFiled, NothingSilentlyUnsent
<1> QED
  BY <1>1, <1>2, <1>3, <1>4 DEF IInv

-----------------------------------------------------------------------------
(* The offers on their own.                                                *)

(* The invariant holds in every reachable state of the offer verbs.        *)
THEOREM OffersInvariant == Spec => []IInv
<1>1. Init => IInv
  BY InitHolds
<1>2. IInv /\ [Next]_vars => IInv'
  BY StepKeeps
<1> QED
  BY <1>1, <1>2, PTL DEF Spec

LEMMA SettledStep ==
  ASSUME IInv, [Next]_vars, NEW o \in Offer
  PROVE  /\ state[o] \in {"accepted", "declined", "deleted"} => state'[o] = state[o]
         /\ state[o] = "withdrawn" => state'[o] \in {"withdrawn", "deleted"}
         /\ state[o] = "extended" =>
              state'[o] \in {"extended", "accepted", "declined", "withdrawn"}
<1> USE DEF IInv
<1> DEFINE Settled ==
      /\ state[o] \in {"accepted", "declined", "deleted"} => state'[o] = state[o]
      /\ state[o] = "withdrawn" => state'[o] \in {"withdrawn", "deleted"}
      /\ state[o] = "extended" =>
           state'[o] \in {"extended", "accepted", "declined", "withdrawn"}
<1>1. CASE state' = state
  BY <1>1
<1>2. ASSUME NEW t \in Tx, InsertDraft(t)
      PROVE  Settled
  <2>1. job[t] \in Job /\ state[job[t].offer] = "none"
    BY <1>2 DEF InsertDraft, JobsTyped, InsertsFresh
  <2> QED
    BY <1>2, <2>1 DEF InsertDraft, TypeOK
<1>3. ASSUME NEW t \in Tx, UndoDraft(t)
      PROVE  Settled
  <2>1. state[job[t].offer] \in {"draft", "withdrawn"}
    BY <1>3 DEF UndoDraft, FilersAlone, Working
  <2> QED
    BY <1>3, <2>1 DEF UndoDraft, TypeOK
<1>4. ASSUME NEW t \in Tx, ExtendOffer(t)
      PROVE  Settled
  <2>1. state[job[t].offer] = "draft"
    BY <1>4 DEF ExtendOffer, Refusal, StateRefusal
  <2> QED
    BY <1>4, <2>1 DEF ExtendOffer, TypeOK
<1>5. ASSUME NEW t \in Tx, CommitHire(t)
      PROVE  Settled
  <2>1. state[job[t].offer] = "extended"
    BY <1>5 DEF CommitHire, HirersLock
  <2> QED
    BY <1>5, <2>1 DEF CommitHire, TypeOK
<1>6. ASSUME NEW t \in Tx, NEW p \in Offer, Decline(t, p) \/ Withdraw(t, p)
      PROVE  Settled
  BY <1>6 DEF Decline, Withdraw, Cas, Rollback, offerVars, TypeOK
<1>7. ASSUME NEW t \in Tx, Progress(t)
      PROVE  Settled
  <2>1. InsertDraft(t) \/ UndoDraft(t) \/ ExtendOffer(t) \/ CommitHire(t)
          \/ state' = state
    BY <1>7 DEF Progress, FileUnwired, FileOffer, StampLink, AskVerdict, Rollback,
                Snapshot, ExtendRefused, SendLetter, SendFails, offerVars
  <2> QED
    BY <2>1, <1>1, <1>2, <1>3, <1>4, <1>5
<1>8. ASSUME NEW t \in Tx, NEW p \in Offer, StartExtend(t, p) \/ StartHire(t, p)
      PROVE  state' = state
  BY <1>8 DEF StartExtend, StartHire, Rollback, offerVars
<1>9. ASSUME NEW t \in Tx, NEW p \in Offer, NEW a \in Offered, StartDraft(t, p, a)
      PROVE  state' = state
  BY <1>9 DEF StartDraft, Rollback, offerVars
<1>10. ASSUME NEW t \in Tx, Crash(t)
       PROVE  state' = state
  BY <1>10 DEF Crash, offerVars
<1>11. ASSUME \/ \E a \in App : EnterHired(a) \/ LeaveHired(a) \/ Refuse(a)
              \/ \E r \in Req, v \in LifecycleVerbs : MoveStatus(r, v)
              \/ \E p \in Offer, v \in {"approved", "rejected"} : Decide(p, v)
              \/ SetApprovals
       PROVE  state' = state
  BY <1>11 DEF EnterHired, LeaveHired, Refuse, PipelineOnly, MoveStatus, Decide,
               SetApprovals, offerVars
<1>12. CASE UNCHANGED vars
  BY <1>12, <1>1 DEF vars, offerVars
<1> QED
  BY <1>1, <1>6, <1>7, <1>8, <1>9, <1>10, <1>11, <1>12 DEF Next

(* Settled offers stay settled, for any number of requests at once.        *)
THEOREM SettledOffers == Spec => SettledOffersStay
<1>1. IInv /\ [Next]_vars =>
        [\A o \in Offer :
           /\ state[o] \in {"accepted", "declined", "deleted"} =>
                state'[o] = state[o]
           /\ state[o] = "withdrawn" => state'[o] \in {"withdrawn", "deleted"}
           /\ state[o] = "extended" =>
                state'[o] \in {"extended", "accepted", "declined", "withdrawn"}]_vars
  BY SettledStep
<1> QED
  BY <1>1, OffersInvariant, PTL DEF Spec, SettledOffersStay

-----------------------------------------------------------------------------
(* The offers with the relay and the consumer behind them.                 *)

(* What the relay and the consumer do leaves the offers alone: the hand-off *)
(* adds to the offer verbs and takes nothing away.                         *)
THEOREM HandoffKeepsOffers == HandoffSpec => Spec
<1>1. HandoffInit => Init
  BY DEF HandoffInit
<1>2. [HandoffNext]_handoffVars => [Next]_vars
  BY DEF HandoffNext, handoffVars, Consume, MarkPublished
<1> QED
  BY <1>1, <1>2, PTL DEF HandoffSpec, Spec

(* The consumer makes one employee of each row it claims; the relay marks  *)
(* no row before that.                                                     *)
ClaimsAreEmployees ==
  \A o \in Offer :
    employees[o] = inbox[o] /\ inbox[o] <= events[o] /\ published[o] <= inbox[o]

HInv == IInv /\ HandoffTypeOK /\ ClaimsAreEmployees

(* No step takes back an event that was staged.                            *)
LEMMA EventsStay ==
  ASSUME IInv, [Next]_vars, NEW o \in Offer
  PROVE  events'[o] >= events[o]
<1>1. IInv'
  BY StepKeeps
<1>2. state[o] = "accepted" => state'[o] = "accepted"
  BY SettledStep
<1> QED
  BY <1>1, <1>2 DEF IInv, AcceptedWithOneEvent

LEMMA HandoffStepKeeps ==
  ASSUME HInv, [HandoffNext]_handoffVars
  PROVE  HInv'
<1> USE DEF HInv
<1>1. [Next]_vars
  BY DEF HandoffNext, handoffVars, Consume, MarkPublished
<1>2. IInv'
  BY <1>1, StepKeeps
<1>3. CASE (Next /\ UNCHANGED relayVars) \/ UNCHANGED handoffVars
  <2>1. UNCHANGED <<published, inbox, employees>>
    BY <1>3 DEF relayVars, handoffVars
  <2>2. HandoffTypeOK'
    BY <1>2, <2>1 DEF HandoffTypeOK, IInv
  <2>3. ClaimsAreEmployees'
    BY <1>1, <1>2, <2>1, EventsStay
    DEF ClaimsAreEmployees, HandoffTypeOK, IInv, TypeOK
  <2> QED
    BY <1>2, <2>2, <2>3
<1>4. ASSUME NEW o \in Offer, Consume(o)
      PROVE  HInv'
  <2>1. HandoffTypeOK'
    BY <1>2, <1>4 DEF HandoffTypeOK, IInv, Consume
  <2>2. ClaimsAreEmployees'
    BY <1>4 DEF ClaimsAreEmployees, HandoffTypeOK, Consume, vars, sinkVars, TypeOK
  <2> QED
    BY <1>2, <2>1, <2>2
<1>5. ASSUME NEW o \in Offer, MarkPublished(o)
      PROVE  HInv'
  <2>1. HandoffTypeOK'
    BY <1>2, <1>5 DEF HandoffTypeOK, IInv, MarkPublished
  <2>2. ClaimsAreEmployees'
    BY <1>5 DEF ClaimsAreEmployees, HandoffTypeOK, MarkPublished, vars, sinkVars
  <2> QED
    BY <1>2, <2>1, <2>2
<1> QED
  BY <1>3, <1>4, <1>5 DEF HandoffNext

(* The invariant of the offers with the relay and the consumer.            *)
THEOREM HandoffInvariant == HandoffSpec => []HInv
<1>1. ASSUME HandoffInit
      PROVE  HInv
  <2>1. IInv
    BY <1>1, InitHolds DEF HandoffInit
  <2>2. HandoffTypeOK
    BY <1>1, <2>1 DEF HandoffInit, HandoffTypeOK, IInv
  <2>3. ClaimsAreEmployees
    BY <1>1 DEF HandoffInit, Init, ClaimsAreEmployees
  <2> QED
    BY <2>1, <2>2, <2>3 DEF HInv
<1>2. HInv /\ [HandoffNext]_handoffVars => HInv'
  BY HandoffStepKeeps
<1> QED
  BY <1>1, <1>2, PTL DEF HandoffSpec

(* Everything keeps its type.                                              *)
THEOREM HandoffTypes == HandoffSpec => []HandoffTypeOK
BY HandoffInvariant, PTL DEF HInv

(* One event for an accepted offer and none for any other.                 *)
THEOREM OneEvent == HandoffSpec => []AcceptedWithOneEvent
BY HandoffInvariant, PTL DEF HInv, IInv

(* Nothing is extended that the approvals engine has not approved.         *)
THEOREM OnlyApproved == HandoffSpec => []ExtendedOnlyApproved
BY HandoffInvariant, PTL DEF HInv, IInv

(* At most one letter for an offer, and only for an extended one.          *)
THEOREM OneLetter == HandoffSpec => []OneLetterAtMost
BY HandoffInvariant, PTL DEF HInv, IInv

(* A draft is linked, being filed, or known to be half-done.               *)
THEOREM Filed == HandoffSpec => []DraftsAreFiled
BY HandoffInvariant, PTL DEF HInv, IInv

(* An extended offer has its letter out, on its way, or known to be lost.  *)
THEOREM NothingUnsent == HandoffSpec => []NothingSilentlyUnsent
BY HandoffInvariant, PTL DEF HInv, IInv

(* One employee for an accepted and approved offer, however often its row  *)
(* is handed over, and none for any other.                                 *)
THEOREM OneEmployee == HandoffSpec => []EmployeesComeFromAcceptedOffers
<1>1. HInv => EmployeesComeFromAcceptedOffers
  BY DEF HInv, IInv, HandoffTypeOK, TypeOK, ClaimsAreEmployees,
         AcceptedWithOneEvent, ExtendedOnlyApproved, EmployeesComeFromAcceptedOffers
<1> QED
  BY <1>1, HandoffInvariant, PTL

-----------------------------------------------------------------------------
(* The offers and what is around them.                                     *)


(* Requests to the engine are about rows that were inserted.               *)
FiledRows == \A o \in filed : state[o] # "none"

(* Whoever is about to send a letter was granted the extension before.     *)
SendersApproved == \A t \in Tx : pc[t] = "send" => Approved(job[t].offer)

(* A request that extends or hires works with the offer's own application. *)
SameApplication ==
  \A t \in Tx : pc[t] \in {"verdict", "snapshot", "extend", "hire"} =>
    /\ job[t].app = appOf[job[t].offer]
    /\ state[job[t].offer] # "none"

JInv == FiledRows /\ SendersApproved /\ SameApplication

-----------------------------------------------------------------------------
(* What one step does.                                                     *)

(* The steps that change the state of an offer, and what they take.        *)
OfferMove(o, to) ==
  /\ state' = [state EXCEPT ![o] = to]
  /\ <<state[o], to>> \in Promise!Edges
  /\ to = "extended" =>
       /\ Approved(o)
       /\ \E t \in Tx : pc[t] = "extend" /\ job[t].offer = o /\ Refusal(job[t]) = "none"
  /\ to = "accepted" => \E t \in Tx : pc[t] = "hire" /\ job[t].offer = o
  /\ UNCHANGED <<filed, verdict, letters>>

Moves == state' = state \/ \E o \in Offer, to \in OfferStates : OfferMove(o, to)

LEMMA OffersMove ==
  ASSUME IInv, [Next]_vars
  PROVE  Moves
<1> USE DEF IInv
<1>1. ASSUME NEW t \in Tx, InsertDraft(t)
      PROVE  Moves
  <2>1. PICK o \in Offer : o = job[t].offer
    BY <1>1 DEF InsertDraft, JobsTyped, Job
  <2>2. state[o] = "none"
    BY <1>1, <2>1 DEF InsertDraft, InsertsFresh
  <2>3. OfferMove(o, "draft")
    BY <1>1, <2>1, <2>2
    DEF InsertDraft, OfferMove, Promise!Edges, engineVars, sinkVars
  <2> QED
    BY <2>3 DEF Moves, OfferStates
<1>2. ASSUME NEW t \in Tx, UndoDraft(t)
      PROVE  Moves
  <2>1. PICK o \in Offer : o = job[t].offer
    BY <1>2 DEF UndoDraft, JobsTyped, Job
  <2>2. state[o] \in {"draft", "withdrawn"}
    BY <1>2, <2>1 DEF UndoDraft, FilersAlone, Working
  <2>3. OfferMove(o, "deleted")
    BY <1>2, <2>1, <2>2
    DEF UndoDraft, OfferMove, Promise!Edges, engineVars, sinkVars
  <2> QED
    BY <2>3 DEF Moves, OfferStates
<1>3. ASSUME NEW t \in Tx, ExtendOffer(t)
      PROVE  Moves
  <2>1. PICK o \in Offer : o = job[t].offer
    BY <1>3 DEF ExtendOffer, JobsTyped, Job
  <2>2. state[o] = "draft" /\ pc[t] = "extend" /\ Refusal(job[t]) = "none"
    BY <1>3, <2>1 DEF ExtendOffer, Refusal, StateRefusal
  <2>3. Approved(o)
    BY <2>1, <2>2 DEF ExtendersKnow
  <2>4. OfferMove(o, "extended")
    BY <1>3, <2>1, <2>2, <2>3
    DEF ExtendOffer, OfferMove, Promise!Edges, engineVars, sinkVars
  <2> QED
    BY <2>4 DEF Moves, OfferStates
<1>4. ASSUME NEW t \in Tx, CommitHire(t)
      PROVE  Moves
  <2>1. PICK o \in Offer : o = job[t].offer
    BY <1>4 DEF CommitHire, JobsTyped, Job
  <2>2. state[o] = "extended" /\ pc[t] = "hire"
    BY <1>4, <2>1 DEF CommitHire, HirersLock
  <2>3. OfferMove(o, "accepted")
    BY <1>4, <2>1, <2>2 DEF CommitHire, OfferMove, Promise!Edges, engineVars
  <2> QED
    BY <2>3 DEF Moves, OfferStates
<1>5. ASSUME NEW t \in Tx, NEW o \in Offer, Decline(t, o) \/ Withdraw(t, o),
             state' # state
      PROVE  Moves
  <2>1. OfferMove(o, "declined") \/ OfferMove(o, "withdrawn")
    BY <1>5 DEF Decline, Withdraw, Cas, Rollback, offerVars, OfferMove, Promise!Edges,
                engineVars, sinkVars
  <2> QED
    BY <2>1 DEF Moves, OfferStates
<1>6. ASSUME NEW t \in Tx, Progress(t)
      PROVE  Moves
  <2>1. InsertDraft(t) \/ UndoDraft(t) \/ ExtendOffer(t) \/ CommitHire(t)
          \/ state' = state
    BY <1>6 DEF Progress, FileUnwired, FileOffer, StampLink, AskVerdict, Rollback,
                Snapshot, ExtendRefused, SendLetter, SendFails, offerVars
  <2> QED
    BY <2>1, <1>1, <1>2, <1>3, <1>4 DEF Moves
<1>7. ASSUME NEW t \in Tx, NEW p \in Offer, StartExtend(t, p) \/ StartHire(t, p)
      PROVE  state' = state
  BY <1>7 DEF StartExtend, StartHire, Rollback, offerVars
<1>8. ASSUME NEW t \in Tx, NEW p \in Offer, NEW a \in Offered, StartDraft(t, p, a)
      PROVE  state' = state
  BY <1>8 DEF StartDraft, Rollback, offerVars
<1>9. ASSUME NEW t \in Tx, Crash(t)
      PROVE  state' = state
  BY <1>9 DEF Crash, offerVars
<1>10. ASSUME \/ \E a \in App : EnterHired(a) \/ LeaveHired(a) \/ Refuse(a)
              \/ \E r \in Req, v \in LifecycleVerbs : MoveStatus(r, v)
              \/ \E p \in Offer, v \in {"approved", "rejected"} : Decide(p, v)
              \/ SetApprovals \/ UNCHANGED vars
       PROVE  state' = state
  BY <1>10 DEF EnterHired, LeaveHired, Refuse, PipelineOnly, MoveStatus, Decide,
               SetApprovals, offerVars, vars
<1> QED
  BY <1>5, <1>6, <1>7, <1>8, <1>9, <1>10 DEF Next, Moves

(* The steps that bring a request to extend, send or hire.                 *)
RequestMove(t) ==
  \/ pc'[t] \in {"idle", "insert", "file", "stamp", "undo"}
  \/ pc'[t] = pc[t] /\ job'[t] = job[t]
  \/ /\ pc'[t] = "verdict"
     /\ \E o \in Offer : Exists(o) /\ job'[t] = Seen(o, appOf[o])
  \/ pc[t] = "verdict" /\ pc'[t] = "snapshot" /\ job'[t] = job[t]
  \/ /\ pc[t] = "snapshot" /\ pc'[t] = "extend"
     /\ job'[t] = Seen(job[t].offer, job[t].app)
  \/ pc[t] = "extend" /\ pc'[t] = "send" /\ job'[t] = job[t]
  \/ /\ pc'[t] = "hire"
     /\ \E o \in Offer : /\ Exists(o) /\ appOf[o] \in staged
                         /\ job'[t] = Seen(o, appOf[o])

LEMMA RequestsMove ==
  ASSUME IInv, [Next]_vars, NEW t \in Tx
  PROVE  RequestMove(t)
<1> USE DEF IInv
<1>1. ASSUME NEW u \in Tx, NEW ans, Finish(u, ans)
      PROVE  RequestMove(t)
  BY <1>1 DEF Finish, Goto, RequestMove, TypeOK
<1>2. ASSUME NEW u \in Tx, NEW step \in {"file", "stamp", "undo"},
             Goto(u, step), job' = job
      PROVE  RequestMove(t)
  BY <1>2 DEF Goto, RequestMove, TypeOK
<1>3. ASSUME UNCHANGED <<pc, job>>
      PROVE  RequestMove(t)
  BY <1>3 DEF RequestMove
<1>4. ASSUME NEW u \in Tx, NEW o \in Offer, NEW a \in Offered, StartDraft(u, o, a)
      PROVE  RequestMove(t)
  <2>1. CASE Begin(u, "insert", Seen(o, a))
    BY <2>1 DEF Begin, Goto, RequestMove, TypeOK
  <2> QED
    BY <1>1, <1>4, <2>1 DEF StartDraft, Rollback
<1>5. ASSUME NEW u \in Tx, NEW o \in Offer, StartExtend(u, o)
      PROVE  RequestMove(t)
  <2>1. CASE Begin(u, "verdict", Seen(o, appOf[o])) /\ Exists(o)
    <3>1. PICK j : j = Seen(o, appOf[o])
      OBVIOUS
    <3>2. pc' = [pc EXCEPT ![u] = "verdict"] /\ job' = [job EXCEPT ![u] = j]
      BY <2>1, <3>1 DEF Begin, Goto
    <3> QED
      BY <2>1, <3>1, <3>2 DEF RequestMove, TypeOK
  <2> QED
    BY <1>1, <1>5, <2>1 DEF StartExtend, Rollback
<1>6. ASSUME NEW u \in Tx, NEW o \in Offer, StartHire(u, o)
      PROVE  RequestMove(t)
  <2>1. CASE Begin(u, "hire", Seen(o, appOf[o])) /\ Exists(o) /\ appOf[o] \in staged
    <3>1. PICK j : j = Seen(o, appOf[o])
      OBVIOUS
    <3>2. pc' = [pc EXCEPT ![u] = "hire"] /\ job' = [job EXCEPT ![u] = j]
      BY <2>1, <3>1 DEF Begin, Goto
    <3> QED
      BY <2>1, <3>1, <3>2 DEF RequestMove, TypeOK
  <2> QED
    BY <1>1, <1>6, <2>1 DEF StartHire, Rollback
<1>7. ASSUME NEW u \in Tx, NEW o \in Offer, Decline(u, o) \/ Withdraw(u, o)
      PROVE  RequestMove(t)
  BY <1>1, <1>7 DEF Decline, Withdraw, Cas, Rollback
<1>8. ASSUME NEW u \in Tx, InsertDraft(u) \/ FileOffer(u)
      PROVE  RequestMove(t)
  BY <1>2, <1>8 DEF InsertDraft, FileOffer
<1>9. ASSUME NEW u \in Tx,
             \/ FileUnwired(u) \/ StampLink(u) \/ UndoDraft(u) \/ ExtendRefused(u)
             \/ SendLetter(u) \/ SendFails(u) \/ CommitHire(u) \/ Crash(u)
      PROVE  RequestMove(t)
  BY <1>1, <1>9 DEF FileUnwired, StampLink, UndoDraft, ExtendRefused, SendLetter,
                    SendFails, CommitHire, Crash, Rollback
<1>10. ASSUME NEW u \in Tx, AskVerdict(u)
       PROVE  RequestMove(t)
  <2>1. CASE pc[u] = "verdict" /\ Goto(u, "snapshot") /\ job' = job
    BY <2>1 DEF Goto, RequestMove, TypeOK
  <2> QED
    BY <1>1, <1>10, <2>1 DEF AskVerdict, Rollback
<1>11. ASSUME NEW u \in Tx, Snapshot(u)
       PROVE  RequestMove(t)
  <2>1. PICK j : j = Seen(job[u].offer, job[u].app)
    OBVIOUS
  <2>2. pc[u] = "snapshot" /\ pc' = [pc EXCEPT ![u] = "extend"]
          /\ job' = [job EXCEPT ![u] = j]
    BY <1>11, <2>1 DEF Snapshot, Goto
  <2> QED
    BY <2>1, <2>2 DEF RequestMove, TypeOK
<1>12. ASSUME NEW u \in Tx, ExtendOffer(u)
       PROVE  RequestMove(t)
  <2>1. CASE pc[u] = "extend" /\ Goto(u, "send") /\ job' = job
    BY <2>1 DEF Goto, RequestMove, TypeOK
  <2> QED
    BY <1>1, <1>12, <2>1 DEF ExtendOffer
<1>13. ASSUME \/ \E a \in App : EnterHired(a) \/ LeaveHired(a) \/ Refuse(a)
              \/ \E r \in Req, v \in LifecycleVerbs : MoveStatus(r, v)
              \/ \E p \in Offer, v \in {"approved", "rejected"} : Decide(p, v)
              \/ SetApprovals \/ UNCHANGED vars
       PROVE  UNCHANGED <<pc, job>>
  BY <1>13 DEF EnterHired, LeaveHired, Refuse, PipelineOnly, MoveStatus, Decide,
               SetApprovals, txVars, vars
<1> QED
  BY <1>3, <1>4, <1>5, <1>6, <1>7, <1>8, <1>9, <1>10, <1>11, <1>12, <1>13
  DEF Next, Progress

(* What the engine is asked and answers.                                   *)
EngineMove ==
  \/ UNCHANGED <<filed, verdict>>
  \/ /\ \E o \in Offer : filed' \in {filed, filed \cup {o}} /\ state[o] # "none"
     /\ UNCHANGED <<state, verdict, letters>>
  \/ /\ \E o \in filed, v \in {"approved", "rejected"} :
          verdict[o] = "pending" /\ verdict' = [verdict EXCEPT ![o] = v]
     /\ UNCHANGED <<state, filed, letters>>

LEMMA EngineMoved ==
  ASSUME IInv, [Next]_vars
  PROVE  EngineMove
<1> USE DEF IInv
<1>1. ASSUME NEW t \in Tx, FileOffer(t)
      PROVE  EngineMove
  <2>1. PICK o \in Offer : o = job[t].offer
    BY <1>1 DEF FileOffer, JobsTyped, Job
  <2>2. state[o] # "none"
    BY <1>1, <2>1 DEF FileOffer, FilersAlone, Working
  <2> QED
    BY <1>1, <2>1, <2>2 DEF FileOffer, EngineMove, offerVars, sinkVars
<1>2. ASSUME NEW o \in Offer, NEW v \in {"approved", "rejected"}, Decide(o, v)
      PROVE  EngineMove
  BY <1>2 DEF Decide, EngineMove, offerVars, sinkVars
<1>3. ASSUME NEW t \in Tx, Progress(t) \/ Crash(t)
      PROVE  FileOffer(t) \/ UNCHANGED <<filed, verdict>>
  BY <1>3 DEF Progress, InsertDraft, FileUnwired, StampLink, UndoDraft, AskVerdict,
              Rollback, Snapshot, ExtendRefused, ExtendOffer, SendLetter, SendFails,
              CommitHire, Crash, engineVars
<1>4. ASSUME NEW t \in Tx, NEW o \in Offer,
             \/ StartExtend(t, o) \/ StartHire(t, o) \/ Decline(t, o) \/ Withdraw(t, o)
             \/ \E a \in Offered : StartDraft(t, o, a)
      PROVE  UNCHANGED <<filed, verdict>>
  BY <1>4 DEF StartExtend, StartHire, Decline, Withdraw, Cas, StartDraft, Rollback,
              engineVars
<1>5. ASSUME \/ \E a \in App : EnterHired(a) \/ LeaveHired(a) \/ Refuse(a)
             \/ \E r \in Req, v \in LifecycleVerbs : MoveStatus(r, v)
             \/ SetApprovals \/ UNCHANGED vars
      PROVE  UNCHANGED <<filed, verdict>>
  BY <1>5 DEF EnterHired, LeaveHired, Refuse, PipelineOnly, MoveStatus, SetApprovals,
              engineVars, vars
<1> QED
  BY <1>1, <1>2, <1>3, <1>4, <1>5 DEF Next, EngineMove

(* An approval, and the link to it, are never taken back.                  *)
LEMMA ApprovedStays ==
  ASSUME IInv, [Next]_vars, NEW o \in Offer, Approved(o)
  PROVE  Approved(o)'
<1> USE DEF IInv
<1>1. o \in filed' /\ verdict'[o] = "approved"
  BY EngineMoved DEF EngineMove, Approved, TypeOK
<1>2. o \in linked'
  <2>1. ASSUME NEW t \in Tx, Progress(t) \/ Crash(t)
        PROVE  o \in linked'
    BY <2>1 DEF Progress, InsertDraft, FileUnwired, FileOffer, StampLink, UndoDraft,
                AskVerdict, Rollback, Snapshot, ExtendRefused, ExtendOffer, SendLetter,
                SendFails, CommitHire, Crash, offerVars, Approved
  <2>2. ASSUME NEW t \in Tx, NEW p \in Offer,
               \/ StartExtend(t, p) \/ StartHire(t, p) \/ Decline(t, p) \/ Withdraw(t, p)
               \/ \E a \in Offered : StartDraft(t, p, a)
        PROVE  linked' = linked
    BY <2>2 DEF StartExtend, StartHire, Decline, Withdraw, Cas, StartDraft, Rollback,
                offerVars
  <2>3. ASSUME \/ \E a \in App : EnterHired(a) \/ LeaveHired(a) \/ Refuse(a)
               \/ \E r \in Req, v \in LifecycleVerbs : MoveStatus(r, v)
               \/ \E p \in Offer, v \in {"approved", "rejected"} : Decide(p, v)
               \/ SetApprovals \/ UNCHANGED vars
        PROVE  linked' = linked
    BY <2>3 DEF EnterHired, LeaveHired, Refuse, PipelineOnly, MoveStatus, Decide,
                SetApprovals, offerVars, vars
  <2> QED
    BY <2>1, <2>2, <2>3 DEF Next, Approved
<1> QED
  BY <1>1, <1>2 DEF Approved

(* A row that was inserted is there to stay, for the same application.     *)
LEMMA RowsStay ==
  ASSUME IInv, [Next]_vars, NEW o \in Offer, state[o] # "none"
  PROVE  state'[o] # "none" /\ appOf'[o] = appOf[o]
<1> USE DEF IInv
<1>1. state'[o] # "none"
  BY OffersMove DEF Moves, OfferMove, Promise!Edges, TypeOK
<1>2. appOf'[o] = appOf[o]
  <2>1. ASSUME NEW t \in Tx, InsertDraft(t)
        PROVE  appOf'[o] = appOf[o]
    <3>1. PICK p \in Offer, a \in App : p = job[t].offer /\ a = job[t].app
      BY <2>1 DEF InsertDraft, JobsTyped, Job
    <3>2. p # o /\ appOf' = [appOf EXCEPT ![p] = a]
      BY <2>1, <3>1 DEF InsertDraft, InsertsFresh
    <3> QED
      BY <3>2 DEF TypeOK
  <2>2. ASSUME NEW t \in Tx, Progress(t) \/ Crash(t)
        PROVE  InsertDraft(t) \/ appOf' = appOf
    BY <2>2 DEF Progress, FileUnwired, FileOffer, StampLink, UndoDraft,
                AskVerdict, Rollback, Snapshot, ExtendRefused, ExtendOffer, SendLetter,
                SendFails, CommitHire, Crash, offerVars
  <2>3. ASSUME NEW t \in Tx, NEW p \in Offer,
               \/ StartExtend(t, p) \/ StartHire(t, p) \/ Decline(t, p) \/ Withdraw(t, p)
               \/ \E a \in Offered : StartDraft(t, p, a)
        PROVE  appOf' = appOf
    BY <2>3 DEF StartExtend, StartHire, Decline, Withdraw, Cas, StartDraft, Rollback,
                offerVars
  <2>4. ASSUME \/ \E a \in App : EnterHired(a) \/ LeaveHired(a) \/ Refuse(a)
               \/ \E r \in Req, v \in LifecycleVerbs : MoveStatus(r, v)
               \/ \E p \in Offer, v \in {"approved", "rejected"} : Decide(p, v)
               \/ SetApprovals \/ UNCHANGED vars
        PROVE  appOf' = appOf
    BY <2>4 DEF EnterHired, LeaveHired, Refuse, PipelineOnly, MoveStatus, Decide,
                SetApprovals, offerVars, vars
  <2> QED
    BY <2>1, <2>2, <2>3, <2>4 DEF Next
<1> QED
  BY <1>1, <1>2

LEMMA JKept ==
  ASSUME IInv, JInv, [Next]_vars
  PROVE  JInv'
<1> USE DEF IInv, JInv
<1>1. FiledRows'
  <2>1. \A o \in Offer : state[o] # "none" => state'[o] # "none"
    BY RowsStay
  <2>2. \A o \in filed' : o \in Offer /\ state[o] # "none"
    <3>1. filed \subseteq Offer
      BY DEF TypeOK
    <3> QED
      BY <3>1, EngineMoved DEF EngineMove, FiledRows
  <2> QED
    BY <2>1, <2>2 DEF FiledRows
<1>2. SendersApproved'
  <2>1. ASSUME NEW t \in Tx, NEW o \in Offer, pc'[t] = "send", job'[t].offer = o
        PROVE  Approved(o)'
    <3>1. job'[t] = job[t] /\ pc[t] \in {"extend", "send"}
      BY <2>1, RequestsMove DEF RequestMove
    <3>2. Approved(o)
      BY <2>1, <3>1 DEF SendersApproved, ExtendersKnow
    <3> QED
      BY <3>2, ApprovedStays
  <2>2. \A t \in Tx : pc'[t] = "send" => job'[t].offer \in Offer
    BY StepKeeps DEF JobsTyped, Job
  <2> QED
    BY <2>1, <2>2 DEF SendersApproved, Approved
<1>3. SameApplication'
  <2>1. SUFFICES ASSUME NEW t \in Tx,
                        pc'[t] \in {"verdict", "snapshot", "extend", "hire"}
                 PROVE  /\ job'[t].app = appOf'[job'[t].offer]
                        /\ state'[job'[t].offer] # "none"
    BY DEF SameApplication
  <2>2. \/ \E o \in Offer : Exists(o) /\ job'[t] = Seen(o, appOf[o])
        \/ /\ pc[t] \in {"verdict", "snapshot", "extend", "hire"}
           /\ job'[t] \in {job[t], Seen(job[t].offer, job[t].app)}
    BY <2>1, RequestsMove DEF RequestMove
  <2>3. \E o \in Offer : /\ state[o] # "none" /\ job'[t].offer = o
                         /\ job'[t].app = appOf[o]
    <3>1. CASE \E o \in Offer : Exists(o) /\ job'[t] = Seen(o, appOf[o])
      BY <3>1 DEF Exists, Seen
    <3>2. CASE /\ pc[t] \in {"verdict", "snapshot", "extend", "hire"}
               /\ job'[t] \in {job[t], Seen(job[t].offer, job[t].app)}
      BY <3>2 DEF SameApplication, JobsTyped, Job, Seen
    <3> QED
      BY <2>2, <3>1, <3>2
  <2> QED
    BY <2>3, RowsStay
<1> QED
  BY <1>1, <1>2, <1>3

(* The invariant holds in every reachable state of the offer verbs.        *)
THEOREM OffersRelated == Spec => [](IInv /\ JInv)
<1>1. Init => JInv
  BY DEF Init, JInv, FiledRows, SendersApproved, SameApplication
<1>2. IInv /\ JInv /\ [Next]_vars => JInv'
  BY JKept
<1> QED
  BY <1>1, <1>2, OffersInvariant, PTL DEF Spec

-----------------------------------------------------------------------------
(* Offers and their applications.                                          *)

(* A request that extends is clear when the application was clear as its   *)
(* snapshot was taken.                                                     *)
LEMMA ExtensionsAreClear ==
  ASSUME IInv, JInv, [Next]_vars, NEW o \in Offer,
         Extending(o)', ~Extending(o)
  PROVE  Clear(Seen(o, appOf[o]))
<1> USE DEF IInv, JInv
<1>1. CASE state'[o] = "extended"
  <2>1. state[o] # "extended"
    BY DEF Extending
  <2>2. PICK t \in Tx : pc[t] = "extend" /\ job[t].offer = o /\ Refusal(job[t]) = "none"
    BY <1>1, <2>1, OffersMove DEF Moves, OfferMove, TypeOK
  <2>3. Clear(job[t])
    BY <2>2 DEF Refusal, Clear
  <2> QED
    BY <2>2, <2>3 DEF Extending
<1>2. ASSUME NEW t \in Tx, pc'[t] = "extend", job'[t].offer = o, Clear(job'[t])
      PROVE  Clear(Seen(o, appOf[o]))
  <2>1. CASE pc[t] = "extend" /\ job'[t] = job[t]
    BY <1>2, <2>1 DEF Extending
  <2>2. CASE pc[t] = "snapshot" /\ job'[t] = Seen(job[t].offer, job[t].app)
    <3>1. job[t].offer = o /\ job[t].app = appOf[o]
      BY <1>2, <2>2 DEF Seen, SameApplication
    <3> QED
      BY <1>2, <2>2, <3>1
  <2> QED
    BY <1>2, <2>1, <2>2, RequestsMove DEF RequestMove
<1> QED
  BY <1>1, <1>2 DEF Extending, Clear

(* A hire that gets under way finds the application in a hired stage.      *)
LEMMA HiresAreStaged ==
  ASSUME IInv, JInv, [Next]_vars, NEW o \in Offer, Hiring(o)', ~Hiring(o)
  PROVE  appOf[o] \in staged
<1> USE DEF IInv, JInv
<1>1. CASE state'[o] = "accepted"
  <2>1. state[o] # "accepted"
    BY DEF Hiring
  <2>2. PICK t \in Tx : pc[t] = "hire" /\ job[t].offer = o
    BY <1>1, <2>1, OffersMove DEF Moves, OfferMove, TypeOK
  <2> QED
    BY <2>2 DEF Hiring
<1>2. ASSUME NEW t \in Tx, pc'[t] = "hire", job'[t].offer = o
      PROVE  appOf[o] \in staged
  <2>1. CASE pc[t] = "hire" /\ job'[t] = job[t]
    BY <1>2, <2>1 DEF Hiring
  <2>2. ASSUME NEW p \in Offer, appOf[p] \in staged, job'[t] = Seen(p, appOf[p])
        PROVE  appOf[o] \in staged
    BY <1>2, <2>2 DEF Seen
  <2> QED
    BY <1>2, <2>1, <2>2, RequestsMove DEF RequestMove
<1> QED
  BY <1>1, <1>2 DEF Hiring

(* No extension gets under way against a refused application, a requisition *)
(* that is not open or one without an opening, and no hire against an      *)
(* application that is in no hired stage.                                  *)
THEOREM OffersFollow == Spec => OffersFollowTheirApplications
<1>1. IInv /\ JInv /\ [Next]_vars =>
        [\A o \in Offer :
           /\ ~Clear(Seen(o, appOf[o])) /\ Extending(o)' => Extending(o)
           /\ appOf[o] \notin staged /\ Hiring(o)' => Hiring(o)]_vars
  BY ExtensionsAreClear, HiresAreStaged
<1> QED
  BY <1>1, OffersRelated, PTL DEF Spec, OffersFollowTheirApplications

-----------------------------------------------------------------------------
(* The refinement of ApprovedHire.                                         *)

ApprovedOffers == {o \in filed : verdict[o] = "approved"}

(* A letter goes out once, after the offer was extended.                   *)
LEMMA LettersMove ==
  ASSUME IInv, JInv, [Next]_vars
  PROVE  \/ letters' = letters
         \/ /\ \E o \in Offer :
                 /\ state[o] \notin {"none", "draft", "deleted"}
                 /\ Approved(o) /\ letters[o] = 0
                 /\ letters' = [letters EXCEPT ![o] = 1]
            /\ UNCHANGED <<state, filed, verdict>>
<1> DEFINE Sent ==
      /\ \E o \in Offer :
           /\ state[o] \notin {"none", "draft", "deleted"}
           /\ Approved(o) /\ letters[o] = 0
           /\ letters' = [letters EXCEPT ![o] = 1]
      /\ UNCHANGED <<state, filed, verdict>>
<1> USE DEF IInv, JInv
<1>1. ASSUME NEW t \in Tx, SendLetter(t) \/ SendFails(t)
      PROVE  letters' = letters \/ Sent
  <2>1. PICK o \in Offer : o = job[t].offer
    BY <1>1 DEF SendLetter, SendFails, JobsTyped, Job
  <2>2. /\ letters[o] = 0 /\ Approved(o)
        /\ state[o] \notin {"none", "draft", "deleted"}
    BY <1>1, <2>1 DEF SendLetter, SendFails, SendersAlone, SendersApproved
  <2>3. \/ letters' = letters
        \/ letters' = [letters EXCEPT ![o] = @ + 1]
    BY <1>1, <2>1 DEF SendLetter, SendFails
  <2>4. [letters EXCEPT ![o] = @ + 1] = [letters EXCEPT ![o] = 1]
    BY <2>2
  <2>5. UNCHANGED <<state, filed, verdict>>
    BY <1>1 DEF SendLetter, SendFails, offerVars, engineVars
  <2> QED
    BY <2>2, <2>3, <2>4, <2>5
<1>2. ASSUME NEW t \in Tx, Progress(t) \/ Crash(t)
      PROVE  SendLetter(t) \/ SendFails(t) \/ letters' = letters
  BY <1>2 DEF Progress, InsertDraft, FileUnwired, FileOffer, StampLink, UndoDraft,
              AskVerdict, Rollback, Snapshot, ExtendRefused, ExtendOffer, CommitHire,
              Crash, sinkVars
<1>3. ASSUME NEW t \in Tx, NEW p \in Offer,
             \/ StartExtend(t, p) \/ StartHire(t, p) \/ Decline(t, p) \/ Withdraw(t, p)
             \/ \E a \in Offered : StartDraft(t, p, a)
      PROVE  letters' = letters
  BY <1>3 DEF StartExtend, StartHire, Decline, Withdraw, Cas, StartDraft, Rollback,
              sinkVars
<1>4. ASSUME \/ \E a \in App : EnterHired(a) \/ LeaveHired(a) \/ Refuse(a)
             \/ \E r \in Req, v \in LifecycleVerbs : MoveStatus(r, v)
             \/ \E p \in Offer, v \in {"approved", "rejected"} : Decide(p, v)
             \/ SetApprovals \/ UNCHANGED vars
      PROVE  letters' = letters
  BY <1>4 DEF EnterHired, LeaveHired, Refuse, PipelineOnly, MoveStatus, Decide,
              SetApprovals, sinkVars, vars
<1> QED
  BY <1>1, <1>2, <1>3, <1>4 DEF Next

(* A step of the offer verbs and their surroundings is one of the promise. *)
LEMMA OfferStepPromised ==
  ASSUME IInv, JInv, [Next]_vars, UNCHANGED relayVars
  PROVE  [Promise!Next]_Promise!vars
<1> USE DEF IInv, JInv
<1>1. employees' = employees
  BY DEF relayVars
<1>2. ASSUME NEW o \in Offer, NEW to \in OfferStates, OfferMove(o, to)
      PROVE  Promise!Next
  <2>1. ApprovedOffers' = ApprovedOffers
    BY <1>2 DEF OfferMove, ApprovedOffers
  <2>2. to \in {"draft", "extended", "accepted", "declined", "withdrawn", "deleted"}
    BY <1>2 DEF OfferMove, Promise!Edges
  <2>3. to = "extended" => o \in ApprovedOffers
    BY <1>2 DEF OfferMove, Approved, ApprovedOffers
  <2>4. Promise!Advance(o)
    BY <1>1, <1>2, <2>1, <2>2, <2>3 DEF OfferMove, Promise!Advance, ApprovedOffers
  <2> QED
    BY <2>4 DEF Promise!Next
<1>3. ASSUME UNCHANGED <<state, letters>>, ApprovedOffers' = ApprovedOffers
      PROVE  UNCHANGED Promise!vars
  BY <1>1, <1>3 DEF Promise!vars, ApprovedOffers
<1>4. ASSUME NEW o \in Offer, state[o] # "none", UNCHANGED <<state, letters>>,
             ApprovedOffers' = ApprovedOffers \cup {o}
      PROVE  Promise!Next
  <2>1. Promise!Approve(o)
    BY <1>1, <1>4 DEF Promise!Approve, ApprovedOffers
  <2> QED
    BY <2>1 DEF Promise!Next
<1>5. ASSUME state' = state, letters' # letters
      PROVE  Promise!Next
  <2>1. PICK o \in Offer :
          /\ state[o] \notin {"none", "draft", "deleted"}
          /\ Approved(o) /\ letters[o] = 0
          /\ letters' = [letters EXCEPT ![o] = 1]
          /\ UNCHANGED <<state, filed, verdict>>
    BY <1>5, LettersMove
  <2>2. o \in ApprovedOffers /\ ApprovedOffers' = ApprovedOffers
    BY <2>1 DEF Approved, ApprovedOffers
  <2>3. Promise!SendLetter(o)
    BY <1>1, <2>1, <2>2 DEF Promise!SendLetter, ApprovedOffers
  <2> QED
    BY <2>3 DEF Promise!Next
<1>6. ASSUME UNCHANGED <<state, letters>>
      PROVE  [Promise!Next]_Promise!vars
  <2>1. \/ ApprovedOffers' = ApprovedOffers
        \/ \E o \in Offer : state[o] # "none" /\ ApprovedOffers' = ApprovedOffers \cup {o}
    <3>1. CASE UNCHANGED <<filed, verdict>>
      BY <3>1 DEF ApprovedOffers
    <3>2. ASSUME NEW o \in Offer, filed' \in {filed, filed \cup {o}},
                 state[o] # "none", verdict' = verdict
          PROVE  \/ ApprovedOffers' = ApprovedOffers
                 \/ ApprovedOffers' = ApprovedOffers \cup {o}
      BY <3>2 DEF ApprovedOffers
    <3>3. ASSUME NEW o \in filed, NEW v \in {"approved", "rejected"},
                 verdict[o] = "pending", verdict' = [verdict EXCEPT ![o] = v],
                 filed' = filed
          PROVE  /\ o \in Offer /\ state[o] # "none"
                 /\ \/ ApprovedOffers' = ApprovedOffers
                    \/ ApprovedOffers' = ApprovedOffers \cup {o}
      <4>1. o \in Offer /\ state[o] # "none"
        BY DEF TypeOK, FiledRows
      <4>2. /\ verdict'[o] = v
            /\ \A p \in filed : p # o => verdict'[p] = verdict[p]
        BY <3>3, <4>1 DEF TypeOK
      <4>3. \A p : p \in ApprovedOffers' <=>
                  p \in filed /\ IF p = o THEN v = "approved" ELSE p \in ApprovedOffers
        BY <3>3, <4>2 DEF ApprovedOffers
      <4>4. o \in filed /\ o \notin ApprovedOffers /\ ApprovedOffers \subseteq filed
        BY <3>3 DEF ApprovedOffers
      <4>5. CASE v = "approved"
        <5>1. \A p : p \in ApprovedOffers' <=> p \in ApprovedOffers \cup {o}
          BY <4>3, <4>4, <4>5
        <5> QED
          BY <4>1, <5>1
      <4>6. CASE v # "approved"
        <5>1. \A p : p \in ApprovedOffers' <=> p \in ApprovedOffers
          BY <4>3, <4>4, <4>6
        <5> QED
          BY <4>1, <5>1
      <4> QED
        BY <4>1, <4>5, <4>6
    <3> QED
      BY <3>1, <3>2, <3>3, EngineMoved DEF EngineMove
  <2> QED
    BY <1>3, <1>4, <1>6, <2>1
<1>7. CASE state' # state
  BY <1>2, <1>7, OffersMove DEF Moves
<1> QED
  BY <1>5, <1>6, <1>7

(* The consumer makes its employee of an accepted offer that has none; the *)
(* mark of the relay is nothing the promise knows of.                      *)
LEMMA RelayStepPromised ==
  ASSUME HInv, NEW o \in Offer, Consume(o) \/ MarkPublished(o)
  PROVE  [Promise!Next]_Promise!vars
<1> USE DEF HInv, IInv
<1>1. UNCHANGED <<state, filed, verdict, letters>>
  BY DEF Consume, MarkPublished, vars, offerVars, engineVars, sinkVars
<1>2. CASE Consume(o)
  <2>1. inbox[o] < events[o] /\ events[o] \in Nat /\ inbox[o] \in Nat
    BY <1>2 DEF Consume, HandoffTypeOK, TypeOK
  <2>2. state[o] = "accepted" /\ employees[o] = 0
    BY <2>1 DEF AcceptedWithOneEvent, ClaimsAreEmployees
  <2>3. employees' = [employees EXCEPT ![o] = 1]
    BY <1>2, <2>2 DEF Consume
  <2>4. Promise!Employ(o)
    BY <1>1, <2>2, <2>3 DEF Promise!Employ
  <2> QED
    BY <2>4 DEF Promise!Next
<1>3. CASE MarkPublished(o)
  BY <1>1, <1>3 DEF MarkPublished, Promise!vars
<1> QED
  BY <1>2, <1>3

(* From the draft to the employee every step is one that ApprovedHire      *)
(* promises.                                                               *)
THEOREM ImplementsHiring == HandoffSpec => KeepsHiringPromise
<1>1. HandoffInit => Promise!Init
  BY DEF HandoffInit, Init, Promise!Init
<1>2. HInv /\ JInv /\ [HandoffNext]_handoffVars => [Promise!Next]_Promise!vars
  <2>1. ASSUME HInv, JInv, [Next]_vars, UNCHANGED relayVars
        PROVE  [Promise!Next]_Promise!vars
    BY <2>1, OfferStepPromised DEF HInv
  <2> QED
    BY <2>1, RelayStepPromised DEF HandoffNext, handoffVars
<1>3. HandoffSpec => []JInv
  BY HandoffKeepsOffers, OffersRelated, PTL
<1> QED
  BY <1>1, <1>2, <1>3, HandoffInvariant, PTL
  DEF HandoffSpec, KeepsHiringPromise, Promise!Spec

-----------------------------------------------------------------------------
(* The pipeline around the offers.                                         *)

(* What the offer verbs may notice of the stage engine is what Vacancy     *)
(* allows, and they add nothing to it: no offer verb moves a seat.         *)
THEOREM PipelineIsVacancy == Spec => Pipeline!Spec
<1>1. Init => Pipeline!Init
  BY DEF Init, Holders, Pipeline!Init
<1>2. [Next]_vars => [Pipeline!Next]_Pipeline!vars
  <2>1. ASSUME NEW a \in App, EnterHired(a) \/ LeaveHired(a) \/ Refuse(a)
        PROVE  Pipeline!Next
    <3>1. ReqOf[a] \in Req
      BY PipelineAssumption
    <3> QED
      BY <2>1, <3>1 DEF EnterHired, LeaveHired, Refuse, Pipeline!Next
  <2>2. ASSUME UNCHANGED <<staged, barred>>
        PROVE  UNCHANGED Pipeline!vars
    BY <2>2 DEF Pipeline!vars, Holders
  <2>3. ASSUME NEW t \in Tx, Progress(t) \/ Crash(t)
        PROVE  UNCHANGED <<staged, barred>>
    BY <2>3 DEF Progress, InsertDraft, FileUnwired, FileOffer, StampLink, UndoDraft,
                AskVerdict, Rollback, Snapshot, ExtendRefused, ExtendOffer, SendLetter,
                SendFails, CommitHire, Crash, pipeVars
  <2>4. ASSUME NEW t \in Tx, NEW p \in Offer,
               \/ StartExtend(t, p) \/ StartHire(t, p) \/ Decline(t, p) \/ Withdraw(t, p)
               \/ \E a \in Offered : StartDraft(t, p, a)
        PROVE  UNCHANGED <<staged, barred>>
    BY <2>4 DEF StartExtend, StartHire, Decline, Withdraw, Cas, StartDraft, Rollback,
                Begin, pipeVars
  <2>5. ASSUME \/ \E r \in Req, v \in LifecycleVerbs : MoveStatus(r, v)
               \/ \E p \in Offer, v \in {"approved", "rejected"} : Decide(p, v)
               \/ SetApprovals \/ UNCHANGED vars
        PROVE  UNCHANGED <<staged, barred>>
    BY <2>5 DEF MoveStatus, Decide, SetApprovals, pipeVars, vars
  <2> QED
    BY <2>1, <2>2, <2>3, <2>4, <2>5 DEF Next
<1> QED
  BY <1>1, <1>2, PTL DEF Spec, Pipeline!Spec
=============================================================================
