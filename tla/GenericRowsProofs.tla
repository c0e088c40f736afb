------------------------- MODULE GenericRowsProofs --------------------------
(***************************************************************************)
(* Proofs about the generated write path, for any number of requests under *)
(* way.  What the tables say of the columns is used in two places: to see  *)
(* that each lifecycle column is a protected one, and to see that every    *)
(* column of every table is a regular one, from which the types and the    *)
(* agreement of the forms follow without looking at a table again.         *)
(***************************************************************************)
EXTENDS GenericRows, TLAPS

(* The followed column is one of the followed table.                       *)
PlaceTyped ==
  /\ entity \in DOMAIN Services /\ column \in DOMAIN S.row
  /\ surface \in DOMAIN Writable

(* What a request was let through with obeys the rules or was read from    *)
(* the row; without routes there is no request.                            *)
JobsJudged ==
  /\ DOMAIN job = Tx
  /\ \A t \in Tx : job[t] # None =>
       Mounted /\ (Broken(job[t]) = {} \/ job[t] \in inherited)

IInv == PlaceTyped /\ JobsJudged /\ BrokenValuesAreInherited

-----------------------------------------------------------------------------
(* The rules and the routes of a place are settled.                        *)
LEMMA PlaceSettles ==
  ASSUME UNCHANGED place
  PROVE  /\ PlaceTyped' = PlaceTyped
         /\ Mounted' = Mounted
         /\ \A v : Broken(v)' = Broken(v)
<1>1. entity' = entity /\ column' = column /\ surface' = surface
  BY DEF place
<1>2. S' = S
  BY <1>1 DEF S
<1> QED
  BY <1>1, <1>2 DEF PlaceTyped, Mounted, Broken

(* A step that stores v, a value that obeys the CHECKs and the rules, or   *)
(* an inherited one.                                                       *)
LEMMA RowStored ==
  ASSUME IInv, NEW v, UNCHANGED <<place, job, checked>>, row' = v,
         inherited \subseteq inherited', CheckConstraints(v),
         Broken(v) = {} \/ v \in inherited'
  PROVE  IInv'
<1>1. /\ PlaceTyped' = PlaceTyped /\ Mounted' = Mounted
      /\ \A w : Broken(w)' = Broken(w)
  BY PlaceSettles
<1>2. JobsJudged'
  BY <1>1 DEF IInv, JobsJudged
<1>3. Broken(row)' = Broken(v)
  BY <1>1 DEF Broken
<1>4. CheckConstraints(row)'
  BY <1>3 DEF CheckConstraints
<1> QED
  BY <1>1, <1>2, <1>3, <1>4 DEF IInv, BrokenValuesAreInherited

(* A step that leaves the row or purges it, and judges jobs as before.     *)
LEMMA RowKept ==
  ASSUME IInv, UNCHANGED <<place, inherited>>, row' \in {row, "gone"},
         checked' = checked,
         DOMAIN job' = Tx,
         \A t \in Tx : job'[t] # None =>
           Mounted /\ (Broken(job'[t]) = {} \/ job'[t] \in inherited)
  PROVE  IInv'
<1>1. /\ PlaceTyped' = PlaceTyped /\ Mounted' = Mounted
      /\ \A w : Broken(w)' = Broken(w)
  BY PlaceSettles
<1>2. JobsJudged'
  <2>1. ASSUME NEW t \in Tx, job'[t] # None
        PROVE  Mounted' /\ (Broken(job[t])' = {} \/ job'[t] \in inherited')
    <3>1. Broken(job[t])' = Broken(job'[t])
      BY <1>1 DEF Broken
    <3> QED
      BY <1>1, <2>1, <3>1
  <2> QED
    BY <2>1 DEF JobsJudged
<1>3. CASE row' = row
  <2>1. Broken(row)' = Broken(row)
    BY <1>1, <1>3 DEF Broken
  <2> QED
    BY <1>1, <1>2, <1>3, <2>1
    DEF IInv, BrokenValuesAreInherited, CheckConstraints, Stored
<1>4. CASE row' = "gone"
  BY <1>1, <1>2, <1>4 DEF IInv, BrokenValuesAreInherited, Stored
<1> QED
  BY <1>3, <1>4

LEMMA PostKeeps ==
  ASSUME IInv, NEW body, Post(body)
  PROVE  IInv'
<1>1. PICK v \in Created(body) : GuardCreate(v) /\ CheckConstraints(v) /\ row' = v
  BY DEF Post
<1>2. UNCHANGED <<place, job, checked, inherited>>
  BY DEF Post
<1> QED
  BY <1>1, <1>2, RowStored DEF GuardCreate

(* What PUT or PATCH is let through with.                                  *)
LEMMA AcceptKeeps ==
  ASSUME IInv, NEW t \in Tx, NEW v, Mounted, Stored, Accept(t, v)
  PROVE  IInv'
<1>1. /\ job' = [job EXCEPT ![t] = Kept(v)]
      /\ UNCHANGED <<place, row, checked, inherited>>
      /\ Kept(v) = row \/ Broken(Kept(v)) = {}
  BY DEF Accept, GuardUpdate
<1>2. Broken(row) # {} => row \in inherited
  BY DEF IInv, BrokenValuesAreInherited
<1>3. Broken(Kept(v)) = {} \/ Kept(v) \in inherited
  BY <1>1, <1>2
<1>4. /\ DOMAIN job' = Tx
      /\ job'[t] = Kept(v) /\ \A u \in Tx : u # t => job'[u] = job[u]
  BY <1>1 DEF IInv, JobsJudged
<1>5. ASSUME NEW u \in Tx, job'[u] # None
      PROVE  Mounted /\ (Broken(job'[u]) = {} \/ job'[u] \in inherited)
  BY <1>3, <1>4, <1>5 DEF IInv, JobsJudged
<1> QED
  BY <1>1, <1>4, <1>5, RowKept

(* A job is done with.                                                     *)
LEMMA JobEnds ==
  ASSUME IInv, NEW t \in Tx, job' = [job EXCEPT ![t] = None]
  PROVE  /\ DOMAIN job' = Tx
         /\ \A u \in Tx : job'[u] # None => job'[u] = job[u] /\ job[u] # None
         /\ \A u \in Tx : job'[u] # None =>
              Mounted /\ (Broken(job'[u]) = {} \/ job'[u] \in inherited)
<1>1. DOMAIN job' = Tx /\ \A u \in Tx : job'[u] # None => job'[u] = job[u]
  BY DEF IInv, JobsJudged
<1> QED
  BY <1>1 DEF IInv, JobsJudged

LEMMA StoreKeeps ==
  ASSUME IInv, NEW t \in Tx, Store(t)
  PROVE  IInv'
<1>1. /\ job[t] # None /\ Stored /\ CheckConstraints(job[t])
      /\ row' = Kept(job[t]) /\ job' = [job EXCEPT ![t] = None]
      /\ UNCHANGED <<place, trashed, checked, inherited>>
  BY DEF Store
<1>2. /\ PlaceTyped' = PlaceTyped /\ Mounted' = Mounted
      /\ \A w : Broken(w)' = Broken(w)
  BY <1>1, PlaceSettles
<1>3. CASE row' = row
  BY <1>1, <1>3, JobEnds, RowKept
<1>4. CASE row' = job[t]
  <2>1. Broken(row)' = Broken(job[t])
    BY <1>2, <1>4 DEF Broken
  <2>2. Broken(job[t]) = {} \/ job[t] \in inherited
    BY <1>1 DEF IInv, JobsJudged
  <2>3. BrokenValuesAreInherited'
    BY <1>1, <1>4, <2>1, <2>2 DEF BrokenValuesAreInherited, CheckConstraints
  <2>4. JobsJudged'
    <3>1. ASSUME NEW u \in Tx, job'[u] # None
          PROVE  Mounted' /\ (Broken(job[u])' = {} \/ job'[u] \in inherited')
      <4>1. Mounted /\ (Broken(job'[u]) = {} \/ job'[u] \in inherited)
        BY <1>1, <3>1, JobEnds
      <4>2. Broken(job[u])' = Broken(job'[u])
        BY <1>2 DEF Broken
      <4> QED
        BY <1>1, <1>2, <4>1, <4>2
    <3> QED
      BY <1>1, <3>1, JobEnds DEF JobsJudged
  <2> QED
    BY <1>2, <2>3, <2>4 DEF IInv
<1> QED
  BY <1>1, <1>3, <1>4 DEF Kept

LEMMA RouteKeeps ==
  ASSUME IInv, Route
  PROVE  IInv'
<1>1. ASSUME NEW body, Post(body) PROVE IInv'
  BY <1>1, PostKeeps
<1>2. ASSUME NEW body, NEW t \in Tx, StartPut(t, body) \/ StartPatch(t, body)
      PROVE  IInv'
  BY <1>2, AcceptKeeps DEF StartPut, StartPatch
<1>3. ASSUME NEW t \in Tx, Store(t) PROVE IInv'
  BY <1>3, StoreKeeps
<1>4. ASSUME NEW t \in Tx, GiveUp(t) PROVE IInv'
  BY <1>4, JobEnds, RowKept DEF GiveUp
<1>5. CASE Delete \/ Restore \/ PurgeTrash
  <2>1. UNCHANGED <<place, inherited, checked, job>> /\ row' \in {row, "gone"}
    BY <1>5 DEF Delete, Restore, Trash, PurgeTrash
  <2> QED
    BY <2>1, RowKept DEF IInv, JobsJudged
<1> QED
  BY <1>1, <1>2, <1>3, <1>4, <1>5 DEF Route

LEMMA VerbKeeps ==
  ASSUME IInv, Verb
  PROVE  IInv'
<1>1. ASSUME NEW v, VerbStores(v) PROVE IInv'
  BY <1>1, RowStored DEF VerbStores
<1>2. CASE VerbDelete
  <2>1. UNCHANGED <<place, inherited, checked, job>> /\ row' = "gone"
    BY <1>2 DEF VerbDelete
  <2> QED
    BY <2>1, RowKept DEF IInv, JobsJudged
<1> QED
  BY <1>1, <1>2 DEF Verb, VerbInsert, VerbUpdate

LEMMA AddCheckKeeps ==
  ASSUME IInv, NEW rule, AddCheck(rule)
  PROVE  IInv'
<1>1. /\ Stored => rule \notin Broken(row)
      /\ checked' = checked \cup {rule}
      /\ UNCHANGED <<place, row, trashed, inherited, job>>
  BY DEF AddCheck
<1>2. /\ PlaceTyped' = PlaceTyped /\ Mounted' = Mounted
      /\ \A w : Broken(w)' = Broken(w)
  BY <1>1, PlaceSettles
<1>3. Broken(row)' = Broken(row)
  BY <1>1, <1>2 DEF Broken
<1>4. JobsJudged'
  BY <1>1, <1>2 DEF IInv, JobsJudged
<1>5. BrokenValuesAreInherited'
  BY <1>1, <1>3 DEF IInv, BrokenValuesAreInherited, CheckConstraints, Stored
<1> QED
  BY <1>2, <1>4, <1>5 DEF IInv

LEMMA StepKeeps ==
  ASSUME IInv, [Next]_vars
  PROVE  IInv'
<1>1. CASE UNCHANGED vars
  BY <1>1, RowKept DEF vars, place, IInv, JobsJudged
<1> QED
  BY <1>1, RouteKeeps, VerbKeeps, AddCheckKeeps DEF Next

-----------------------------------------------------------------------------
(* The invariant holds in every reachable state.                           *)
THEOREM RowsInvariant == Spec => []IInv
<1>1. Init => IInv
  <2> SUFFICES ASSUME Init PROVE IInv
    OBVIOUS
  <2>1. PlaceTyped
    BY DEF Init, PlaceTyped
  <2>2. JobsJudged
    BY DEF Init, JobsJudged
  <2>3. Stored => CheckConstraints(row)
    BY DEF Init, Stored
  <2>4. Stored /\ Broken(row) # {} => row \in inherited
    BY DEF Init
  <2> QED
    BY <2>1, <2>2, <2>3, <2>4 DEF IInv, BrokenValuesAreInherited
<1>2. IInv /\ [Next]_vars => IInv'
  BY StepKeeps
<1> QED
  BY <1>1, <1>2, PTL DEF Spec

(* No sequence of requests, however they overlap, stores a value that      *)
(* breaks a row rule unless a verb stored it or it is older than the       *)
(* rules, and no stored value ever breaks a CHECK of the database.         *)
THEOREM BrokenInherited == Spec => []BrokenValuesAreInherited
BY RowsInvariant, PTL DEF IInv

-----------------------------------------------------------------------------
(* Each table that has a state protects it, and POST does not choose it.   *)
LEMMA StatusProtected ==
  ASSUME PlaceTyped, column = "status"
  PROVE  column \in S.protected /\ S.fromCreate = OnlyStatus
<1>1. entity \in {"Candidate", "Interview", "JobApplication", "JobOffer",
                  "JobRequisition", "OfferLetterTemplate", "RecruitmentStage",
                  "RequisitionSkill"}
  BY DEF PlaceTyped, Services
<1>2. "status" \in DOMAIN S.row
  BY DEF PlaceTyped
<1>3. entity # "Candidate"
  BY <1>2 DEF S, Services, Candidate, CandidateRow
<1>4. entity # "JobApplication"
  BY <1>2 DEF S, Services, JobApplication, ApplicationRow
<1>5. entity # "OfferLetterTemplate"
  BY <1>2 DEF S, Services, OfferLetterTemplate, TemplateRow
<1>6. entity # "RecruitmentStage"
  BY <1>2 DEF S, Services, RecruitmentStage, StageRow
<1>7. entity # "RequisitionSkill"
  BY <1>2 DEF S, Services, RequisitionSkill, SkillRow
<1>8. CASE entity = "Interview"
  BY <1>8 DEF S, Services, Interview, InterviewProtected, InterviewFromCreate
<1>9. CASE entity = "JobOffer"
  BY <1>9 DEF S, Services, JobOffer, OfferProtected, OfferFromCreate
<1>10. CASE entity = "JobRequisition"
  BY <1>10 DEF S, Services, JobRequisition, RequisitionProtected, RequisitionFromCreate
<1> QED
  BY <1>1, <1>3, <1>4, <1>5, <1>6, <1>7, <1>8, <1>9, <1>10

(* A row starts in the first state and leaves it by a verb.                *)
THEOREM LifecycleByVerbs == Spec => LifecycleMovesByVerbs
<1>1. ASSUME IInv, [Next]_vars, column = "status"
      PROVE  \/ Verb \/ row' \in {row, "gone"}
             \/ row = "none" /\ row' = "first"
  <2>1. column \in S.protected /\ S.fromCreate = OnlyStatus
    BY <1>1, StatusProtected DEF IInv
  <2>2. ASSUME NEW body, Post(body)
        PROVE  row = "none" /\ row' = "first"
    <3>1. Created(body) = {"first"}
      BY <1>1, <2>1 DEF Created, OnlyStatus
    <3> QED
      BY <2>2, <3>1 DEF Post
  <2>3. ASSUME NEW t \in Tx, Store(t)
        PROVE  row' = row
    BY <2>1, <2>3 DEF Store, Kept
  <2>4. CASE Route
    BY <2>2, <2>3, <2>4
    DEF Route, StartPut, StartPatch, Accept, GiveUp, Delete, Restore, Trash, PurgeTrash
  <2>5. CASE \E rule \in {"required", "max", "min"} : AddCheck(rule)
    BY <2>5 DEF AddCheck
  <2>6. CASE UNCHANGED vars
    BY <2>6 DEF vars
  <2> QED
    BY <1>1, <2>4, <2>5, <2>6 DEF Next
<1>2. IInv /\ [Next]_vars =>
        [column = "status" => \/ Verb \/ row' \in {row, "gone"}
                              \/ row = "none" /\ row' = "first"]_vars
  BY <1>1
<1> QED
  BY <1>2, RowsInvariant, PTL DEF Spec, LifecycleMovesByVerbs

-----------------------------------------------------------------------------
(* What the tables have in common.                                         *)

(* What a form makes of an absent field fits the column.                   *)
FitsAbsent(form, c, type) ==
  c \notin form.required =>
    IF c \in DOMAIN form.default THEN form.default[c] \in Values(type) ELSE type.null

(* The values the code itself comes up with fit the column they go to.     *)
FittingColumn(table, c) ==
  /\ c \notin DOMAIN table.fromCreate => FitsAbsent(table.create, c, table.row[c])
  /\ FitsAbsent(table.update, c, table.row[c])
  /\ c \in DOMAIN table.fromCreate => table.fromCreate[c] \in Values(table.row[c])
  /\ IF c \in DOMAIN table.verbs.insert
     THEN table.verbs.insert[c] \subseteq Values(table.row[c])
     ELSE DOMAIN table.verbs.insert = {} \/ table.row[c].null
  /\ c \in DOMAIN table.verbs.update =>
       table.verbs.update[c] \subseteq Values(table.row[c])
  /\ c \in DOMAIN table.rules => table.rules[c] \subseteq {"required", "max", "min"}

(* Two forms take an absent field alike.                                   *)
AbsentAlike(form, other, c) ==
  /\ c \in form.required <=> c \in other.required
  /\ c \in DOMAIN form.default <=> c \in DOMAIN other.default
  /\ c \in DOMAIN form.default => form.default[c] = other.default[c]

(* Every list that should name the column does, and they say the same.     *)
ListedColumn(table, c) ==
  /\ c \in table.response /\ c \in table.applyUpdate /\ c \in table.applyPatch
  /\ c \in table.new \cup table.setters
  /\ c \in table.patch <=> table.row[c].null
  /\ c \in DOMAIN table.fromCreate =>
       /\ c = "status"
       /\ c \notin table.builder.required /\ c \in DOMAIN table.builder.default
       /\ table.builder.default[c] = table.fromCreate[c]
  /\ c \notin DOMAIN table.fromCreate => AbsentAlike(table.create, table.builder, c)

LEMMA CandidateRegular ==
  ASSUME NEW c \in DOMAIN CandidateRow
  PROVE  FittingColumn(Candidate, c) /\ ListedColumn(Candidate, c)
<1>1. CandidateRow[c].null <=> c # "first_name"
  BY DEF CandidateRow, Column, Option
<1>2. ListedColumn(Candidate, c)
  BY <1>1
  DEF ListedColumn, AbsentAlike, Candidate, CandidateRow, CandidateNew,
      CandidateSetters, CandidateCreate, CandidateBuilder, CandidateFromCreate,
      CandidateApplyUpdate, CandidateApplyPatch, CandidatePatch, CandidateResponse,
      Form, NoDefault
<1>4. FitsAbsent(CandidateCreate, c, CandidateRow[c])
  BY <1>1 DEF FitsAbsent, CandidateCreate, Form, NoDefault, CandidateRow
<1>5. FitsAbsent(CandidateUpdate, c, CandidateRow[c])
  BY <1>1 DEF FitsAbsent, CandidateUpdate, Form, NoDefault, CandidateRow
<1>7. DOMAIN CandidateFromCreate = {}
  BY DEF CandidateFromCreate, NoDefault
<1>8. IF c \in DOMAIN CandidateVerbs.insert THEN CandidateVerbs.insert[c] \subseteq Values(CandidateRow[c])
      ELSE DOMAIN CandidateVerbs.insert = {} \/ CandidateRow[c].null
  <2>1. /\ {"some text", "too long"} \subseteq Values(Column("text"))
        /\ {"some text", "too long", "null"} \subseteq Values(Option("text"))
    BY DEF Values, Sample, Column, Option
  <2>2. /\ DOMAIN CandidateVerbs.insert = {"first_name", "last_name", "email", "phone"}
        /\ CandidateVerbs.insert["first_name"] = {"some text", "too long"}
        /\ CandidateVerbs.insert["last_name"] = {"some text", "too long", "null"}
        /\ CandidateVerbs.insert["email"] = {"some text", "too long"}
        /\ CandidateVerbs.insert["phone"] = {"some text", "too long", "null"}
    BY DEF CandidateVerbs
  <2>3. /\ CandidateRow["first_name"] = Column("text")
        /\ \A d \in {"last_name", "email", "phone"} : CandidateRow[d] = Option("text")
    BY DEF CandidateRow
  <2> QED
    BY <1>1, <2>1, <2>2, <2>3
<1>9. c \in DOMAIN CandidateVerbs.update => CandidateVerbs.update[c] \subseteq Values(CandidateRow[c])
  BY DEF CandidateVerbs, NoDefault
<1>10. c \in DOMAIN CandidateRules => CandidateRules[c] \subseteq {"required", "max", "min"}
  BY DEF CandidateRules
<1> QED
  BY <1>2, <1>4, <1>5, <1>7, <1>8, <1>9, <1>10
  DEF FittingColumn, Candidate

LEMMA InterviewRegular ==
  ASSUME NEW c \in DOMAIN InterviewRow
  PROVE  FittingColumn(Interview, c) /\ ListedColumn(Interview, c)
<1>1. InterviewRow[c].null <=> c \notin {"application_id", "interviewer_id", "scheduled_at",
                                "status"}
  BY DEF InterviewRow, Column, Option
<1>2. ListedColumn(Interview, c)
  BY <1>1
  DEF ListedColumn, AbsentAlike, Interview, InterviewRow, InterviewNew,
      InterviewSetters, InterviewCreate, InterviewBuilder, InterviewFromCreate,
      InterviewApplyUpdate, InterviewApplyPatch, InterviewPatch, InterviewResponse,
      Form, NoDefault, OnlyStatus
<1>4. c # "status" => FitsAbsent(InterviewCreate, c, InterviewRow[c])
  BY <1>1 DEF FitsAbsent, InterviewCreate, Form, NoDefault, InterviewRow
<1>5. FitsAbsent(InterviewUpdate, c, InterviewRow[c])
  BY <1>1 DEF FitsAbsent, InterviewUpdate, Form, NoDefault, InterviewRow
<1>6. {"first", "moved"} \subseteq Values(InterviewRow["status"])
  BY DEF InterviewRow, Column, Values, Sample
<1>7. DOMAIN InterviewFromCreate = {"status"} /\ InterviewFromCreate["status"] = "first"
  BY DEF InterviewFromCreate, OnlyStatus
<1>8. IF c \in DOMAIN InterviewVerbs.insert THEN InterviewVerbs.insert[c] \subseteq Values(InterviewRow[c])
      ELSE DOMAIN InterviewVerbs.insert = {} \/ InterviewRow[c].null
  <2>1. DOMAIN InterviewVerbs.insert = {"application_id", "interviewer_id", "scheduled_at", "round",
                          "interview_format", "status"}
    BY DEF InterviewVerbs
  <2>2. ASSUME NEW d \in DOMAIN InterviewVerbs.insert
        PROVE  InterviewVerbs.insert[d] = IF d = "status" THEN {"first"} ELSE Values(InterviewRow[d])
    BY <2>2 DEF InterviewVerbs
  <2> QED
    BY <1>1, <1>6, <2>1, <2>2
<1>9. c \in DOMAIN InterviewVerbs.update => InterviewVerbs.update[c] \subseteq Values(InterviewRow[c])
  <2>1. /\ DOMAIN InterviewVerbs.update = {"status", "rating", "feedback"}
        /\ InterviewVerbs.update["status"] = {"moved"}
        /\ InterviewVerbs.update["rating"] = Values(InterviewRow["rating"])
        /\ InterviewVerbs.update["feedback"] = Values(InterviewRow["feedback"])
    BY DEF InterviewVerbs
  <2> QED
    BY <1>6, <2>1
<1>10. c \in DOMAIN InterviewRules => InterviewRules[c] \subseteq {"required", "max", "min"}
  BY DEF InterviewRules
<1> QED
  BY <1>2, <1>4, <1>5, <1>6, <1>7, <1>8, <1>9, <1>10
  DEF FittingColumn, Interview

LEMMA JobApplicationRegular ==
  ASSUME NEW c \in DOMAIN ApplicationRow
  PROVE  FittingColumn(JobApplication, c) /\ ListedColumn(JobApplication, c)
<1>1. ApplicationRow[c].null <=> c \notin {"candidate_id", "requisition_id", "stage_id",
                                "applied_at"}
  BY DEF ApplicationRow, Column, Option
<1>2. ListedColumn(JobApplication, c)
  BY <1>1
  DEF ListedColumn, AbsentAlike, JobApplication, ApplicationRow, ApplicationNew,
      ApplicationSetters, ApplicationCreate, ApplicationBuilder, ApplicationFromCreate,
      ApplicationApplyUpdate, ApplicationApplyPatch, ApplicationPatch,
      ApplicationResponse, Form, NoDefault
<1>3. "now" \in Values(ApplicationRow["applied_at"])
  BY DEF ApplicationRow, Column, Values, Sample
<1>4. FitsAbsent(ApplicationCreate, c, ApplicationRow[c])
  <2>1. /\ DOMAIN ApplicationCreate.default = {"applied_at"}
        /\ ApplicationCreate.default["applied_at"] = "now"
    BY DEF ApplicationCreate, Form
  <2>2. c \in ApplicationCreate.required \/ c \in DOMAIN ApplicationCreate.default \/ ApplicationRow[c].null
    BY <1>1, <2>1 DEF ApplicationCreate, Form, ApplicationRow
  <2> QED
    BY <1>3, <2>1, <2>2 DEF FitsAbsent
<1>5. FitsAbsent(ApplicationUpdate, c, ApplicationRow[c])
  BY <1>1 DEF FitsAbsent, ApplicationUpdate, Form, NoDefault, ApplicationRow
<1>7. DOMAIN ApplicationFromCreate = {}
  BY DEF ApplicationFromCreate, NoDefault
<1>8. IF c \in DOMAIN ApplicationVerbs.insert THEN ApplicationVerbs.insert[c] \subseteq Values(ApplicationRow[c])
      ELSE DOMAIN ApplicationVerbs.insert = {} \/ ApplicationRow[c].null
  <2>1. DOMAIN ApplicationVerbs.insert = {"candidate_id", "requisition_id", "stage_id",
                          "stage_updated_at", "applied_at"}
    BY DEF ApplicationVerbs
  <2>2. /\ ApplicationRow["applied_at"] = Column("time")
        /\ ApplicationRow["stage_updated_at"] = Option("time")
        /\ \A d \in {"candidate_id", "requisition_id", "stage_id"} :
             ApplicationRow[d] = Column("choice")
    BY DEF ApplicationRow
  <2>3. "now" \in Values(Column("time")) /\ "now" \in Values(Option("time"))
    BY DEF Values, Sample, Column, Option
  <2>4. ASSUME NEW d \in DOMAIN ApplicationVerbs.insert
        PROVE  ApplicationVerbs.insert[d] = IF ApplicationRow[d].kind = "time" THEN {"now"}
                                          ELSE Values(ApplicationRow[d])
    BY <2>4 DEF ApplicationVerbs
  <2> QED
    BY <1>1, <2>1, <2>2, <2>3, <2>4 DEF Column
<1>9. c \in DOMAIN ApplicationVerbs.update => ApplicationVerbs.update[c] \subseteq Values(ApplicationRow[c])
  <2>1. /\ DOMAIN ApplicationVerbs.update = {"stage_id", "last_stage_id", "stage_updated_at",
                                "date_closed", "refuse_reason", "refused_at"}
        /\ ApplicationVerbs.update["stage_id"] = Values(ApplicationRow["stage_id"])
        /\ ApplicationVerbs.update["last_stage_id"] = Values(ApplicationRow["stage_id"])
        /\ ApplicationVerbs.update["stage_updated_at"] = {"now"}
        /\ ApplicationVerbs.update["date_closed"] = {"now", "null"}
        /\ ApplicationVerbs.update["refuse_reason"] = Values(ApplicationRow["refuse_reason"])
        /\ ApplicationVerbs.update["refused_at"] = {"now"}
    BY DEF ApplicationVerbs
  <2>2. /\ Values(ApplicationRow["stage_id"]) \subseteq Values(ApplicationRow["last_stage_id"])
        /\ {"now"} \subseteq Values(ApplicationRow["stage_updated_at"])
        /\ {"now", "null"} \subseteq Values(ApplicationRow["date_closed"])
        /\ {"now"} \subseteq Values(ApplicationRow["refused_at"])
    BY DEF ApplicationRow, Column, Option, Values, Sample
  <2> QED
    BY <2>1, <2>2
<1>10. c \in DOMAIN ApplicationRules => ApplicationRules[c] \subseteq {"required", "max", "min"}
  BY DEF ApplicationRules
<1> QED
  BY <1>2, <1>4, <1>5, <1>7, <1>8, <1>9, <1>10
  DEF FittingColumn, JobApplication

LEMMA JobOfferRegular ==
  ASSUME NEW c \in DOMAIN OfferRow
  PROVE  FittingColumn(JobOffer, c) /\ ListedColumn(JobOffer, c)
<1>1. OfferRow[c].null <=> c \notin {"application_id", "status"}
  BY DEF OfferRow, Column, Option
<1>2. ListedColumn(JobOffer, c)
  BY <1>1
  DEF ListedColumn, AbsentAlike, JobOffer, OfferRow, OfferNew, OfferSetters,
      OfferCreate, OfferBuilder, OfferFromCreate, OfferApplyUpdate, OfferApplyPatch,
      OfferPatch, OfferResponse, Form, NoDefault, OnlyStatus
<1>4. c # "status" => FitsAbsent(OfferCreate, c, OfferRow[c])
  BY <1>1 DEF FitsAbsent, OfferCreate, Form, NoDefault, OfferRow
<1>5. FitsAbsent(OfferUpdate, c, OfferRow[c])
  BY <1>1 DEF FitsAbsent, OfferUpdate, Form, NoDefault, OfferRow
<1>6. {"first", "moved"} \subseteq Values(OfferRow["status"])
  BY DEF OfferRow, Column, Values, Sample
<1>7. DOMAIN OfferFromCreate = {"status"} /\ OfferFromCreate["status"] = "first"
  BY DEF OfferFromCreate, OnlyStatus
<1>8. IF c \in DOMAIN OfferVerbs.insert THEN OfferVerbs.insert[c] \subseteq Values(OfferRow[c])
      ELSE DOMAIN OfferVerbs.insert = {} \/ OfferRow[c].null
  <2>1. DOMAIN OfferVerbs.insert = {"application_id", "proposed_salary", "employment_type",
                          "letter_template_id", "status"}
    BY DEF OfferVerbs
  <2>2. ASSUME NEW d \in DOMAIN OfferVerbs.insert
        PROVE  OfferVerbs.insert[d] = IF d = "status" THEN {"first"} ELSE Values(OfferRow[d])
    BY <2>2 DEF OfferVerbs
  <2> QED
    BY <1>1, <1>6, <2>1, <2>2
<1>9. c \in DOMAIN OfferVerbs.update => OfferVerbs.update[c] \subseteq Values(OfferRow[c])
  <2>1. /\ DOMAIN OfferVerbs.update = {"approval_request_id", "status", "offered_at",
                                "accepted_at", "start_date"}
        /\ OfferVerbs.update["approval_request_id"] = Values(Column("choice"))
        /\ OfferVerbs.update["status"] = {"moved"}
        /\ OfferVerbs.update["offered_at"] = {"now"}
        /\ OfferVerbs.update["accepted_at"] = {"now"}
        /\ OfferVerbs.update["start_date"] = Values(OfferRow["start_date"])
    BY DEF OfferVerbs
  <2>2. /\ Values(Column("choice")) \subseteq Values(OfferRow["approval_request_id"])
        /\ {"now"} \subseteq Values(OfferRow["offered_at"])
        /\ {"now"} \subseteq Values(OfferRow["accepted_at"])
    BY DEF OfferRow, Column, Option, Values, Sample
  <2> QED
    BY <1>6, <2>1, <2>2
<1>10. c \in DOMAIN OfferRules => OfferRules[c] \subseteq {"required", "max", "min"}
  BY DEF OfferRules
<1> QED
  BY <1>2, <1>4, <1>5, <1>6, <1>7, <1>8, <1>9, <1>10
  DEF FittingColumn, JobOffer

LEMMA JobRequisitionRegular ==
  ASSUME NEW c \in DOMAIN RequisitionRow
  PROVE  FittingColumn(JobRequisition, c) /\ ListedColumn(JobRequisition, c)
<1>1. RequisitionRow[c].null <=> c \notin {"title", "headcount", "filled_headcount", "status",
                                "opened_by"}
  BY DEF RequisitionRow, Column, Option
<1>2. ListedColumn(JobRequisition, c)
  <2>1. /\ DOMAIN RequisitionBuilder.default = {"filled_headcount", "status"}
        /\ RequisitionBuilder.default["filled_headcount"] = "zero"
        /\ RequisitionBuilder.default["status"] = "first"
    BY DEF RequisitionBuilder, Form
  <2>2. /\ DOMAIN RequisitionCreate.default = {"filled_headcount"}
        /\ RequisitionCreate.default["filled_headcount"] = "zero"
        /\ RequisitionCreate.required = RequisitionBuilder.required
        /\ "status" \notin RequisitionBuilder.required
    BY DEF RequisitionCreate, RequisitionBuilder, Form
  <2>3. c # "status" => AbsentAlike(RequisitionCreate, RequisitionBuilder, c)
    BY <2>1, <2>2 DEF AbsentAlike
  <2>4. DOMAIN RequisitionFromCreate = {"status"} /\ RequisitionFromCreate["status"] = "first"
    BY DEF RequisitionFromCreate, OnlyStatus
  <2>5. /\ c \in RequisitionResponse /\ c \in RequisitionApplyUpdate
        /\ c \in RequisitionApplyPatch /\ c \in RequisitionNew \cup RequisitionSetters
        /\ c \in RequisitionPatch <=> c \notin {"title", "headcount", "filled_headcount",
                                               "status", "opened_by"}
    BY DEF RequisitionResponse, RequisitionApplyUpdate, RequisitionApplyPatch,
           RequisitionNew, RequisitionSetters, RequisitionPatch, RequisitionRow
  <2> QED
    BY <1>1, <2>1, <2>2, <2>3, <2>4, <2>5 DEF ListedColumn, JobRequisition
<1>3. "zero" \in Values(RequisitionRow["filled_headcount"])
  BY DEF RequisitionRow, Column, Values, Sample
<1>4. c # "status" => FitsAbsent(RequisitionCreate, c, RequisitionRow[c])
  <2>1. /\ DOMAIN RequisitionCreate.default = {"filled_headcount"}
        /\ RequisitionCreate.default["filled_headcount"] = "zero"
    BY DEF RequisitionCreate, Form
  <2>2. c \in RequisitionCreate.required \/ c \in DOMAIN RequisitionCreate.default \/ RequisitionRow[c].null \/ c = "status"
    BY <1>1, <2>1 DEF RequisitionCreate, Form, RequisitionRow
  <2> QED
    BY <1>3, <2>1, <2>2 DEF FitsAbsent
<1>5. FitsAbsent(RequisitionUpdate, c, RequisitionRow[c])
  BY <1>1 DEF FitsAbsent, RequisitionUpdate, Form, NoDefault, RequisitionRow
<1>6. {"first", "moved"} \subseteq Values(RequisitionRow["status"])
  BY DEF RequisitionRow, Column, Values, Sample
<1>7. DOMAIN RequisitionFromCreate = {"status"} /\ RequisitionFromCreate["status"] = "first"
  BY DEF RequisitionFromCreate, OnlyStatus
<1>8. IF c \in DOMAIN RequisitionVerbs.insert THEN RequisitionVerbs.insert[c] \subseteq Values(RequisitionRow[c])
      ELSE DOMAIN RequisitionVerbs.insert = {} \/ RequisitionRow[c].null
  BY DEF RequisitionVerbs, NoDefault
<1>9. c \in DOMAIN RequisitionVerbs.update => RequisitionVerbs.update[c] \subseteq Values(RequisitionRow[c])
  <2>1. /\ DOMAIN RequisitionVerbs.update = {"status", "approval_request_id", "filled_headcount"}
        /\ RequisitionVerbs.update["status"] = {"moved"}
        /\ RequisitionVerbs.update["approval_request_id"] = Values(Column("choice"))
        /\ RequisitionVerbs.update["filled_headcount"] = Values(RequisitionRow["filled_headcount"])
    BY DEF RequisitionVerbs
  <2>2. Values(Column("choice")) \subseteq Values(RequisitionRow["approval_request_id"])
    BY DEF RequisitionRow, Column, Option, Values, Sample
  <2> QED
    BY <1>6, <2>1, <2>2
<1>10. c \in DOMAIN RequisitionRules => RequisitionRules[c] \subseteq {"required", "max", "min"}
  BY DEF RequisitionRules
<1> QED
  BY <1>2, <1>4, <1>5, <1>6, <1>7, <1>8, <1>9, <1>10
  DEF FittingColumn, JobRequisition

LEMMA OfferLetterTemplateRegular ==
  ASSUME NEW c \in DOMAIN TemplateRow
  PROVE  FittingColumn(OfferLetterTemplate, c) /\ ListedColumn(OfferLetterTemplate, c)
<1>1. ~TemplateRow[c].null
  BY DEF TemplateRow, Column
<1>2. ListedColumn(OfferLetterTemplate, c)
  BY <1>1
  DEF ListedColumn, AbsentAlike, OfferLetterTemplate, TemplateRow, TemplateNew,
      TemplateCreate, TemplateBuilder, TemplateFromCreate, TemplateApplyUpdate,
      TemplateApplyPatch, TemplatePatch, TemplateResponse, Form, NoDefault
<1>4. FitsAbsent(TemplateCreate, c, TemplateRow[c])
  BY <1>1 DEF FitsAbsent, TemplateCreate, Form, NoDefault, TemplateRow
<1>5. FitsAbsent(TemplateUpdate, c, TemplateRow[c])
  BY <1>1 DEF FitsAbsent, TemplateUpdate, Form, NoDefault, TemplateRow
<1>7. DOMAIN TemplateFromCreate = {}
  BY DEF TemplateFromCreate, NoDefault
<1>8. IF c \in DOMAIN NoVerbs.insert THEN NoVerbs.insert[c] \subseteq Values(TemplateRow[c])
      ELSE DOMAIN NoVerbs.insert = {} \/ TemplateRow[c].null
  BY DEF NoVerbs, NoDefault
<1>9. c \in DOMAIN NoVerbs.update => NoVerbs.update[c] \subseteq Values(TemplateRow[c])
  BY DEF NoVerbs, NoDefault
<1>10. c \in DOMAIN TemplateRules => TemplateRules[c] \subseteq {"required", "max", "min"}
  BY DEF TemplateRules
<1> QED
  BY <1>2, <1>4, <1>5, <1>7, <1>8, <1>9, <1>10
  DEF FittingColumn, OfferLetterTemplate

LEMMA RecruitmentStageRegular ==
  ASSUME NEW c \in DOMAIN StageRow
  PROVE  FittingColumn(RecruitmentStage, c) /\ ListedColumn(RecruitmentStage, c)
<1>1. StageRow[c].null <=> c \notin {"name", "sequence", "is_hired", "folded"}
  BY DEF StageRow, Column, Option
<1>2. ListedColumn(RecruitmentStage, c)
  BY <1>1
  DEF ListedColumn, AbsentAlike, RecruitmentStage, StageRow, StageNew, StageSetters,
      StageCreate, StageBuilder, StageFromCreate, StageApplyUpdate, StageApplyPatch,
      StagePatch, StageResponse, Form, NoDefault
<1>3. /\ "ten" \in Values(StageRow["sequence"])
      /\ "false" \in Values(StageRow["is_hired"])
      /\ "false" \in Values(StageRow["folded"])
  BY DEF StageRow, Column, Values, Sample
<1>4. FitsAbsent(StageCreate, c, StageRow[c])
  <2>1. /\ DOMAIN StageCreate.default = {"sequence", "is_hired", "folded"}
        /\ StageCreate.default["sequence"] = "ten"
        /\ StageCreate.default["is_hired"] = "false"
        /\ StageCreate.default["folded"] = "false"
    BY DEF StageCreate, Form
  <2>2. c \in StageCreate.required \/ c \in DOMAIN StageCreate.default \/ StageRow[c].null
    BY <1>1, <2>1 DEF StageCreate, Form, StageRow
  <2> QED
    BY <1>3, <2>1, <2>2 DEF FitsAbsent
<1>5. FitsAbsent(StageUpdate, c, StageRow[c])
  BY <1>1 DEF FitsAbsent, StageUpdate, Form, NoDefault, StageRow
<1>7. DOMAIN StageFromCreate = {}
  BY DEF StageFromCreate, NoDefault
<1>8. IF c \in DOMAIN NoVerbs.insert THEN NoVerbs.insert[c] \subseteq Values(StageRow[c])
      ELSE DOMAIN NoVerbs.insert = {} \/ StageRow[c].null
  BY DEF NoVerbs, NoDefault
<1>9. c \in DOMAIN NoVerbs.update => NoVerbs.update[c] \subseteq Values(StageRow[c])
  BY DEF NoVerbs, NoDefault
<1>10. c \in DOMAIN StageRules => StageRules[c] \subseteq {"required", "max", "min"}
  BY DEF StageRules
<1> QED
  BY <1>2, <1>4, <1>5, <1>7, <1>8, <1>9, <1>10
  DEF FittingColumn, RecruitmentStage

LEMMA RequisitionSkillRegular ==
  ASSUME NEW c \in DOMAIN SkillRow
  PROVE  FittingColumn(RequisitionSkill, c) /\ ListedColumn(RequisitionSkill, c)
<1>1. ~SkillRow[c].null
  BY DEF SkillRow, Column
<1>2. ListedColumn(RequisitionSkill, c)
  BY <1>1
  DEF ListedColumn, AbsentAlike, RequisitionSkill, SkillRow, SkillNew, SkillCreate,
      SkillBuilder, SkillFromCreate, SkillApplyUpdate, SkillApplyPatch, SkillPatch,
      SkillResponse, Form, NoDefault
<1>4. FitsAbsent(SkillCreate, c, SkillRow[c])
  BY <1>1 DEF FitsAbsent, SkillCreate, Form, NoDefault, SkillRow
<1>5. FitsAbsent(SkillUpdate, c, SkillRow[c])
  BY <1>1 DEF FitsAbsent, SkillUpdate, Form, NoDefault, SkillRow
<1>7. DOMAIN SkillFromCreate = {}
  BY DEF SkillFromCreate, NoDefault
<1>8. IF c \in DOMAIN SkillVerbs.insert THEN SkillVerbs.insert[c] \subseteq Values(SkillRow[c])
      ELSE DOMAIN SkillVerbs.insert = {} \/ SkillRow[c].null
  BY DEF SkillVerbs
<1>9. c \in DOMAIN SkillVerbs.update => SkillVerbs.update[c] \subseteq Values(SkillRow[c])
  BY DEF SkillVerbs, NoDefault
<1>10. c \in DOMAIN SkillRules => SkillRules[c] \subseteq {"required", "max", "min"}
  BY DEF SkillRules
<1> QED
  BY <1>2, <1>4, <1>5, <1>7, <1>8, <1>9, <1>10
  DEF FittingColumn, RequisitionSkill

(* Every column of every table is a regular one.                           *)
LEMMA TablesRegular ==
  ASSUME PlaceTyped
  PROVE  FittingColumn(S, column) /\ ListedColumn(S, column)
<1>1. entity \in {"Candidate", "Interview", "JobApplication", "JobOffer",
                  "JobRequisition", "OfferLetterTemplate", "RecruitmentStage",
                  "RequisitionSkill"}
  BY DEF PlaceTyped, Services
<1>2. CASE entity = "Candidate"
  BY <1>2, CandidateRegular DEF PlaceTyped, S, Services, Candidate
<1>3. CASE entity = "Interview"
  BY <1>3, InterviewRegular DEF PlaceTyped, S, Services, Interview
<1>4. CASE entity = "JobApplication"
  BY <1>4, JobApplicationRegular DEF PlaceTyped, S, Services, JobApplication
<1>5. CASE entity = "JobOffer"
  BY <1>5, JobOfferRegular DEF PlaceTyped, S, Services, JobOffer
<1>6. CASE entity = "JobRequisition"
  BY <1>6, JobRequisitionRegular DEF PlaceTyped, S, Services, JobRequisition
<1>7. CASE entity = "OfferLetterTemplate"
  BY <1>7, OfferLetterTemplateRegular DEF PlaceTyped, S, Services, OfferLetterTemplate
<1>8. CASE entity = "RecruitmentStage"
  BY <1>8, RecruitmentStageRegular DEF PlaceTyped, S, Services, RecruitmentStage
<1>9. CASE entity = "RequisitionSkill"
  BY <1>9, RequisitionSkillRegular DEF PlaceTyped, S, Services, RequisitionSkill
<1> QED
  BY <1>1, <1>2, <1>3, <1>4, <1>5, <1>6, <1>7, <1>8, <1>9

(* Every column has one of the types.                                      *)
LEMMA ColumnsTyped ==
  ASSUME PlaceTyped
  PROVE  \E k \in DOMAIN Sample : S.row[column] \in {Column(k), Option(k)}
<1>1. DOMAIN Sample = {"text", "number", "flag", "time", "choice", "status"}
  BY DEF Sample
<1>2. entity \in {"Candidate", "Interview", "JobApplication", "JobOffer",
                  "JobRequisition", "OfferLetterTemplate", "RecruitmentStage",
                  "RequisitionSkill"}
  BY DEF PlaceTyped, Services
<1>3. CASE entity = "Candidate"
  BY <1>1, <1>3 DEF PlaceTyped, S, Services, Candidate, CandidateRow
<1>4. CASE entity = "Interview"
  BY <1>1, <1>4 DEF PlaceTyped, S, Services, Interview, InterviewRow
<1>5. CASE entity = "JobApplication"
  BY <1>1, <1>5 DEF PlaceTyped, S, Services, JobApplication, ApplicationRow
<1>6. CASE entity = "JobOffer"
  BY <1>1, <1>6 DEF PlaceTyped, S, Services, JobOffer, OfferRow
<1>7. CASE entity = "JobRequisition"
  BY <1>1, <1>7 DEF PlaceTyped, S, Services, JobRequisition, RequisitionRow
<1>8. CASE entity = "OfferLetterTemplate"
  BY <1>1, <1>8 DEF PlaceTyped, S, Services, OfferLetterTemplate, TemplateRow
<1>9. CASE entity = "RecruitmentStage"
  BY <1>1, <1>9 DEF PlaceTyped, S, Services, RecruitmentStage, StageRow
<1>10. CASE entity = "RequisitionSkill"
  BY <1>1, <1>10 DEF PlaceTyped, S, Services, RequisitionSkill, SkillRow
<1> QED
  BY <1>2, <1>3, <1>4, <1>5, <1>6, <1>7, <1>8, <1>9, <1>10

(* No value of a column is one of the other things a body may say.         *)
LEMMA ValuesAreNoMarks ==
  ASSUME PlaceTyped
  PROVE  /\ "absent" \notin Values(Type) /\ "unreadable" \notin Values(Type)
         /\ "null" \in Values(Type) <=> Type.null
<1>1. \E k \in DOMAIN Sample : Type = Column(k) \/ Type = Option(k)
  <2>1. entity \in DOMAIN Services /\ column \in DOMAIN S.row
    BY DEF PlaceTyped
  <2> QED
    BY <2>1, ColumnsTyped DEF Type, PlaceTyped
<1>2. PICK k \in DOMAIN Sample : Type = Column(k) \/ Type = Option(k)
  BY <1>1
<1>3. "absent" \notin Sample[k] /\ "unreadable" \notin Sample[k] /\ "null" \notin Sample[k]
  <2>1. k \in {"text", "number", "flag", "time", "choice", "status"}
    BY DEF Sample
  <2>2. CASE k = "text"
    BY <2>2 DEF Sample
  <2>3. CASE k = "number"
    BY <2>3 DEF Sample
  <2>4. CASE k = "flag"
    BY <2>4 DEF Sample
  <2>5. CASE k = "time"
    BY <2>5 DEF Sample
  <2>6. CASE k = "choice"
    BY <2>6 DEF Sample
  <2>7. CASE k = "status"
    BY <2>7 DEF Sample
  <2> QED
    BY <2>1, <2>2, <2>3, <2>4, <2>5, <2>6, <2>7
<1>4. CASE Type = Column(k)
  <2>1. Type.kind = k /\ Type.null = FALSE
    BY <1>4 DEF Column
  <2> QED
    BY <1>3, <2>1 DEF Values
<1>5. CASE Type = Option(k)
  <2>1. Type.kind = k /\ Type.null = TRUE
    BY <1>5 DEF Option
  <2> QED
    BY <1>3, <2>1 DEF Values
<1> QED
  BY <1>2, <1>4, <1>5

-----------------------------------------------------------------------------
(* The types: whatever a form, a patch, a verb or the migration makes of   *)
(* the followed column is a value of its type.                             *)

LEMMA FormsFit ==
  ASSUME PlaceTyped, NEW body \in Body
  PROVE  /\ Created(body) \subseteq Values(Type)
         /\ Received(S.update, body) \subseteq Values(Type)
         /\ \A old \in Values(Type) : Patched(old, body) \in Values(Type)
<1>1. FittingColumn(S, column)
  BY TablesRegular
<1>2. ASSUME NEW form, FitsAbsent(form, column, Type)
      PROVE  Received(form, body) \subseteq Values(Type)
  BY <1>2, ValuesAreNoMarks DEF Received, FitsAbsent, Body
<1>3. Created(body) \subseteq Values(Type)
  BY <1>1, <1>2 DEF Created, FittingColumn, Type
<1>4. Received(S.update, body) \subseteq Values(Type)
  BY <1>1, <1>2 DEF FittingColumn, Type
<1>5. ASSUME NEW old \in Values(Type)
      PROVE  Patched(old, body) \in Values(Type)
  BY ValuesAreNoMarks DEF Patched, Body
<1> QED
  BY <1>3, <1>4, <1>5

(* A step that leaves the place, and keeps each of the rest to its type.   *)
LEMMA TypesKept ==
  ASSUME TypeOK, UNCHANGED place,
         row' \in Values(Type) \cup {"none", "gone"}, trashed' \in BOOLEAN,
         checked' \subseteq {"required", "max", "min"},
         inherited' \subseteq Values(Type),
         job' \in [Tx -> Values(Type) \cup {None}]
  PROVE  TypeOK'
<1>1. entity' = entity /\ column' = column /\ surface' = surface
  BY DEF place
<1>2. S' = S
  BY <1>1 DEF S
<1>3. Type' = Type
  BY <1>1, <1>2 DEF Type
<1> QED
  BY <1>1, <1>2, <1>3 DEF TypeOK

LEMMA TypesStep ==
  ASSUME TypeOK, [Next]_vars
  PROVE  TypeOK'
<1> USE DEF TypeOK
<1>1. PlaceTyped
  BY DEF PlaceTyped
<1>2. /\ row \in Values(Type) \cup {"none", "gone"} /\ trashed \in BOOLEAN
      /\ checked \subseteq {"required", "max", "min"}
      /\ inherited \subseteq Values(Type)
      /\ job \in [Tx -> Values(Type) \cup {None}]
  OBVIOUS
<1>3. Stored => row \in Values(Type)
  BY DEF Stored
<1>4. ASSUME NEW body \in Body, Post(body)
      PROVE  TypeOK'
  <2>1. row' \in Values(Type)
    BY <1>1, <1>4, FormsFit DEF Post
  <2> QED
    BY <1>4, <2>1, TypesKept DEF Post
<1>5. ASSUME NEW t \in Tx, NEW v \in Values(Type), Stored, Accept(t, v)
      PROVE  TypeOK'
  <2>1. Kept(v) \in Values(Type)
    BY <1>3, <1>5 DEF Kept
  <2>2. job' \in [Tx -> Values(Type) \cup {None}]
    BY <1>5, <2>1 DEF Accept
  <2> QED
    BY <1>5, <2>2, TypesKept DEF Accept
<1>6. ASSUME NEW body \in Body, NEW t \in Tx, StartPut(t, body)
      PROVE  TypeOK'
  <2>1. /\ Stored
        /\ \E v \in Replaced(row, body) : Accept(t, v)
    BY <1>6 DEF StartPut
  <2>2. Replaced(row, body) \subseteq Values(Type)
    BY <1>1, <1>3, <2>1, FormsFit DEF Replaced
  <2> QED
    BY <1>5, <2>1, <2>2
<1>7. ASSUME NEW body \in Body, NEW t \in Tx, StartPatch(t, body)
      PROVE  TypeOK'
  <2>1. Stored /\ Accept(t, Patched(row, body))
    BY <1>7 DEF StartPatch
  <2>2. Patched(row, body) \in Values(Type)
    BY <1>1, <1>3, <2>1, FormsFit
  <2> QED
    BY <1>5, <2>1, <2>2
<1>8. ASSUME NEW t \in Tx, Store(t) \/ GiveUp(t)
      PROVE  TypeOK'
  <2>1. /\ UNCHANGED <<place, trashed, checked, inherited>>
        /\ job[t] # None /\ job' = [job EXCEPT ![t] = None]
        /\ row' = row \/ row' = job[t]
    BY <1>8 DEF Store, GiveUp, Kept
  <2>2. job' \in [Tx -> Values(Type) \cup {None}] /\ job[t] \in Values(Type)
    BY <2>1
  <2> QED
    BY <1>2, <2>1, <2>2, TypesKept
<1>9. CASE Delete \/ Restore \/ PurgeTrash \/ VerbDelete
  <2>1. /\ UNCHANGED <<place, checked, inherited, job>>
        /\ row' \in {row, "gone"} /\ trashed' \in BOOLEAN
    BY <1>9 DEF Delete, Restore, Trash, PurgeTrash, VerbDelete
  <2> QED
    BY <1>2, <2>1, TypesKept
<1>10. ASSUME NEW v \in Values(Type), VerbStores(v)
       PROVE  TypeOK'
  BY <1>2, <1>10, TypesKept DEF VerbStores
<1>11. CASE VerbInsert \/ VerbUpdate
  <2>1. FittingColumn(S, column)
    BY <1>1, TablesRegular
  <2>2. CASE VerbInsert
    <3>1. PICK v \in IF column \in DOMAIN S.verbs.insert THEN S.verbs.insert[column]
                     ELSE {"null"} : VerbStores(v)
      BY <2>2 DEF VerbInsert
    <3>2. v \in Values(Type)
      BY <1>1, <2>1, <2>2, <3>1, ValuesAreNoMarks DEF VerbInsert, FittingColumn, Type
    <3> QED
      BY <1>10, <3>1, <3>2
  <2>3. CASE VerbUpdate
    <3>1. PICK v \in S.verbs.update[column] : VerbStores(v)
      BY <2>3 DEF VerbUpdate
    <3>2. v \in Values(Type)
      BY <2>1, <2>3, <3>1 DEF VerbUpdate, FittingColumn, Type
    <3> QED
      BY <1>10, <3>1, <3>2
  <2> QED
    BY <1>11, <2>2, <2>3
<1>12. ASSUME NEW rule \in {"required", "max", "min"}, AddCheck(rule)
       PROVE  TypeOK'
  BY <1>2, <1>12, TypesKept DEF AddCheck
<1>13. CASE UNCHANGED vars
  BY <1>2, <1>13, TypesKept DEF vars, place
<1> QED
  BY <1>4, <1>6, <1>7, <1>8, <1>9, <1>11, <1>12, <1>13 DEF Next, Route, Verb

(* Every variable keeps to its type: what is stored and what is about to   *)
(* be stored is always a value of the column, whoever writes it.           *)
THEOREM RowsTyped == Spec => []TypeOK
<1>1. Init => TypeOK
  <2> SUFFICES ASSUME Init PROVE TypeOK
    OBVIOUS
  <2>1. PlaceTyped
    BY DEF Init, PlaceTyped
  <2>2. /\ entity \in DOMAIN Services /\ column \in DOMAIN S.row
        /\ surface \in DOMAIN Writable /\ trashed \in BOOLEAN
        /\ job \in [Tx -> Values(Type) \cup {None}]
    BY DEF Init
  <2>3. checked \subseteq {"required", "max", "min"}
    BY DEF Init
  <2>4. row \in Values(Type) \cup {"none"}
    BY DEF Init
  <2>5. inherited \subseteq Values(Type)
    BY <2>4 DEF Init, Stored
  <2> QED
    BY <2>2, <2>3, <2>4, <2>5 DEF TypeOK
<1>2. TypeOK /\ [Next]_vars => TypeOK'
  BY TypesStep
<1> QED
  BY <1>1, <1>2, PTL DEF Spec

(* The lists of the columns agree, on every table and on every surface.    *)
LEMMA FormsOfPlaceAgree ==
  ASSUME PlaceTyped
  PROVE  FormsAgree
<1>1. ListedColumn(S, column)
  BY TablesRegular
<1>2. column \in S.response
  BY <1>1 DEF ListedColumn
<1>3. ASSUME NEW form, NEW v \in Values(Type)
      PROVE  Received(form, v) = {v}
  BY ValuesAreNoMarks DEF Received
<1>4. ASSUME NEW v \in Values(Type)
      PROVE  /\ Received(S.builder, v) = {v}
             /\ Constructed(v) = v
             /\ column # "status" => Created(v) = {v}
             /\ \A old \in Values(Type) : Replaced(old, v) = {v}
  BY <1>1, <1>3 DEF ListedColumn, Constructed, Created, Replaced
<1>5. ASSUME column \notin DOMAIN S.fromCreate
      PROVE  Created("absent") = Received(S.builder, "absent")
  BY <1>1, <1>5 DEF Created, Received, ListedColumn, AbsentAlike
<1>6. ASSUME column \in DOMAIN S.fromCreate, NEW body \in Body
      PROVE  Created(body) = Received(S.builder, "absent")
  BY <1>1, <1>6 DEF Created, Received, ListedColumn
<1>7. ASSUME NEW old \in Values(Type), NEW body \in Body
      PROVE  PatchedByDto(old, body) \subseteq {Patched(old, body)}
  BY <1>1, ValuesAreNoMarks DEF PatchedByDto, Patched, ListedColumn, Type
<1> QED
  BY <1>2, <1>4, <1>5, <1>6, <1>7 DEF FormsAgree

(* The constructor, the builder and POST make the same row, a PUT stores   *)
(* what it is given, and the two ways to patch agree, for every column.    *)
THEOREM AllFormsAgree == Spec => []FormsAgree
<1>1. IInv => FormsAgree
  BY FormsOfPlaceAgree DEF IInv
<1> QED
  BY <1>1, RowsInvariant, PTL
=============================================================================
