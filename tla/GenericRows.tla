---------------------------- MODULE GenericRows ----------------------------
(***************************************************************************)
(* The generated write path: a row that is created, replaced, patched,     *)
(* trashed, restored and purged through the generic service and its        *)
(* routes, next to the verbs, which write the same table with SQL of their *)
(* own, and next to the migration that turns the row rules into CHECKs of  *)
(* the database, each only where no stored row breaks it.                  *)
(*                                                                         *)
(* All of it works column by column, a refusal aside, so the model follows *)
(* one column of one row.  The service reads the row, judges what the      *)
(* request makes of it and stores that, without a lock in between.         *)
(***************************************************************************)
EXTENDS EntityTables

CONSTANTS
  Tx,    \* requests in progress
  None   \* no request

VARIABLES
  entity, column,  \* the table and the column that are followed
  surface,         \* the routes that the deployment mounts
  row,             \* the stored value, or "none" yet, or "gone" for good
  trashed,         \* metadata.deleted_at is set
  checked,         \* the rules that are CHECKs of the database
  inherited,       \* values stored by a verb, or before there were row rules
  job              \* what a request that was let through is about to store

vars == <<entity, column, surface, row, trashed, checked, inherited, job>>
place == <<entity, column, surface>>

-----------------------------------------------------------------------------
(* The eight services.                                                     *)

Candidate ==
  [row |-> CandidateRow, new |-> CandidateNew, setters |-> CandidateSetters,
   applyPatch |-> CandidateApplyPatch, protected |-> CandidateProtected,
   builder |-> CandidateBuilder, create |-> CandidateCreate,
   fromCreate |-> CandidateFromCreate, update |-> CandidateUpdate,
   applyUpdate |-> CandidateApplyUpdate, patch |-> CandidatePatch,
   response |-> CandidateResponse, rules |-> CandidateRules, verbs |-> CandidateVerbs]

Interview ==
  [row |-> InterviewRow, new |-> InterviewNew, setters |-> InterviewSetters,
   applyPatch |-> InterviewApplyPatch, protected |-> InterviewProtected,
   builder |-> InterviewBuilder, create |-> InterviewCreate,
   fromCreate |-> InterviewFromCreate, update |-> InterviewUpdate,
   applyUpdate |-> InterviewApplyUpdate, patch |-> InterviewPatch,
   response |-> InterviewResponse, rules |-> InterviewRules, verbs |-> InterviewVerbs]

JobApplication ==
  [row |-> ApplicationRow, new |-> ApplicationNew, setters |-> ApplicationSetters,
   applyPatch |-> ApplicationApplyPatch, protected |-> ApplicationProtected,
   builder |-> ApplicationBuilder, create |-> ApplicationCreate,
   fromCreate |-> ApplicationFromCreate, update |-> ApplicationUpdate,
   applyUpdate |-> ApplicationApplyUpdate, patch |-> ApplicationPatch,
   response |-> ApplicationResponse, rules |-> ApplicationRules,
   verbs |-> ApplicationVerbs]

JobOffer ==
  [row |-> OfferRow, new |-> OfferNew, setters |-> OfferSetters,
   applyPatch |-> OfferApplyPatch, protected |-> OfferProtected,
   builder |-> OfferBuilder, create |-> OfferCreate,
   fromCreate |-> OfferFromCreate, update |-> OfferUpdate,
   applyUpdate |-> OfferApplyUpdate, patch |-> OfferPatch,
   response |-> OfferResponse, rules |-> OfferRules, verbs |-> OfferVerbs]

JobRequisition ==
  [row |-> RequisitionRow, new |-> RequisitionNew, setters |-> RequisitionSetters,
   applyPatch |-> RequisitionApplyPatch, protected |-> RequisitionProtected,
   builder |-> RequisitionBuilder, create |-> RequisitionCreate,
   fromCreate |-> RequisitionFromCreate, update |-> RequisitionUpdate,
   applyUpdate |-> RequisitionApplyUpdate, patch |-> RequisitionPatch,
   response |-> RequisitionResponse, rules |-> RequisitionRules,
   verbs |-> RequisitionVerbs]

OfferLetterTemplate ==
  [row |-> TemplateRow, new |-> TemplateNew, setters |-> {},
   applyPatch |-> TemplateApplyPatch, protected |-> TemplateProtected,
   builder |-> TemplateBuilder, create |-> TemplateCreate,
   fromCreate |-> TemplateFromCreate, update |-> TemplateUpdate,
   applyUpdate |-> TemplateApplyUpdate, patch |-> TemplatePatch,
   response |-> TemplateResponse, rules |-> TemplateRules, verbs |-> NoVerbs]

RecruitmentStage ==
  [row |-> StageRow, new |-> StageNew, setters |-> StageSetters,
   applyPatch |-> StageApplyPatch, protected |-> StageProtected,
   builder |-> StageBuilder, create |-> StageCreate,
   fromCreate |-> StageFromCreate, update |-> StageUpdate,
   applyUpdate |-> StageApplyUpdate, patch |-> StagePatch,
   response |-> StageResponse, rules |-> StageRules, verbs |-> NoVerbs]

RequisitionSkill ==
  [row |-> SkillRow, new |-> SkillNew, setters |-> {},
   applyPatch |-> SkillApplyPatch, protected |-> SkillProtected,
   builder |-> SkillBuilder, create |-> SkillCreate,
   fromCreate |-> SkillFromCreate, update |-> SkillUpdate,
   applyUpdate |-> SkillApplyUpdate, patch |-> SkillPatch,
   response |-> SkillResponse, rules |-> SkillRules, verbs |-> SkillVerbs]

Services ==
  [Candidate |-> Candidate, Interview |-> Interview, JobApplication |-> JobApplication,
   JobOffer |-> JobOffer, JobRequisition |-> JobRequisition,
   OfferLetterTemplate |-> OfferLetterTemplate, RecruitmentStage |-> RecruitmentStage,
   RequisitionSkill |-> RequisitionSkill]

(* The tables that a surface lets the generic routes write.                *)
ReadonlyRoutes == {}
AllCrudRoutes ==
  {"Candidate", "JobApplication", "OfferLetterTemplate", "RecruitmentStage",
   "RequisitionSkill"}
GuardedRoutes ==
  {"Candidate", "JobRequisition", "OfferLetterTemplate", "RecruitmentStage"}

Writable ==
  [readonly |-> ReadonlyRoutes, all_crud |-> AllCrudRoutes, guarded |-> GuardedRoutes]

-----------------------------------------------------------------------------
(* What the code makes of a value, a null, an absent or an unreadable      *)
(* field.  An operator that may refuse returns the set of its results.     *)

S == Services[entity]
Type == S.row[column]

Body == Values(Type) \cup {"null", "absent", "unreadable"}

(* serde reads a form, the builder likewise.                               *)
Received(form, body) ==
  CASE body = "unreadable" -> {}
    [] body = "null"   -> IF Type.null THEN {"null"} ELSE {}
    [] body = "absent" -> IF column \in form.required THEN {}
                          ELSE {IF column \in DOMAIN form.default
                                  THEN form.default[column] ELSE "null"}
    [] OTHER           -> {body}

Created(body) ==
  IF column \in DOMAIN S.fromCreate THEN {S.fromCreate[column]}
                                    ELSE Received(S.create, body)

Replaced(old, body) ==
  {IF column \in S.applyUpdate THEN v ELSE old : v \in Received(S.update, body)}

(* apply_patch: a value that does not fit is passed over.                  *)
Patched_Unread(old, body) == IF column \notin S.applyPatch THEN old ELSE body

Patched(old, body) ==
  IF \/ column \notin S.applyPatch
     \/ body \in {"absent", "unreadable"}
     \/ body = "null" /\ ~Type.null
  THEN old ELSE body

(* The PATCH body: only a double_option column tells null from absent.     *)
PatchedByDto(old, body) ==
  CASE body = "unreadable" -> {}
    [] body = "null" -> {IF column \in S.patch THEN "null" ELSE old}
    [] body = "absent" -> {old}
    [] OTHER -> {body}

(* new(), then the setters of the other columns the caller knows; a column *)
(* with neither keeps the null it starts with.                             *)
Constructed(body) ==
  IF column \in S.new \cup S.setters THEN body ELSE "null"

Breaks(rule, v) ==
  CASE rule = "required" -> v \in {"null", "blank"}
    [] rule = "max" -> v = "too long"
    [] rule = "min" -> v = "negative"

Broken(v) ==
  IF column \in DOMAIN S.rules THEN {r \in S.rules[column] : Breaks(r, v)} ELSE {}

(* The guard asks only about the columns that the request changes.         *)
GuardCreate(v) == Broken(v) = {}
GuardUpdate_OldIsBroken(old, v) == Broken(old) # {} \/ Broken(v) = {}
GuardUpdate(old, v) == v = old \/ Broken(v) = {}

CheckConstraints(v) == Broken(v) \cap checked = {}

Stored == row \notin {"none", "gone"}

-----------------------------------------------------------------------------
TypeOK ==
  /\ entity \in DOMAIN Services /\ column \in DOMAIN S.row
  /\ surface \in DOMAIN Writable
  /\ row \in Values(Type) \cup {"none", "gone"}
  /\ trashed \in BOOLEAN
  /\ checked \subseteq {"required", "max", "min"}
  /\ inherited \subseteq Values(Type)
  /\ job \in [Tx -> Values(Type) \cup {None}]

(* The tables were created with CHECKs on the counts, and with no other.   *)
Init ==
  /\ entity \in DOMAIN Services /\ column \in DOMAIN S.row
  /\ surface \in DOMAIN Writable
  /\ checked = IF column \in DOMAIN S.rules THEN S.rules[column] \cap {"min"} ELSE {}
  /\ row \in {v \in Values(Type) : CheckConstraints(v)} \cup {"none"}
  /\ trashed = FALSE
  /\ inherited = IF Stored /\ Broken(row) # {} THEN {row} ELSE {}
  /\ job = [t \in Tx |-> None]

Mounted == entity \in Writable[surface]

Post(body) ==
  /\ Mounted /\ row = "none"
  /\ \E v \in Created(body) :
       /\ GuardCreate(v) /\ CheckConstraints(v)
       /\ row' = v
  /\ UNCHANGED <<place, trashed, checked, inherited, job>>

(* A protected column keeps the stored value whatever the request says.    *)
Kept(v) == IF column \in S.protected THEN row ELSE v

Accept(t, v) ==
  /\ GuardUpdate(row, Kept(v))
  /\ job' = [job EXCEPT ![t] = Kept(v)]
  /\ UNCHANGED <<place, row, trashed, checked, inherited>>

StartPut(t, body) ==
  /\ Mounted /\ Stored /\ ~trashed /\ job[t] = None
  /\ \E v \in Replaced(row, body) : Accept(t, v)

StartPatch(t, body) ==
  /\ Mounted /\ Stored /\ ~trashed /\ job[t] = None
  /\ Accept(t, Patched(row, body))

Store(t) ==
  /\ job[t] # None /\ Stored
  /\ CheckConstraints(job[t])
  /\ row' = Kept(job[t])
  /\ job' = [job EXCEPT ![t] = None]
  /\ UNCHANGED <<place, trashed, checked, inherited>>

(* The row is gone, a CHECK refuses it, or the connection is lost.         *)
GiveUp(t) ==
  /\ job[t] # None
  /\ job' = [job EXCEPT ![t] = None]
  /\ UNCHANGED <<place, row, trashed, checked, inherited>>

Trash(to) ==
  /\ Mounted /\ Stored
  /\ trashed' = to
  /\ UNCHANGED <<place, row, checked, inherited, job>>

Delete == ~trashed /\ Trash(TRUE)
Restore == trashed /\ Trash(FALSE)

PurgeTrash ==
  /\ Mounted /\ Stored /\ trashed
  /\ row' = "gone"
  /\ UNCHANGED <<place, trashed, checked, inherited, job>>

-----------------------------------------------------------------------------
(* Past the service: the verbs, which look at no row rule and at no trash, *)
(* and the migration.                                                      *)

VerbStores(v) ==
  /\ CheckConstraints(v)
  /\ row' = v
  /\ inherited' = IF Broken(v) = {} THEN inherited ELSE inherited \cup {v}
  /\ UNCHANGED <<place, trashed, checked, job>>

VerbInsert ==
  /\ row = "none" /\ DOMAIN S.verbs.insert # {}
  /\ \E v \in IF column \in DOMAIN S.verbs.insert THEN S.verbs.insert[column]
                                                  ELSE {"null"} : VerbStores(v)

VerbUpdate ==
  /\ Stored /\ column \in DOMAIN S.verbs.update
  /\ \E v \in S.verbs.update[column] : VerbStores(v)

VerbDelete ==
  /\ Stored /\ S.verbs.delete
  /\ row' = "gone"
  /\ UNCHANGED <<place, trashed, checked, inherited, job>>

Verb == VerbInsert \/ VerbUpdate \/ VerbDelete

(* A rule that a stored row breaks, trashed or not, is skipped.            *)
AddCheck(rule) ==
  /\ column \in DOMAIN S.rules /\ rule \in S.rules[column] \ checked
  /\ Stored => rule \notin Broken(row)
  /\ checked' = checked \cup {rule}
  /\ UNCHANGED <<place, row, trashed, inherited, job>>

Route ==
  \/ \E body \in Body : Post(body) \/ \E t \in Tx : StartPut(t, body) \/ StartPatch(t, body)
  \/ \E t \in Tx : Store(t) \/ GiveUp(t)
  \/ Delete \/ Restore \/ PurgeTrash

Next == Route \/ Verb \/ \E rule \in {"required", "max", "min"} : AddCheck(rule)

Spec == Init /\ [][Next]_vars

-----------------------------------------------------------------------------
(* Properties.                                                             *)

(* The row rules are "checked against the row a create or update would     *)
(* store", but only where it differs from the row that was read, and a     *)
(* CHECK is only added where no row breaks it.  All the same no sequence   *)
(* of requests brings a broken value in: each was stored by a verb or      *)
(* before the rules, and none breaks a rule that is a CHECK.               *)
BrokenValuesAreInherited ==
  Stored => /\ Broken(row) # {} => row \in inherited
            /\ CheckConstraints(row)

(* "The state field moves only through the module's validated verbs;       *)
(* generic writes cannot reach it": however many requests are under way    *)
(* with the state they read earlier, a row starts in the first state and   *)
(* leaves it by a verb.                                                    *)
LifecycleMovesByVerbs ==
  [][column = "status" => \/ Verb \/ row' \in {row, "gone"}
                          \/ row = "none" /\ row' = "first"]_vars

(* The source lists the columns of a table in a dozen places, and they     *)
(* agree: the constructor, the builder and POST make the same row, bar the *)
(* state that POST may not choose; a PUT of the row that a GET shows       *)
(* leaves it as it is, one of a new value stores that value; and the two   *)
(* ways to patch agree where the typed one accepts the field.              *)
FormsAgree ==
  /\ column \in S.response
  /\ \A v \in Values(Type) :
       /\ Received(S.builder, v) = {v}
       /\ Constructed(v) = v
       /\ column # "status" => Created(v) = {v}
       /\ \A old \in Values(Type) : Replaced(old, v) = {v}
  /\ column \notin DOMAIN S.fromCreate =>
       Created("absent") = Received(S.builder, "absent")
  /\ column \in DOMAIN S.fromCreate =>
       \A body \in Body : Created(body) = Received(S.builder, "absent")
  /\ \A old \in Values(Type), body \in Body :
       PatchedByDto(old, body) \subseteq {Patched(old, body)}
=============================================================================
