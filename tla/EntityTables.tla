---------------------------- MODULE EntityTables ----------------------------
(***************************************************************************)
(* What the source says of each of the eight tables, and says it more than *)
(* once: the entity's struct, its constructor and setters, its builder,    *)
(* its patch, the request bodies of POST, PUT and PATCH, the conversions   *)
(* between them, and the row rules of its service.  Every one of these     *)
(* lists the columns anew; GenericRows runs a row through them.            *)
(*                                                                         *)
(* id and metadata are left out: no request carries them.  A rule is       *)
(* "required" (neither null nor blank), "max" (not too long) or "min"      *)
(* (not negative).                                                         *)
(***************************************************************************)

(* The types of columns, and the values that stand for what a column of    *)
(* the type may hold.  A date counts as a time; an id, an enum that is no  *)
(* lifecycle and an amount are all a choice between two.                   *)
Column(kind) == [kind |-> kind, null |-> FALSE]
Option(kind) == [kind |-> kind, null |-> TRUE]

Sample ==
  [text   |-> {"some text", "blank", "too long"}, number |-> {"zero", "ten", "negative"},
   flag   |-> {"false", "true"},                  time   |-> {"now", "then"},
   choice |-> {"one", "two"},                     status |-> {"first", "moved"}]

Values(type) == Sample[type.kind] \cup IF type.null THEN {"null"} ELSE {}

(* A form: the columns a builder or a request body takes, those it cannot  *)
(* do without, and the values of those that have a default.                *)
Form(columns, required, default) ==
  [columns |-> columns, required |-> required, default |-> default]

NotNull(row) == {c \in DOMAIN row : ~row[c].null}
NoDefault == [c \in {} |-> "null"]
OnlyStatus == [status |-> "first"]

-----------------------------------------------------------------------------
(* Candidate                                                               *)

CandidateRow ==
  [first_name |-> Column("text"), last_name |-> Option("text"),
   email |-> Option("text"), phone |-> Option("text"), source |-> Option("choice"),
   current_employer |-> Option("text"), resume_url |-> Option("text")]
CandidateNew == {"first_name"}
CandidateSetters ==
  {"last_name", "email", "phone", "source", "current_employer", "resume_url"}
CandidateApplyPatch == DOMAIN CandidateRow
CandidateProtected == {}
CandidateBuilder == Form(DOMAIN CandidateRow, {"first_name"}, NoDefault)
CandidateCreate == Form(DOMAIN CandidateRow, {"first_name"}, NoDefault)
CandidateFromCreate == NoDefault
CandidateUpdate == Form(DOMAIN CandidateRow, {"first_name"}, NoDefault)
CandidateApplyUpdate == DOMAIN CandidateRow
CandidatePatch == DOMAIN CandidateRow \ {"first_name"}
CandidateResponse == DOMAIN CandidateRow
CandidateRules ==
  [first_name |-> {"required", "max"}, last_name |-> {"max"}, email |-> {"max"},
   phone |-> {"max"}, current_employer |-> {"max"}, resume_url |-> {"max"}]

-----------------------------------------------------------------------------
(* Interview                                                               *)

InterviewRow ==
  [application_id |-> Column("choice"), interviewer_id |-> Column("choice"),
   scheduled_at |-> Column("time"), round |-> Option("number"),
   interview_format |-> Option("text"), rating |-> Option("number"),
   feedback |-> Option("text"), status |-> Column("status")]
InterviewNew == {"application_id", "interviewer_id", "scheduled_at", "status"}
InterviewSetters == {"round", "interview_format", "rating", "feedback"}
InterviewApplyPatch == DOMAIN InterviewRow
InterviewProtected == {"status"}
InterviewBuilder ==
  Form(DOMAIN InterviewRow, {"application_id", "interviewer_id", "scheduled_at"}, OnlyStatus)
InterviewCreate ==
  Form(DOMAIN InterviewRow \ {"status"},
       {"application_id", "interviewer_id", "scheduled_at"}, NoDefault)
InterviewFromCreate == OnlyStatus
InterviewUpdate ==
  Form(DOMAIN InterviewRow,
       {"application_id", "interviewer_id", "scheduled_at", "status"}, NoDefault)
InterviewApplyUpdate == DOMAIN InterviewRow
InterviewPatch == {"round", "interview_format", "rating", "feedback"}
InterviewResponse == DOMAIN InterviewRow
InterviewRules ==
  [application_id |-> {"required"}, interviewer_id |-> {"required"},
   round |-> {"min"}, interview_format |-> {"max"}, rating |-> {"min"}]

-----------------------------------------------------------------------------
(* JobApplication                                                          *)

ApplicationRow ==
  [candidate_id |-> Column("choice"), requisition_id |-> Column("choice"),
   stage_id |-> Column("choice"), last_stage_id |-> Option("choice"),
   stage_updated_at |-> Option("time"), date_closed |-> Option("time"),
   refuse_reason |-> Option("text"), refused_at |-> Option("time"),
   applied_at |-> Column("time")]
ApplicationNew == {"candidate_id", "requisition_id", "stage_id", "applied_at"}
ApplicationSetters ==
  {"last_stage_id", "stage_updated_at", "date_closed", "refuse_reason", "refused_at"}
ApplicationApplyPatch == DOMAIN ApplicationRow
ApplicationProtected == {}
ApplicationBuilder ==
  Form(DOMAIN ApplicationRow, {"candidate_id", "requisition_id", "stage_id"},
       [applied_at |-> "now"])
ApplicationCreate ==
  Form(DOMAIN ApplicationRow, {"candidate_id", "requisition_id", "stage_id"},
       [applied_at |-> "now"])
ApplicationFromCreate == NoDefault
ApplicationUpdate ==
  Form(DOMAIN ApplicationRow, {"candidate_id", "requisition_id", "stage_id", "applied_at"},
       NoDefault)
ApplicationApplyUpdate == DOMAIN ApplicationRow
ApplicationPatch ==
  {"last_stage_id", "stage_updated_at", "date_closed", "refuse_reason", "refused_at"}
ApplicationResponse == DOMAIN ApplicationRow
ApplicationRules ==
  [candidate_id |-> {"required"}, requisition_id |-> {"required"},
   stage_id |-> {"required"}, refuse_reason |-> {"max"}]

-----------------------------------------------------------------------------
(* JobOffer                                                                *)

OfferRow ==
  [approval_request_id |-> Option("choice"), application_id |-> Column("choice"),
   proposed_salary |-> Option("choice"), employment_type |-> Option("text"),
   letter_template_id |-> Option("choice"), status |-> Column("status"),
   offered_at |-> Option("time"), accepted_at |-> Option("time"),
   start_date |-> Option("time")]
OfferNew == {"application_id", "status"}
OfferSetters ==
  {"approval_request_id", "proposed_salary", "employment_type", "letter_template_id",
   "offered_at", "accepted_at", "start_date"}
OfferApplyPatch == DOMAIN OfferRow
OfferProtected == {"status"}
OfferBuilder == Form(DOMAIN OfferRow, {"application_id"}, OnlyStatus)
OfferCreate == Form(DOMAIN OfferRow \ {"status"}, {"application_id"}, NoDefault)
OfferFromCreate == OnlyStatus
OfferUpdate == Form(DOMAIN OfferRow, {"application_id", "status"}, NoDefault)
OfferApplyUpdate == DOMAIN OfferRow
OfferPatch ==
  {"approval_request_id", "proposed_salary", "employment_type", "letter_template_id",
   "offered_at", "accepted_at", "start_date"}
OfferResponse == DOMAIN OfferRow
OfferRules == [application_id |-> {"required"}, employment_type |-> {"max"}]

-----------------------------------------------------------------------------
(* JobRequisition                                                          *)

RequisitionRow ==
  [department_id |-> Option("choice"), position_id |-> Option("choice"),
   title |-> Column("text"), headcount |-> Column("number"),
   filled_headcount |-> Column("number"), employment_type |-> Option("text"),
   status |-> Column("status"), approval_request_id |-> Option("choice"),
   opened_by |-> Column("choice"), budget |-> Option("choice"), deadline |-> Option("time")]
RequisitionNew == {"title", "headcount", "filled_headcount", "status", "opened_by"}
RequisitionSetters ==
  {"department_id", "position_id", "employment_type", "approval_request_id", "budget",
   "deadline"}
RequisitionApplyPatch == DOMAIN RequisitionRow
RequisitionProtected_Forgotten == {}
RequisitionProtected == {"status"}
RequisitionBuilder ==
  Form(DOMAIN RequisitionRow, {"title", "headcount", "opened_by"},
       [filled_headcount |-> "zero", status |-> "first"])
RequisitionCreate ==
  Form(DOMAIN RequisitionRow \ {"status"}, {"title", "headcount", "opened_by"},
       [filled_headcount |-> "zero"])
RequisitionFromCreate == OnlyStatus
RequisitionUpdate ==
  Form(DOMAIN RequisitionRow,
       {"title", "headcount", "filled_headcount", "status", "opened_by"}, NoDefault)
RequisitionApplyUpdate == DOMAIN RequisitionRow
RequisitionPatch ==
  {"department_id", "position_id", "employment_type", "approval_request_id", "budget",
   "deadline"}
RequisitionResponse == DOMAIN RequisitionRow
RequisitionRules ==
  [title |-> {"required", "max"}, headcount |-> {"min"}, filled_headcount |-> {"min"},
   employment_type |-> {"max"}, opened_by |-> {"required"}]

-----------------------------------------------------------------------------
(* OfferLetterTemplate                                                     *)

TemplateRow ==
  [name |-> Column("text"), subject |-> Column("text"), body |-> Column("text")]
TemplateNew == DOMAIN TemplateRow
TemplateApplyPatch == DOMAIN TemplateRow
TemplateProtected == {}
TemplateBuilder == Form(DOMAIN TemplateRow, DOMAIN TemplateRow, NoDefault)
TemplateCreate == Form(DOMAIN TemplateRow, DOMAIN TemplateRow, NoDefault)
TemplateFromCreate == NoDefault
TemplateUpdate == Form(DOMAIN TemplateRow, DOMAIN TemplateRow, NoDefault)
TemplateApplyUpdate == DOMAIN TemplateRow
TemplatePatch == {}
TemplateResponse == DOMAIN TemplateRow
TemplateRules ==
  [name |-> {"required", "max"}, subject |-> {"required", "max"}, body |-> {"required"}]

-----------------------------------------------------------------------------
(* RecruitmentStage                                                        *)

StageRow ==
  [name |-> Column("text"), sequence |-> Column("number"), is_hired |-> Column("flag"),
   folded |-> Column("flag"), description |-> Option("text")]
StageNew == {"name", "sequence", "is_hired", "folded"}
StageSetters == {"description"}
StageApplyPatch == DOMAIN StageRow
StageProtected == {}
StageBuilder ==
  Form(DOMAIN StageRow, {"name"},
       [sequence |-> "ten", is_hired |-> "false", folded |-> "false"])
StageCreate_SequenceZero ==
  Form(DOMAIN StageRow, {"name"},
       [sequence |-> "zero", is_hired |-> "false", folded |-> "false"])
StageCreate ==
  Form(DOMAIN StageRow, {"name"},
       [sequence |-> "ten", is_hired |-> "false", folded |-> "false"])
StageFromCreate == NoDefault
StageUpdate ==
  Form(DOMAIN StageRow, {"name", "sequence", "is_hired", "folded"}, NoDefault)
StageApplyUpdate == DOMAIN StageRow
StagePatch == {"description"}
StageResponse == DOMAIN StageRow
StageRules ==
  [name |-> {"required", "max"}, sequence |-> {"min"}, description |-> {"max"}]

-----------------------------------------------------------------------------
(* RequisitionSkill                                                        *)

SkillRow ==
  [requisition_id |-> Column("choice"), skill_id |-> Column("choice"),
   required_proficiency |-> Column("choice")]
SkillNew == DOMAIN SkillRow
SkillApplyPatch == DOMAIN SkillRow
SkillProtected == {}
SkillBuilder == Form(DOMAIN SkillRow, DOMAIN SkillRow, NoDefault)
SkillCreate == Form(DOMAIN SkillRow, DOMAIN SkillRow, NoDefault)
SkillFromCreate == NoDefault
SkillUpdate == Form(DOMAIN SkillRow, DOMAIN SkillRow, NoDefault)
SkillApplyUpdate == DOMAIN SkillRow
SkillPatch == {}
SkillResponse == DOMAIN SkillRow
SkillRules == [requisition_id |-> {"required"}, skill_id |-> {"required"}]

-----------------------------------------------------------------------------
(* What the hand-written SQL of the verbs puts in, past the services: the  *)
(* values a column may get from an INSERT (NULL where it is not named), and *)
(* from an UPDATE.                                                         *)

CandidateVerbs ==
  [insert |-> [first_name |-> {"some text", "too long"},
               last_name |-> {"some text", "too long", "null"},
               email |-> {"some text", "too long"},
               phone |-> {"some text", "too long", "null"}],
   update |-> NoDefault, delete |-> FALSE]

InterviewVerbs ==
  [insert |-> [c \in {"application_id", "interviewer_id", "scheduled_at", "round",
                      "interview_format", "status"} |->
                 IF c = "status" THEN {"first"} ELSE Values(InterviewRow[c])],
   update |-> [status |-> {"moved"}, rating |-> Values(InterviewRow.rating),
               feedback |-> Values(InterviewRow.feedback)],
   delete |-> FALSE]

ApplicationVerbs ==
  [insert |-> [c \in {"candidate_id", "requisition_id", "stage_id", "stage_updated_at",
                      "applied_at"} |->
                 IF ApplicationRow[c].kind = "time" THEN {"now"}
                                                    ELSE Values(ApplicationRow[c])],
   update |-> [stage_id |-> Values(ApplicationRow.stage_id),
               last_stage_id |-> Values(ApplicationRow.stage_id),
               stage_updated_at |-> {"now"}, date_closed |-> {"now", "null"},
               refuse_reason |-> Values(ApplicationRow.refuse_reason),
               refused_at |-> {"now"}],
   delete |-> FALSE]

OfferVerbs ==
  [insert |-> [c \in {"application_id", "proposed_salary", "employment_type",
                      "letter_template_id", "status"} |->
                 IF c = "status" THEN {"first"} ELSE Values(OfferRow[c])],
   update |-> [approval_request_id |-> Values(Column("choice")), status |-> {"moved"},
               offered_at |-> {"now"}, accepted_at |-> {"now"},
               start_date |-> Values(OfferRow.start_date)],
   delete |-> TRUE]

RequisitionVerbs ==
  [insert |-> NoDefault,
   update |-> [status |-> {"moved"}, approval_request_id |-> Values(Column("choice")),
               filled_headcount |-> Values(RequisitionRow.filled_headcount)],
   delete |-> FALSE]

SkillVerbs ==
  [insert |-> [c \in DOMAIN SkillRow |-> Values(SkillRow[c])],
   update |-> NoDefault, delete |-> TRUE]

NoVerbs == [insert |-> NoDefault, update |-> NoDefault, delete |-> FALSE]
=============================================================================
