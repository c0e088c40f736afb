# Verification of backbone-recruitment

TLA+ models of the recruitment module's write services, the TLC runs that
check them, and TLAPS proofs about all of them. Paths below are relative to
the repository root (`src/application/service/...` and so on).

## 1. What the system is

Recruitment is a Rust module on PostgreSQL. A requisition (a vacancy with a
headcount) is approved and opened; candidates apply to it; their applications move
through configured stages, some of them flagged `is_hired`; offers are drafted,
approved, extended with a letter, and accepted by a hire that stages a
`recruitment.hired` event for the employee module. Most of the code is generated
CRUD, the same for each of eight tables. The logic is in seven hand-written files,
which get a module each; the generated write path is one module for all tables.

| Component | Code | State it keeps | Operations |
|---|---|---|---|
| requisition rules | `requisition_vacancy.rs`, `requisition_status.rs` | none | `openings_left`, `require_opening`, the status machine |
| stage engine | `job_application_write_service.rs` | `job_applications`, `job_requisitions.filled_headcount` | `create_application`, `move_stage`, `refuse`, `pipeline` |
| public apply | `job_application_write_service.rs` | `candidates` | `public_apply` |
| offer lifecycle | `job_offer_write_service.rs`, `letter_port.rs` | `job_offers`, the outbox | `create_draft`, `extend`, `hire`, `decline`, `withdraw`, `preview_letter`, `set_approvals` |
| requisition lifecycle | `requisition_lifecycle.rs` | `job_requisitions.status`, `.approval_request_id` | `file_open`, `confirm_open`, `hold`, `resume`, `close`, `cancel`, `set_approvals` |
| approvals port | `recruitment_approvals_port.rs` | none (an engine behind it does) | `file_requisition`, `file_offer`, `status`, `is_wired` |
| interview desk | `interview_write_service.rs`, `activity_port.rs` | `interviews` | `schedule`, `complete`, `cancel` |
| requisition skills | `requisition_skill_write_service.rs` | `requisition_skills` | `set_skills`, `list_skills` |
| offer letters | `offer_letter_render.rs` | none | `render`, `format_salary_idr`, `format_date_long` |
| hire handoff | `job_offer_write_service.rs` (the staged row); the relay and the consumer are other crates | the outbox row, the consumer's inbox and its employees | stage, deliver, mark published |
| generated CRUD services, handlers, DTOs, entities | `*_service.rs`, `*_handler.rs`, `*_dto.rs`, `domain/entity/*.rs` | all eight tables | create, full update, patch, soft delete, restore, purge; the CHECKs of the row-rule migration |
| master data writes | the same of requisitions and stages | the rows the stage engine reads | full update, soft delete, restore |
| guarded routes | `guarded_routes.rs` | none | which of the above a client can reach |

How they interact. Nothing calls anything else in process, except that
`public_apply` ends in `create_application`: the components meet in the database.
The stage engine writes the counter that offers and applications are admitted by;
the offer verbs read applications, stages and requisitions that others change; the
lifecycle verbs lock the requisition row the stage engine locks; a generic update
writes whole rows over all of them. Three ports lead out: the approvals engine
(asked inside a transaction by `confirm_open` and between statements by `extend`),
the letter sink and the activity sink (called after the commit). The outbox row
leads to another module through a relay.

What is hard. Every request is a READ COMMITTED transaction, so what one statement
read may be gone at the next; a locking SELECT takes its snapshot before it waits;
some guards are read under a lock and some are not; the ports are called between
two commits, where a crash leaves one of them done; forms carry whole rows loaded
minutes ago; and money is written out by hand. `PROJECT.json` lists every such place with
its line under `hazards`.

What makes each part correct:

- stage engine: the stored counter equals the number of seated applications;
  nobody is seated past the headcount; a refused application never moves; no
  deadlock, and every request is answered;
- public apply: while a person is on file, nobody more sets out to mint them a second row; an
  application lands on whoever applied; nobody starts to apply after the closing;
- offers: extended only on approval, accepted exactly once with exactly one
  event, settled offers stay settled, none gets under way for an application that is refused,
  shut out or not hired, letters go out at most once and are never silently lost;
- requisitions: opened only while they link an approved request, which is their own as far as the
  verbs link it; final statuses are final, a deleted one stands still;
- interviews and skills: history does not change; a refusal ends the scheduling; no
  notification is silently lost; a skill list is the one somebody asked for;
- hire handoff: one employee for each accepted offer, however often its event is
  delivered;
- generic rows: no request brings in a value that breaks a row rule, a state moves by
  verbs only, and the many lists of a table's columns agree;
- letters: what is written reads back as what was meant.

## 2. Modules

`X_Slip` definitions (`Finish_KeepsLock`, `OpeningsLeft_OffByOne`, ...) are wrong
versions of the definition below them that no behaviour uses. Each shows that the
property it is paired with in `PROJECT.json` (`mutants`) notices that slip.

**RequisitionRules** has the operators every write service shares: `OpeningsLeft`,
`RequireOpening`, and the status machine as the functions `VerbFrom` and `VerbTo`.

**Vacancy** is the abstract promise of the stage engine: applications take seats
while there are some, give them back, and are barred for good. It knows nothing of
transactions, locks, stages or counters.

**StageEngine** has one action per statement that can be interleaved. A verb starts with
the statement snapshot (`StartMove`, `StartRefuse`), takes the locks of
`FOR UPDATE OF a, r` in that order (`LockFirst`, `LockSecond`), re-checks the join on
the rows it locked (`Recheck`), and decides: `RowVanished`, `AlreadyRefused`,
`MoveNowhere`, `MoveIntoHired`, `MoveWhenFull`, `MoveOutOfHired`, `MoveSideways`,
`RefuseOngoing`, `RefuseHired`. The updates of a transaction are seen by nobody
before its commit, so they and the commit are one action. `StartCreate` stands for
the unlocked reads of `create_application`, `InsertApplication` for its INSERT,
which waits for the requisition row because its foreign key takes a key-share
lock. `Abort` loses the connection at any step. `MoveStatus` and `ConfirmOpen` are the
requisition's own verbs, reduced to what they do to a row.
The row variables are named after the columns (`filled` is `filled_headcount`,
`closed` says that `date_closed` is set, `refused` that `refused_at` is).

**OfferLifecycle** puts the offer verbs on top of `Vacancy`, which the stage engine
is proved to implement: an offer verb can only notice of the pipeline what has been
committed, so the abstract pipeline (`EnterHired`, `LeaveHired`, `Refuse`) is enough and
keeps the state small. `create_draft` is `StartDraft`, `InsertDraft`, then
`FileOffer`, `FileUnwired`, `StampLink` or `UndoDraft`; `extend` is `StartExtend`,
`AskVerdict`, `Snapshot`, then `ExtendRefused` or `ExtendOffer`, then `SendLetter` or
`SendFails`; `hire` is `StartHire` and `CommitHire`. `Crash` ends a request at any step;
`halfDone` remembers which offers it left half-made, so that the properties can say
exactly what a crash costs. `Decide` is the engine, `SetApprovals` the wiring of the
approvals; `lettersWired` is settled at construction, and `templated` holds the offers
created with a letter template. `Offered` holds the applications that get offers: the others contend with them
for the openings.

**HireHandoff** extends OfferLifecycle with what becomes of the staged event: `Consume` is a
delivery to the employee module, whose inbox remembers the event's id in the transaction
that makes the employee, and `MarkPublished` is the relay's own note that comes after
it, in another transaction. A relay that dies in between delivers again; events of different
offers are delivered in any order. Both are external: other crates own them, and the contract is the one
that `hire` states and `tests/hire_flow.rs` exercises.

**ApprovedHire** is the abstract promise of the two: an offer moves along the edges of its life, is extended once it
was approved, gets one letter at most and none before its extension, and becomes one employee at most, once it is accepted. It
knows no requests, locks, links, templates, events or deliveries. `KeepsHiringPromise` maps to `approved` the offers that were
filed and whose verdict is "approved"; a crash, a letter that fails, a second delivery or a publication mark is a stutter of it.

**RequisitionLifecycle** has `file_open` as `StartFile`, `FileRequest`, `StampLink`: the lock is
let go in between. `confirm_open` is `StartConfirm`, `AskVerdict` or `NotGranted`, `OpenRow`:
the lock is held. The generic surface is `Create`, `Update`, `SoftDelete` and `Restore`. A POST, PUT or PATCH
may put any request of the engine into `approval_request_id`, one filed for another requisition or for an offer (`FileElsewhere`)
included, and none; the status it cannot touch. `byHand` is a history variable: the requisitions whose link a generic
write brought. A requisition purged from the trash is to every verb one that stays deleted.

**EntityTables** is data: for each of the eight tables the columns of the entity's struct, and the
columns named by its constructor, setters, builder, patch, protected list, POST, PUT and PATCH
bodies, the conversions between them, the response and the row rules. A column's values are a few
samples of its type ("blank", "too long", "negative", a null where it takes one).

**GenericRows** runs one column of one row through that data: all of the generated write path works
column by column, a refusal apart. `Post` is a create; a PUT or a PATCH is `StartPut` or
`StartPatch`, which reads the row and judges the request, and `Store`, which writes later and without a
lock what the request made of the old row; `Delete`, `Restore` and `PurgeTrash` are the trash. `VerbInsert`, `VerbUpdate` and
`VerbDelete` are the hand-written verbs reduced to what their SQL may put into the column, and `AddCheck` is
the migration that turns a rule into a CHECK where no stored row breaks it. `surface` is
one of the three sets of routes a deployment may mount. The service that reads, judges and
stores is a library: it is external, modelled by how the generated code calls it.

**ApprovedOpening** is the abstract promise of those verbs: a requisition opens while the request it links is approved, or
directly while it links none and no engine is wired, moves along the edges that requisition_lifecycle.rs:18-24 draws, and stands still while
deleted. Anybody may change a link at any time. It knows no filings, locks or verbs in progress: the verdict is looked up and the row opened in one step.
`KeepsOpeningPromise` maps to it the requests whose verdict is "approved", and "may be opened
directly" to "no engine is wired, or a `confirm_open` that found none is about to open its draft".

**MasterData** extends StageEngine with clerks who load and save requisition forms
(`filled_headcount` included) and with `FlipStage`, which flips a stage's `is_hired`. It has
no property of its own: it shows which of the stage engine's it breaks, and section 4 which it cannot.

**PublicApply** has two transactions per request: `LookUp` and `Mint` on the candidates, then
`Check` and `Apply` on the applications. `Norm` is what the request does to the address it was given (trim, lower case) and `Lower` what
the SQL does to a stored one (lower case only). `Enter`, `Edit` and `Purge` are the generic writes of candidates, which may
give one any address or none at any time; the trash is left out, since no statement of `public_apply` looks at it. Whether the requisition admits anybody is a
Boolean that may change at any time (`Flip`). `mintedAs` and `readdressed` are history variables: what each candidate was minted for, and
the requests whose candidate a clerk has given another address meanwhile.

**InterviewDesk** has `schedule` as `StartSchedule`, `InsertInterview`, `Notify` or `NotifyFails`, and
`complete` and `cancel` as compare-and-set actions, next to refusals. `wired` says
whether the service was built with an activity sink.

**RequisitionSkills** has `set_skills` as `StartSet` (which locks the requisition), `CheckLine` for
each line, `DeleteLines`, which dooms the lines committed at that moment, and
`InsertLines`, which commits.

**SalaryFormat** and **LetterRender** hold the two pure functions of the letters as operators over texts, which are
sequences of symbols, and **OfferLetter** puts them together with `letter_vars`. Its behaviours walk through the
inputs: `Write` adds a piece to the template as an author would, `Raise` adds a
thousandth to the salary. Each function is compared with a definition written another
way: thousands taken off the right by hand, and a letter rendered piece by piece. The facts of the letter, the texts between tokens, the
names and the wordings behind bars are constants. What is assumed of them is what makes a piece one piece: text between tokens opens none, a name
holds no mark, no wording holds closing braces. Braces inside a fact, bars and opening braces inside a wording, and blanks anywhere are allowed.

**MC*** modules give the constants of each specification values and symmetry.
The ***Proofs** modules hold the proofs (section 4).

### What PostgreSQL is taken to do

The models assume READ COMMITTED as documented: a statement sees what was committed
when it began; `FOR UPDATE OF a, r` locks a, then r; a statement that waited re-checks
its join against the newest versions of the rows it locked, and against its old
snapshot for the rows it did not lock; a foreign key takes a key-share lock on the row it
refers to; a lost connection rolls its transaction back. These definitions are marked
external in the map, as are the engine behind the approvals port and the crash of a process.

## 3. Runs

With two TLC workers the longest run takes a little over a minute.

| Run | Bounds | What it shows |
|---|---|---|
| `stage_engine` | 2 applications, 1 requisition with 1 opening, 3 stages (2 hired), 2 transactions | the inductive invariant `IInv`, the counter, no over-fill, closing marks, sticky refusals, correct turning away, no lock cycle, refinement of `Vacancy` |
| `stage_engine_live` | the same with 2 stages, no symmetry | `EveryRequestAnswered` under fairness |
| `master_data` | 2 applications, 2 stages, 1 transaction, 1 clerk, headcount up to 2 | violation: generic writes break the counter |
| `offer_handoff` | 2 applications that contend for 1 opening, one of them with an offer, 2 requests, template and sink or not, an event delivered at least once | refinement of `ApprovedHire`; one event per acceptance and one employee per event, every accepted offer an employee in the end, approval before extension, one letter, no half-made draft, nothing silently unsent, final states, offers follow their applications |
| `offer_letter_retry` | 1 application with 1 offer, 1 request, a patient client | violation: a failed letter is never sent again |
| `requisition_lifecycle` | 2 requisitions, 2 engine requests (either may be for an offer), 2 verbs, any link in a body | refinement of `ApprovedOpening` (that deleted rows stand still is part of it); opened only while linking an approved request, another's only if a body brought it; final statuses |
| `public_apply` | 2 candidates, 2 applications, 2 people and 4 spellings (a capital, a blank), 2 requests | once somebody is on file no request joins those about to mint them again; no misattributed application; once closed, only those let through before still come |
| `interview_desk` | 1 application, 2 interviews, 2 requests, sink or none | history stands; nothing silently unnotified; after a refusal only the schedules under way still come |
| `requisition_skills` | 1 requisition, 2 skills, 2 levels, 2 requests | a consistent list; frozen requirements |
| `generic_rows` | every column of the 8 tables, on each of the 3 surfaces, 2 requests under way | no broken value brought in, states moved by verbs, the column lists agree |
| `offer_letter` | templates of up to 2 pieces out of 42 (wordings with blanks, bars and opening braces in them, a first name in braces); 10 whole amounts at the changes of length, 1000 thousandths each | rendering is piecewise, and an open token behind the letter stays; grouping and cents |
| `offer_letter_cents` | 1 whole amount, 1000 thousandths | violation: three digits of cents |

Why the bounds are enough. A hazard of the stage engine needs two actors on the same
application or the same last opening; two transactions, two applications and one
opening give every such contest, and two hired stages next to one that is not give
every kind of move (in, out, sideways, between hired stages). The theorems lift
the same properties to all sizes. An offer's life is decided by its own row, the state
of its application and one verdict; two requests give the races, and a second application with the same single opening
gives every way of losing the seat: taken before the draft, before the snapshot of `extend` or behind it. Two candidates are what two
overlapping first applications make of one address, or a clerk and one request. Two requisitions and two engine requests
allow a filing to be replaced, an older link to come back, and the approval of the one to be linked by the other. Two pieces let every token stand before and after every
other; scanning keeps nothing but the rest of the text. A generic request races another by the row it read, so two of them, with
the verbs and the migration next to them, give every stale write; the columns are enumerated completely. One offer is
enough for the handoff because an inbox entry belongs to one event. Where a counter could grow for ever it
cannot here: events, letters and headcounts are bounded by the offers and by `MaxHeadcount`. Two kinds of reduction are used. Symmetry is over ids that no
definition tells apart. A VIEW merges states that no later step and no property tells apart: it leaves out the last answers (`offer_handoff`, `requisition_lifecycle`,
`public_apply`), which no guard reads and no invariant mentions, and in `offer_handoff` what a request saw of the pipeline where it will look again before it
decides, the stage a contending application was refused in, and whether an ended requisition was closed or cancelled. Action
properties are evaluated on every step, so the one that reads an answer sees the answers given.

Deadlock checking is off in every run: the system is a server that may have nothing left to
do (all offers settled, all ids used up, a purged row gone for good). Waiting for each other is checked by name
(`NoLockCycle`) and as liveness.

Fairness. `FairSpec` asks for strong fairness of the steps of each transaction that has begun,
because PostgreSQL queues the waiters of a row lock: one that could be
granted its lock again and again is granted it. Nothing is asked of the clients: no request
has to be made. `HandoffSpec` asks for weak fairness of the delivery of each staged event: the
relay polls the outbox for rows without a publication mark and tries them again until they have one. No fairness is
asked of the hires themselves, so `AcceptedBecomesEmployee` holds because the event commits with the acceptance. `PatientSpec`, used for one violation only, adds a client that keeps
extending the offer, which is the most a send-only retry could ask for; even so the letter is
never sent: `FailedLettersAreResent` fails under the strongest assumption about it.

## 4. Proofs

Every theorem holds for any number of the things its module counts, from the assumptions on the constants
that the modules name: that the "nothing" value is no id, that there is an application, that what is counted
is finite. Each module follows one plan. An invariant `IInv` adds to the checked ones what makes them
inductive; one lemma per action keeps it; the properties follow. `PROJECT.json` lists the theorems.

### The stage engine

`StageEngineProofs` proves:

- of the engine in any configuration: `EngineConsistent` (its invariant `EngineInv`), `NoDeadlock`, `RefusalIsSticky`;
- of the engine while clerks save stale requisition forms and flip `is_hired` (`MasterSpec`): `NoDeadlockWhileEdited`,
  `RefusalStickyWhileEdited`;
- of the engine whose entry stage is not a hired one (`EntryNotHired`): `Invariance` (`IInv`), `CounterIsRight`,
  `NeverOverfilled`, `ClosedIsDerived`, `TurnedAwayRightly`, and the refinement `ImplementsVacancy`.

The invariant has two layers, since the code does not check its configuration. `EngineInv` owes
nothing to it: a deciding transaction holds the locks of both its rows (`LocksHeld`), so what it read of them is still true
(`ReadsCurrent`), its arguments are those of an application that exists (`ArgumentsKnown`), no two inserts in flight share an id
(`InsertsFresh`), and what is refused is closed (`RefusedAreClosed`). That is enough for the lock order: in a group
of transactions, one that holds or waits for a requisition row waits for nothing held by one that still waits
for an application row. It is also enough for the refusal, which is read from the locked row itself. Generic writes keep `EngineInv` too, as each waits for the
lock of the requisition it overwrites (`UnlockedWriteKeeps`); beyond the assumptions of the module these two theorems ask only `MaxHeadcount \in Nat`. So run `master_data` shows
that the generic writes break the count, and the theorems what they cannot break.

`SeatsCounted` needs the second layer, `IInv`: nobody changes the flags or the headcounts (`ConfigurationFixed`), so the flags a transaction decides on are
those of the stages it joined (`FlagsCurrent`), and applying seats nobody (`EntryNotHired`). Without the last the first application already breaks
`SeatsCounted` (set `Entry` to a hired stage in `StageEngine.cfg` to see it). Only commits write rows of applications or counters
(`OnlyCommitsWrite`); each has a lemma that says what it does to the seats, and those that move one use `SeatGained` and `SeatLost`, which say what adding or
removing one application does to the cardinality of the seated ones. The refinement maps the seated applications and the refused ones to
`holders` and `barred` and uses `IInv` to show that every seat taken was free.

### The other modules

- **Offers and the handoff** (`OfferLifecycleProofs`): `OneEvent`, `OnlyApproved`, `OneLetter`, `Filed`, `NothingUnsent`, `OneEmployee`, `SettledOffers`.
  `IInv` says what a request knows between two statements and why nobody else can undo it: a draft that is being filed is
  filed by one request alone and cannot be extended (`FilersAlone`); an approval seen by `extend` stays (`ExtendersKnow`); one request
  at most is about to send a letter, and only it extended the offer (`SendersAlone`); between the check of `hire` and its commit the row
  is locked (`HirersLock`). `HandoffKeepsOffers` shows that relay and consumer take no step the offers could see, so
  all of this carries over; `ClaimsAreEmployees` ties the inbox to the employees.
- **The offers and what is around them** (the same module): `ImplementsHiring` is the refinement of `ApprovedHire`, from the draft to the
  employee. `IInv` does not suffice: a letter in flight must be known to belong to an approved offer (`SendersApproved`), since the abstract
  letter goes out for one only, and a request to the engine to be about a row that exists (`FiledRows`), since the abstract approval is. `OffersMove`
  finds the edge of each step that changes an offer; `EngineMoved` and `ApprovedStays` show that no step takes an approval
  back. `OffersFollow` is the action property `OffersFollowTheirApplications`; it needs that a request works with the application its offer was drafted for
  (`SameApplication`), so that the snapshot it took is one of the right row. `OffersRelated` is the invariant of both. `PipelineIsVacancy` closes the gap
  to the stage engine: the pipeline around the offers takes only steps of `Vacancy`, which `ImplementsVacancy` shows the stage engine to implement.
- **Requisitions** (`RequisitionLifecycleProofs`): `OnlyOnApproval`, `SettledStays`, `DeletedStays`, with generic writes that put any request into any link.
  A `confirm_open` that waits for the engine knows the link it read, because it holds the row (`ConfirmersKnow`), and a link that no body brought was filed for the
  requisition that has it (`LinksAreFiled`), which says the same of a request about to be stamped.
  `ImplementsOpening` is the refinement of `ApprovedOpening`; it needs in addition that a verb works on a requisition that exists (`FilersRead`).
  `DeletedStays`, that no verb moves a deleted requisition, is proved by itself; the run shows it through the refinement.
- **Skills** (`RequisitionSkillsProofs`): `ConsistentLists`, `FrozenRequirements`. A request in progress holds the row lock, so the lines it dooms are
  all the lines, and the status it read is the status (`HoldersKnow`).
- **Interviews** (`InterviewDeskProofs`): `NothingUnnotified`, `HistoryStays`, `RefusalStops`. The insert of a schedule is for an id that nobody else works on (`InsertsFresh`).
  `RefusalStops` counts an interview from its check on, not from its insert: of a refused application the set of interviews that are there or coming never grows.
- **Public apply** (`PublicApplyProofs`): `NoNewMinters`, `OwnApplications`, `NobodyAfterClosing`. While somebody is on file under an address, `LookUp` sends no request
  on to mint for it, and each mint spends the request that was on its way: candidates minted and requests minting are together no more than before. `OwnApplications` needs
  that a request past the candidate works on one that answers to its address, unless a clerk has readdressed it or purged it since (`JobsKnow`).
  `NobodyAfterClosing` compares cardinalities: each application that is made spends the request that was let through for it, and while nobody is admitted
  nobody is let through. There may be infinitely many applications, so the invariant includes that those made are finitely many (`FinitelyMade`).
- **Generic rows** (`GenericRowsProofs`): `BrokenInherited`, `LifecycleByVerbs`, `RowsTyped`, `AllFormsAgree`. A request was let through with
  a value that obeys the rules or with the one it had read, which was then inherited (`JobsJudged`). These proofs treat the tables as opaque, except for the
  lemma that finds the state column protected in each table that has one. The last two theorems are about the tables themselves. `FittingColumn` says that every
  default, every value of a verb and every rule fits the type of its column, `ListedColumn` that every list names the column as it should; one lemma per
  table finds both for each of its columns (`TablesRegular`), and the theorems use nothing else of the data. A column added to
  `EntityTables` costs one case of one lemma.

### The letters

`OfferLetterProofs` proves `DotsForThousands`, `CentsReadBack`, `CommaForCentsBelow`, `LettersPieceByPiece` and `OpenTokensStay`, for every salary
and for templates of any length over any symbols. These are inductions over data. The library's induction and recursion theorems take operators
as parameters, which the provers cannot instantiate, so the module states its own for sets and functions: `LeastNumber`, from the
well-foundedness of `<`; `MeasureInduction`, that what passes from the smaller members of a set to each larger one is true of all; `RecursionExists`, that a
function which goes on from its value at a smaller member exists. A recursive function of the model is a CHOOSE over such functions, and
`RecursionExists` is what shows that it obeys its own equation (`DigitsUnfold`, `ByHandUnfold`, `NumbersRead`, `FlattenExists`, `RenderUnfold`).

Texts are handled by what they are put together from (`Nil`, `One`, `Cat`) and where a symbol first stands in them (`FindAt`, `Around`), never by indices.

- The amounts. A number of four digits or more is its thousands and its last three digits (`LastThree`); the loop that counts digits from the left puts the same
  dots into both (`GroupedBig`), so the two ways of grouping agree by induction over the amount (`GroupedIsByHand`). What is written reads back
  because digits read as digits and dots as nothing (`ByHandReads`); the cents lie between 0 and 100, and are 100 from .995 on (`CentsInRange`).
- The rendering. A text is literal, or it is what stands ahead of its first token, the token, and the rest (`TokenSplit`); `RenderUnfold` says what becomes of each.
  From it follow `TextKept` (text that opens no token is kept, and what follows is rendered on its own) and `TokenReplaced`.
  Trimming is the delicate part: the code trims the token, then its name, then the front of its wording, and `TrimBetween` shows that this trims the wording
  on both sides. `PieceRendered` puts this together for one piece, and `TemplateRendered` is the induction over the pieces.

### What is only model-checked

- `EveryRequestAnswered` and `AcceptedBecomesEmployee`: liveness under fairness is outside the prover's reach.
- The three disagreements of section 5, which are counterexamples.

Every other property of a passing run is stated by a theorem.

## 5. Where the code and its documentation differ

Three differences are runs that TLC finds violated; `PROJECT.json` quotes the lines.

1. `master_data`: guarded_routes.rs:650 gives stages and requisitions generic writes because they have "no
   cross-entity invariants". A stage's `is_hired` flag decides how many openings are filled, and a stale
   requisition form writes an older `filled_headcount` back.
2. `offer_letter_retry`: a letter whose delivery failed cannot be sent again by any verb.
3. `offer_letter_cents`: a salary with a fraction of .995 or more is written with three digits of cents. `CommaForCentsBelow` proves that
   nothing else goes wrong: every other amount has no cents or two digits of them.

The models have further behaviours that the words of the code do not lead one to expect. They are
listed for the reader; no run is kept for them.

- A move that waited for another move of the same application finds no joined row, and answers that its existing
  target stage was not found (job_application_write_service.rs:357-374); `refuse` answers application_not_found.
- An entry stage flagged `is_hired` seats applicants without counting them (278).
- After a stale form has put the counter to zero, refusing a hired application trips over the counter's CHECK (489).
- A person gets a second candidate row, although job_application_write_service.rs:152-153 says that one "never exists twice" and 184-185 that a re-apply
  "never mints a second row": when two first applications overlap, when a clerk enters one, and when the stored address has a blank around it, since
  187 lower-cases it without trimming. A candidate without an application, left by a request that was refused or died behind 214, is found again.
  migrations/20260909120000_strip_tenancy.up.sql:69
  drops the unique index and leaves uniqueness to the composing service's decorator, which may put one back. `MintsNeedOverlap` says what remains true.
- A wired port lets a draft open on an approval of something else, although requisition_lifecycle.rs:14-15 says that it never lets an unfiled one open:
  a POST, PUT or PATCH may name any approved request (job_requisition_dto.rs:46, 83, 123), and `confirm_open` asks for its verdict only (223-231). What the verbs link
  is the requisition's own (`OpenedOnlyOnApproval`).
- `hire` goes ahead for an application refused in its hired stage, and may commit for one that leaves that stage in between, and `extend` for a seat that has just
  been taken (job_offer_write_service.rs:848, 617). `OffersFollowTheirApplications` says what remains true: this happens to requests
  under way only.
- Without an approvals engine no offer can be extended, although 426 says the direct verb remains.
- A stale requisition form wipes the approval link, and the filed draft is then answered "approval_not_filed"
  (job_requisition_dto.rs:325, requisition_lifecycle.rs:219).
- An interview may be inserted for an application refused meanwhile, or one already hired (interview_write_service.rs:121-132);
  `RefusalStopsScheduling` says which. An application may likewise be made after its requisition closed (`NobodyComesAfterClosing`).
- An unknown token loses the blanks inside its braces (offer_letter_render.rs:55).

## 6. What is not modelled, and why

- Of the generated CRUD: bulk writes and upserts, which judge and store each row the same way; listing, filtering and pagination, which
  only read; foreign keys and unique indexes, which refuse a write that the model lets happen; the content of the generic events. Accessors, ORM
  hints, `exports`, repositories and domain event aliases have no behaviour of their own.
- Rules that relate two columns of a row: there are none in the row rules, so one column at a time loses nothing but that a refusal for one column
  drops the whole request, which is `GiveUp`.
- What the event says of the person (`hired_event_payload`), and what the employee module does with it beyond making the employee once.
- Composition (`lib.rs`, `lib.ext.rs`) and the request pool: services are built once and share a connection pool. The seeders: fixtures for an empty database.
- In MasterData a generic update is sent by a client that loaded the row and edits what clerks edit (here the headcount);
  the other columns come back as they were loaded. RequisitionLifecycle, PublicApply and GenericRows let a client send anything.
- The trash of candidates, and the purge of requisitions as a row of its own: see the modules.
- Tenancy: the org scope bound to a transaction and row-level security filter rows; each model is of one tenant.
- Request decoding, HTTP status codes, the wording of messages, and "not found" answers for ids that never existed.
- `preview_letter`, `pipeline` and `list_skills` beyond the derived status: they only read.
- `format_date_long`: a table of months.
- Unlocked reads of `create_application` are one step: only the requisition's status and counters can change between them and the INSERT.

## 7. Plan

Done, in this order: RequisitionRules, Vacancy, StageEngine and its proofs, OfferLifecycle, RequisitionLifecycle,
MasterData, PublicApply, InterviewDesk, RequisitionSkills, SalaryFormat, LetterRender, OfferLetter; EntityTables and GenericRows; HireHandoff;
the proofs about offers and handoff, requisitions, skills, interviews, applying and generic rows; ApprovedOpening and ApprovedHire with their refinements;
the action properties of the unlocked checks (offers, interviews, applying), the types and lists of the generic rows, and the letters as theorems.

What could follow:

- A stage engine whose configuration is edited only while nobody is seated: the discipline under which `SeatsCounted` survives generic writes.
