---------------------------- MODULE PublicApply -----------------------------
(***************************************************************************)
(* JobApplicationWriteService::public_apply: find or create the candidate  *)
(* by email in one transaction, then create the application in a second    *)
(* one, next to the generic writes that candidates keep.  Nothing in the   *)
(* database keeps two candidates from carrying the same email: the unique  *)
(* index went with the tenancy columns.                                    *)
(***************************************************************************)
EXTENDS Naturals, FiniteSets

CONSTANTS
  Candidate,   \* ids of candidates
  Application, \* ids of job applications
  Address,     \* email addresses as typed
  Norm,        \* trim().to_lowercase() of each of them
  Lower,       \* lower() of each of them, as the database has it
  Tx,          \* requests in progress
  None         \* no candidate, no application, no job

ASSUME AddressAssumption ==
  /\ Norm \in [Address -> Address] /\ Lower \in [Address -> Address]
  /\ \A e \in Address : Lower[Norm[e]] = Norm[e]
  /\ None \notin Candidate \cup Address
  /\ IsFiniteSet(Candidate) /\ IsFiniteSet(Tx)

VARIABLES
  row,         \* candidates: "filed" in the table or its trash, or "purged"
  email,       \* the address of each one filed, if it has one
  applied,     \* job_applications rows: the candidate of each one inserted
  admits,      \* whether the requisition is open and has an opening
  pc, job, answer,
  mintedAs,    \* history: the address each filed candidate was minted for
  readdressed  \* history: requests whose candidate has got another address

rows    == <<row, email, applied>>
history == <<mintedAs, readdressed>>
vars == <<rows, admits, pc, job, answer, history>>

Job == [address: Address, who: Candidate \cup {None}]

TypeOK ==
  /\ row \in [Candidate -> {"none", "filed", "purged"}]
  /\ email \in [Candidate -> Address \cup {None}]
  /\ applied \in [Application -> Candidate \cup {None}]
  /\ admits \in BOOLEAN
  /\ pc \in [Tx -> {"idle", "lookup", "mint", "check", "apply"}]
  /\ job \in [Tx -> Job \cup {None}]
  /\ answer \in [Tx -> {"none", "created", "not_found", "refused", "internal_error"}]
  /\ mintedAs \in [Candidate -> Address \cup {None}]
  /\ readdressed \subseteq Tx

Init ==
  /\ row = [c \in Candidate |-> "none"]
  /\ email = [c \in Candidate |-> None]
  /\ applied = [a \in Application |-> None]
  /\ admits = TRUE
  /\ pc = [t \in Tx |-> "idle"]
  /\ job = [t \in Tx |-> None]
  /\ answer = [t \in Tx |-> "none"]
  /\ mintedAs = [c \in Candidate |-> None]
  /\ readdressed = {}

Goto(t, step) == pc' = [pc EXCEPT ![t] = step]

Finish(t, ans) ==
  /\ Goto(t, "idle")
  /\ job' = [job EXCEPT ![t] = None]
  /\ answer' = [answer EXCEPT ![t] = ans]
  /\ readdressed' = readdressed \ {t}

Start(t, e) ==
  /\ pc[t] = "idle"
  /\ Goto(t, "lookup")
  /\ job' = [job EXCEPT ![t] = [address |-> Norm[e], who |-> None]]
  /\ answer' = [answer EXCEPT ![t] = "none"]
  /\ UNCHANGED <<rows, admits, history>>

(* WHERE lower(email) = $1 LIMIT 1: an address with blanks around it, and  *)
(* a candidate without any, match nobody's.                                *)
Known_CaseSensitive(e) == {c \in Candidate : row[c] = "filed" /\ email[c] = e}

Known(e) ==
  {c \in Candidate : row[c] = "filed" /\ email[c] # None /\ Lower[email[c]] = e}

LookUp(t) ==
  /\ pc[t] = "lookup"
  /\ \/ /\ Known(job[t].address) = {}
        /\ Goto(t, "mint")
        /\ UNCHANGED job
     \/ \E c \in Known(job[t].address) :
          /\ job' = [job EXCEPT ![t].who = c]
          /\ Goto(t, "check")
  /\ UNCHANGED <<rows, admits, answer, history>>

(* INSERT of the candidate under a fresh id, and COMMIT.                   *)
Mint(t, c) ==
  /\ pc[t] = "mint"
  /\ row[c] = "none"
  /\ row' = [row EXCEPT ![c] = "filed"]
  /\ email' = [email EXCEPT ![c] = job[t].address]
  /\ mintedAs' = [mintedAs EXCEPT ![c] = job[t].address]
  /\ job' = [job EXCEPT ![t].who = c]
  /\ Goto(t, "check")
  /\ UNCHANGED <<applied, admits, answer, readdressed>>

(* create_application: unlocked reads, then the INSERT.                    *)
Check_Unasked(t) ==
  /\ pc[t] = "check"
  /\ Goto(t, "apply")
  /\ UNCHANGED <<rows, admits, job, answer, history>>

Check(t) ==
  /\ pc[t] = "check"
  /\ \/ /\ row[job[t].who] # "filed"
        /\ Finish(t, "not_found")
     \/ /\ row[job[t].who] = "filed"
        /\ admits
        /\ Goto(t, "apply")
        /\ UNCHANGED <<job, answer, readdressed>>
     \/ /\ row[job[t].who] = "filed"
        /\ ~admits
        /\ Finish(t, "refused")
  /\ UNCHANGED <<rows, admits, mintedAs>>

Apply_ForAnyone(t, a) ==
  /\ pc[t] = "apply"
  /\ applied[a] = None
  /\ \E c \in Candidate : row[c] = "filed" /\ applied' = [applied EXCEPT ![a] = c]
  /\ Finish(t, "created")
  /\ UNCHANGED <<row, email, admits, mintedAs>>

Apply(t, a) ==
  /\ pc[t] = "apply"
  /\ row[job[t].who] = "filed"
  /\ applied[a] = None
  /\ applied' = [applied EXCEPT ![a] = job[t].who]
  /\ Finish(t, "created")
  /\ UNCHANGED <<row, email, admits, mintedAs>>

(* The request or its connection dies, or the foreign key refuses the      *)
(* application of a purged candidate; one that was minted stays.           *)
Crash(t) ==
  /\ pc[t] # "idle"
  /\ Finish(t, "internal_error")
  /\ UNCHANGED <<rows, admits, mintedAs>>

-----------------------------------------------------------------------------
(* The generic surface: POST, PUT, PATCH and the purge of candidates.  The *)
(* trash is left out, since no statement of public_apply looks at it.      *)

Enter(c, e) ==
  /\ row[c] = "none"
  /\ row' = [row EXCEPT ![c] = "filed"]
  /\ email' = [email EXCEPT ![c] = e]
  /\ UNCHANGED <<applied, admits, pc, job, answer, history>>

WorksOn(c) == {t \in Tx : pc[t] \in {"check", "apply"} /\ job[t].who = c}

Edit(c, e) ==
  /\ row[c] = "filed"
  /\ email[c] # e
  /\ email' = [email EXCEPT ![c] = e]
  /\ readdressed' = readdressed \cup WorksOn(c)
  /\ UNCHANGED <<row, applied, admits, pc, job, answer, mintedAs>>

(* The foreign key keeps a candidate that has applied.                     *)
Purge(c) ==
  /\ row[c] = "filed"
  /\ \A a \in Application : applied[a] # c
  /\ row' = [row EXCEPT ![c] = "purged"]
  /\ email' = [email EXCEPT ![c] = None]
  /\ mintedAs' = [mintedAs EXCEPT ![c] = None]
  /\ UNCHANGED <<applied, admits, pc, job, answer, readdressed>>

(* The requisition opens, closes, fills up or gets a seat back.            *)
Flip ==
  /\ admits' = ~admits
  /\ UNCHANGED <<rows, pc, job, answer, history>>

Next ==
  \/ \E t \in Tx, e \in Address : Start(t, e)
  \/ \E t \in Tx : LookUp(t) \/ Check(t) \/ Crash(t)
  \/ \E t \in Tx, c \in Candidate : Mint(t, c)
  \/ \E t \in Tx, a \in Application : Apply(t, a)
  \/ \E c \in Candidate, e \in Address \cup {None} : Enter(c, e) \/ Edit(c, e)
  \/ \E c \in Candidate : Purge(c)
  \/ Flip

Spec == Init /\ [][Next]_vars

-----------------------------------------------------------------------------
(* Properties.                                                             *)

(* An application answered as created belongs to the person who applied:   *)
(* however requests and clerks race, it is of the candidate that answers   *)
(* to the address given, or did until a clerk gave it another one while    *)
(* the request was on its way.                                             *)
AppliedForOneself ==
  [][\A a \in Application : applied[a] # applied'[a] =>
       \E t \in Tx, c \in Candidate :
         /\ pc[t] = "apply" /\ answer'[t] = "created"
         /\ applied'[a] = c /\ row[c] = "filed"
         /\ \/ email[c] # None /\ Lower[email[c]] = job[t].address
            \/ t \in readdressed]_vars

(* The check and the INSERT are two statements with no lock between them,  *)
(* so that an application may be made after its requisition closed or      *)
(* filled up; but each of those spends a check that was passed before:     *)
(* while the requisition admits nobody, the applications made and the      *)
(* requests let through are together no more than they were.               *)
Made       == {a \in Application : applied[a] # None}
LetThrough == {t \in Tx : pc[t] = "apply"}
NobodyComesAfterClosing ==
  [][~admits => Cardinality(Made') + Cardinality(LetThrough')
                  <= Cardinality(Made) + Cardinality(LetThrough)]_vars

(* "A re-apply finds the person, never mints a second row", in what the    *)
(* code can keep of it: while somebody is on file under an address,        *)
(* whoever entered them, however it is capitalised and however many others *)
(* share it, the candidates minted for it and the requests still about to  *)
(* mint one are together no more than they were.  A second row comes of    *)
(* requests that found nobody, of a clerk, or of blanks that a clerk typed *)
(* around the address, and of nothing else.                                *)
OnFile(e) ==
  {c \in Candidate : row[c] = "filed" /\ email[c] # None /\ Lower[email[c]] = e}
Minted(e)  == {c \in Candidate : mintedAs[c] = e}
Minters(e) == {t \in Tx : pc[t] = "mint" /\ job[t].address = e}
MintsNeedOverlap ==
  [][\A e \in Address : OnFile(e) # {} =>
       Cardinality(Minted(e)') + Cardinality(Minters(e)')
         <= Cardinality(Minted(e)) + Cardinality(Minters(e))]_vars
=============================================================================
