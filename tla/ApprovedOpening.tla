-------------------------- MODULE ApprovedOpening ---------------------------
(***************************************************************************)
(* What the requisition verbs promise, with no filings, locks or verbs in  *)
(* progress: a requisition opens, in one step, while the request it links  *)
(* is approved, or while it links none and no approvals engine is wired,   *)
(* goes on along the edges of its life and stands still while it is        *)
(* deleted.  An approval is never taken back, and an engine never          *)
(* unwired.  Which request a requisition links is anybody's to say.        *)
(***************************************************************************)

CONSTANTS
  Req,       \* ids of job requisitions
  Request,   \* requests to the approvals engine
  None       \* no request

VARIABLES
  created,   \* the requisitions there are
  deleted,   \* those in the trash
  status,    \* of each requisition
  link,      \* the request that each one links
  approved,  \* the requests that were approved
  direct     \* a draft may still be opened without an approval

vars == <<created, deleted, status, link, approved, direct>>

Edges ==
  {<<"open", "on_hold">>, <<"on_hold", "open">>,
   <<"open", "closed">>, <<"on_hold", "closed">>,
   <<"draft", "cancelled">>, <<"open", "cancelled">>, <<"on_hold", "cancelled">>}

Init ==
  /\ created = {} /\ deleted = {} /\ approved = {}
  /\ status = [r \in Req |-> "draft"]
  /\ link = [r \in Req |-> None]
  /\ direct = TRUE

Create(r, q) ==
  /\ created' = created \cup {r}
  /\ link' = [link EXCEPT ![r] = q]
  /\ UNCHANGED <<deleted, status, approved, direct>>

Link(r, q) ==
  /\ r \in created
  /\ link' = [link EXCEPT ![r] = q]
  /\ UNCHANGED <<created, deleted, status, approved, direct>>

SetStatus(r, to) ==
  /\ r \in created \ deleted
  /\ status' = [status EXCEPT ![r] = to]
  /\ UNCHANGED <<created, deleted, link, approved>>

(* The last draft to be opened directly may end it for all of them.        *)
Open(r) ==
  /\ status[r] = "draft"
  /\ link[r] \in approved \/ (link[r] = None /\ direct)
  /\ SetStatus(r, "open")
  /\ direct' \in {direct, FALSE}

Advance(r) ==
  /\ \E to \in {"open", "on_hold", "closed", "cancelled"} :
       <<status[r], to>> \in Edges /\ SetStatus(r, to)
  /\ UNCHANGED direct

Approve(q) ==
  /\ approved' = approved \cup {q}
  /\ UNCHANGED <<created, deleted, status, link, direct>>

Wire ==
  /\ direct' = FALSE
  /\ UNCHANGED <<created, deleted, status, link, approved>>

Delete(r) ==
  /\ r \in created
  /\ deleted' = deleted \cup {r}
  /\ UNCHANGED <<created, status, link, approved, direct>>

Restore(r) ==
  /\ deleted' = deleted \ {r}
  /\ UNCHANGED <<created, status, link, approved, direct>>

Next ==
  \/ Wire
  \/ \E r \in Req : Open(r) \/ Advance(r) \/ Delete(r) \/ Restore(r)
  \/ \E r \in Req, q \in Request \cup {None} : Create(r, q) \/ Link(r, q)
  \/ \E q \in Request : Approve(q)

Spec == Init /\ [][Next]_vars
=============================================================================
