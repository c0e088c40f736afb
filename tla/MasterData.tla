----------------------------- MODULE MasterData -----------------------------
(***************************************************************************)
(* The stage engine next to the generic writes that requisitions and       *)
(* stages keep as "master data".  A full update of a requisition carries   *)
(* every column but the status, the vacancy counter included, as the clerk *)
(* loaded it; a full update of a stage may flip its is_hired flag.  The    *)
(* row rules look at one row and refuse only negative counts.              *)
(***************************************************************************)
EXTENDS StageEngine

CONSTANTS
  Clerk,        \* users with a requisition form open
  MaxHeadcount, \* the largest headcount a clerk types (bounds the model)
  NoForm        \* the form of a clerk who loaded none

VARIABLE form   \* what each clerk loaded: a requisition's counters

masterVars == <<vars, form>>

MasterInit == Init /\ form = [c \in Clerk |-> NoForm]

LoadForm(c, r) ==
  /\ form' = [form EXCEPT ![c] =
                [req |-> r, headcount |-> headcount[r], filled |-> filled[r]]]
  /\ UNCHANGED vars

(* The row rules of a generic update.                                      *)
RowRules(row) == row.headcount >= 0 /\ row.filled >= 0

(* The UPDATE of the whole row waits for its lock, and looks at nothing.   *)
SaveForm(c, h) ==
  LET row == [form[c] EXCEPT !.headcount = h] IN
  /\ form[c] # NoForm
  /\ RowRules(row)
  /\ lock[row.req] = Free
  /\ headcount' = [headcount EXCEPT ![row.req] = row.headcount]
  /\ filled' = [filled EXCEPT ![row.req] = row.filled]
  /\ form' = [form EXCEPT ![c] = NoForm]
  /\ UNCHANGED <<status, appVars, hired, lock, txVars>>

(* Nothing looks at the applications that sit in the stage.                *)
FlipStage(s) ==
  /\ hired' = IF s \in hired THEN hired \ {s} ELSE hired \cup {s}
  /\ UNCHANGED <<reqVars, appVars, lock, txVars, form>>

Forms ==
  \E c \in Clerk : \/ \E r \in Req : LoadForm(c, r)
                   \/ \E h \in 0..MaxHeadcount : SaveForm(c, h)
Flips == \E s \in Stage : FlipStage(s)
Engine == Next /\ UNCHANGED form

MasterSpec == MasterInit /\ [][Engine \/ Forms \/ Flips]_masterVars

-----------------------------------------------------------------------------
(* "filled_headcount moves only in the stage engine", and "no path can     *)
(* sidestep the vacancy coupling": SeatsCounted, which Spec keeps, would   *)
(* have to hold of MasterSpec as well.                                     *)
=============================================================================
