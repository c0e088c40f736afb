----------------------------- MODULE OfferLetter -----------------------------
(***************************************************************************)
(* The letter of an offer: letter_vars, render and format_salary_idr       *)
(* together, as extend and preview_letter use them.  The behaviours walk   *)
(* through the inputs: a template is written piece by piece, as its author *)
(* does, and the amount of an offer is raised one thousandth at a time.    *)
(***************************************************************************)
EXTENDS SalaryFormat, LetterRender

CONSTANTS
  FirstName, Title, StartDate,   \* facts as they are written
  Texts, Names, Fallbacks,       \* what the pieces of a template are made of
  Starts,      \* whole rupiah from which the amounts are raised
  MaxPieces    \* the longest template written (bounds the model)

ASSUME LetterAssumption == Starts \subseteq Nat /\ MaxPieces \in Nat
ASSUME FactAssumption   == Character \subseteq Symbol /\ {FirstName, Title, StartDate} \subseteq Seq(Symbol)

(* Text between tokens opens none, a name is a word, and no wording closes *)
(* the token that it stands in.                                            *)
ASSUME PieceAssumption ==
  /\ Texts \subseteq Seq(Symbol \ {"{{"})
  /\ Names \subseteq Symbol \ {"{{", "}}", "|", " "}
  /\ Fallbacks \subseteq Seq(Symbol \ {"}}"})

VARIABLES
  template,       \* the pieces of the template
  salaried,       \* whether the offer names a salary
  rupiah, mills,  \* the salary: rupiah and thousandths of one
  dated           \* whether the first day is agreed

vars == <<template, salaried, rupiah, mills, dated>>

(* letter_vars: facts that are not known are omitted.                      *)
LetterVars ==
  LET facts   == [candidate_first_name |-> FirstName,
                  position_title       |-> Title,
                  proposed_salary      |-> FormatSalaryIdr(rupiah, mills),
                  start_date           |-> StartDate]
      unknown == (IF salaried THEN {} ELSE {"proposed_salary"})
                   \cup (IF dated THEN {} ELSE {"start_date"})
  IN [name \in DOMAIN facts \ unknown |-> facts[name]]

(* render takes null variables too, next to the ones letter_vars makes.    *)
Letter(text) ==
  Render([name \in DOMAIN LetterVars \cup {"note"} |->
            IF name = "note" THEN Null ELSE LetterVars[name]], text)

-----------------------------------------------------------------------------
(* Templates as their authors write them.                                  *)

Piece == [text: Texts] \cup [name: Names, padded: BOOLEAN]
           \cup [name: Names, padded: BOOLEAN, fallback: Fallbacks]

IsText(p) == "text" \in DOMAIN p

Source(p) ==
  IF IsText(p) THEN p.text
  ELSE LET pad == IF p.padded THEN <<" ">> ELSE <<>>
           tail == IF "fallback" \in DOMAIN p
                     THEN <<"|">> \o pad \o p.fallback ELSE <<>>
       IN <<"{{">> \o pad \o <<p.name>> \o pad \o tail \o pad \o <<"}}">>

Written == FlattenSeq([i \in DOMAIN template |-> Source(template[i])])

Init ==
  /\ template = <<>>
  /\ salaried \in BOOLEAN
  /\ rupiah \in Starts
  /\ mills = 0
  /\ dated \in BOOLEAN

Write ==
  /\ mills = 0
  /\ Len(template) < MaxPieces
  /\ \E p \in Piece : template' = Append(template, p)
  /\ UNCHANGED <<salaried, rupiah, mills, dated>>

Raise ==
  /\ template = <<>>
  /\ mills < 999
  /\ mills' = mills + 1
  /\ UNCHANGED <<template, salaried, rupiah, dated>>

Next == Write \/ Raise

Spec == Init /\ [][Next]_vars

-----------------------------------------------------------------------------
(* Properties.                                                             *)

(* "Dots for thousands": the grouping loop of format_salary_idr, which     *)
(* counts digits from the left, agrees with the definition by hand, which  *)
(* takes thousands off the right.                                          *)
GroupedByThousands ==
  WholePart(FormatSalaryIdr(rupiah, mills)) = ByHand[rupiah]

(* A salary in whole cents reads back as the amount that was offered: the  *)
(* rupiah before the comma, two digits of cents behind it.                 *)
ReadsBackInCents ==
  LET text == FormatSalaryIdr(rupiah, mills) IN
  mills % 10 = 0 =>
    /\ NumberIn[WholePart(text)] = rupiah
    /\ NumberIn[CentsPart(text)] = mills \div 10
    /\ Len(CentsPart(text)) \in {0, 2}

(* What a piece is meant to come out as.  A known fact wins over wording,  *)
(* an absent or null one takes the wording (blanks around it go), a null   *)
(* one without wording is nothing, and an unknown one stays to be seen.    *)
Meaning(p) ==
  IF IsText(p) THEN p.text
  ELSE IF p.name \in DOMAIN LetterVars THEN LetterVars[p.name]
  ELSE IF "fallback" \in DOMAIN p THEN Trim(p.fallback)
  ELSE IF p.name = "note" THEN <<>>
  ELSE <<"{{", p.name, "}}">>

(* Every token is recognised, padded or not, wherever it stands; the text  *)
(* between tokens is kept, a value that holds braces is not rendered       *)
(* again, and a fact nobody gave is never invented: scanning the whole     *)
(* letter is rendering it piece by piece.                                  *)
RendersPieceByPiece ==
  Letter(Written) = FlattenSeq([i \in DOMAIN template |-> Meaning(template[i])])

(* An unterminated token at the end keeps the literal text from there on   *)
(* and costs nothing of the letter before it, wherever its author stopped. *)
UnterminatedIsLiteral ==
  LET letter == Letter(Written) IN
  \A wording \in Fallbacks :
    LET open == <<"{{">> \o wording IN Letter(Written \o open) = letter \o open

-----------------------------------------------------------------------------
(* What the documentation says and the code does not keep.                 *)

(* "dots for thousands, a comma for cents", "pad to two digits": whatever  *)
(* stands behind the comma is a number of cents.                           *)
CommaForCents ==
  Len(CentsPart(FormatSalaryIdr(rupiah, mills))) \in {0, 2}
=============================================================================
