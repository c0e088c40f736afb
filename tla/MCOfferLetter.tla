--------------------------- MODULE MCOfferLetter ----------------------------
(***************************************************************************)
(* An instance of OfferLetter for TLC: a first name that holds braces,     *)
(* wordings with blanks, bars and braces in them.                          *)
(***************************************************************************)
EXTENDS OfferLetter

LetterSymbols == Character \cup {"{{", "}}", "|", " "} \cup
  {"candidate_first_name", "position_title", "proposed_salary", "start_date", "note",
   "Staff", "27", "September", "Hi", "as agreed", "either", "or"}

BracedName  == <<"{{", "position_title", "}}">>
StaffTitle  == <<"Staff">>
AgreedDate  == <<"27", " ", "September">>

PlainTexts  == {<<"Hi">>, <<" ">>}
UsedNames   == {"candidate_first_name", "proposed_salary", "start_date", "note"}
Wordings    == {<<>>, <<"as agreed">>, <<"either", "|", "or">>,
                <<" ", "{{", "start_date", " ">>}

RaisedFrom  == {0, 7, 10, 999, 1000, 12345, 100000, 999999, 12000000, 2000000000}
=============================================================================
