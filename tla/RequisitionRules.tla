-------------------------- MODULE RequisitionRules --------------------------
(***************************************************************************)
(* The rules every write service shares about a job requisition: how many  *)
(* openings it has left, whether the next step for a candidate may be      *)
(* admitted, and between which statuses the lifecycle verbs move it.       *)
(*                                                                         *)
(* A definition X_Slip, here and in the modules that extend this one, is a *)
(* wrong version of the X below it that no behaviour uses: it is there to  *)
(* show which property would catch that slip in the code.                  *)
(***************************************************************************)
EXTENDS Integers

(* Openings left; zero or less means full (headcount may have been lowered *)
(* below the filled count).                                                *)
OpeningsLeft_OffByOne(headcountOf, filledOf) == headcountOf - filledOf + 1

OpeningsLeft(headcountOf, filledOf) == headcountOf - filledOf

(* Admission of the next step: an application that already sits in a hired *)
(* stage is one of the filled openings and is never turned away.           *)
RequireOpening(openings, holdsOpening) == holdsOpening \/ openings > 0

Statuses == {"draft", "open", "on_hold", "closed", "cancelled"}

LifecycleVerbs == {"hold", "resume", "close", "cancel"}

(* The statuses a verb accepts, and the status it leads to.                *)
VerbFrom_Reopens == [hold   |-> {"open"},
                     resume |-> {"on_hold", "closed"},
                     close  |-> {"open", "on_hold"},
                     cancel |-> {"draft", "open", "on_hold"}]

VerbFrom == [hold   |-> {"open"},
             resume |-> {"on_hold"},
             close  |-> {"open", "on_hold"},
             cancel |-> {"draft", "open", "on_hold"}]

VerbTo == [hold |-> "on_hold", resume |-> "open",
           close |-> "closed", cancel |-> "cancelled"]
=============================================================================
