---------------------------- MODULE HireHandoff -----------------------------
(***************************************************************************)
(* From an accepted offer to an employee.  hire() stages recruitment.hired *)
(* in the transaction that accepts the offer; a relay hands every staged   *)
(* row to the employee module's consumer and marks it published after the  *)
(* consumer acknowledged it.  Relay and consumer live in other crates:     *)
(* they are modelled from the contract that hire() relies on and that      *)
(* tests/hire_flow.rs exercises.  Delivery is at least once: a relay that  *)
(* dies before the mark, or a consumer that fails, leaves the row to be    *)
(* handed over again, with the row's own id as the id of the message.      *)
(***************************************************************************)
EXTENDS OfferLifecycle

VARIABLES
  published,    \* staged rows the relay has marked, per offer
  inbox,        \* rows the consumer has claimed, per offer
  employees     \* employees made of each offer

relayVars   == <<published, inbox, employees>>
handoffVars == <<vars, relayVars>>

HandoffTypeOK ==
  /\ TypeOK
  /\ published \in [Offer -> Nat]
  /\ inbox \in [Offer -> Nat]
  /\ employees \in [Offer -> Nat]

HandoffInit ==
  /\ Init
  /\ published = [o \in Offer |-> 0]
  /\ inbox = [o \in Offer |-> 0]
  /\ employees = [o \in Offer |-> 0]

(* The consumer's own transaction: it claims the id of the message in its  *)
(* inbox and makes the employee, or it does neither.  A row claimed before *)
(* is acknowledged without a second employee.                              *)
Consume(o) ==
  /\ published[o] < events[o]
  /\ inbox[o] < events[o]
  /\ inbox' = [inbox EXCEPT ![o] = @ + 1]
  /\ employees' = [employees EXCEPT ![o] = @ + 1]
  /\ UNCHANGED <<vars, published>>

(* The relay marks a row only after the consumer acknowledged it.          *)
MarkPublished(o) ==
  /\ published[o] < inbox[o]
  /\ published' = [published EXCEPT ![o] = @ + 1]
  /\ UNCHANGED <<vars, inbox, employees>>

HandoffNext ==
  \/ Next /\ UNCHANGED relayVars
  \/ \E o \in Offer : Consume(o) \/ MarkPublished(o)

(* The relay is run again and again, and a consumer that failed is asked   *)
(* again: a staged row is consumed in the end.                             *)
HandoffSpec ==
  /\ HandoffInit
  /\ [][HandoffNext]_handoffVars
  /\ \A o \in Offer : WF_handoffVars(Consume(o))

-----------------------------------------------------------------------------
(* Properties.                                                             *)

(* An employee is made once, and only of an offer that is and stays        *)
(* accepted after the approvals engine approved it, whatever is delivered  *)
(* twice, and whatever becomes of the application meanwhile; and no row is *)
(* marked published before its employee exists.                            *)
EmployeesComeFromAcceptedOffers ==
  \A o \in Offer :
    /\ employees[o] <= 1
    /\ employees[o] = 1 => state[o] = "accepted" /\ verdict[o] = "approved"
    /\ published[o] <= employees[o]

(* The whole way from the draft to the employee keeps the promise of       *)
(* ApprovedHire, step by step, whatever races, crashes or is delivered     *)
(* twice on the way.                                                       *)
Promise == INSTANCE ApprovedHire
             WITH offer <- state,
                  approved <- {o \in filed : verdict[o] = "approved"}
KeepsHiringPromise == Promise!Spec

(* Every accepted offer becomes an employee: the acceptance and the row    *)
(* commit together, so that no crash of the hiring request comes between.  *)
AcceptedBecomesEmployee ==
  \A o \in Offer : state[o] = "accepted" ~> employees[o] = 1
=============================================================================
