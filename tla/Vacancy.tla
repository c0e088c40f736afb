------------------------------ MODULE Vacancy ------------------------------
(***************************************************************************)
(* What the stage engine promises about the seats of a requisition, with   *)
(* no transactions, locks or counters: an application takes a seat only    *)
(* while one is left, gives it back when it leaves the hired stages or is  *)
(* refused, and a refused application never holds or takes a seat again.   *)
(***************************************************************************)
EXTENDS Integers, FiniteSets

CONSTANTS App, Req, Seats

VARIABLES
  holders,   \* the applications seated on each requisition
  barred     \* the refused applications

vars == <<holders, barred>>

Init ==
  /\ holders = [r \in Req |-> {}]
  /\ barred = {}

TakeSeat(a, r) ==
  /\ a \notin barred
  /\ \A q \in Req : a \notin holders[q]
  /\ Cardinality(holders[r]) < Seats[r]
  /\ holders' = [holders EXCEPT ![r] = @ \cup {a}]
  /\ UNCHANGED barred

GiveBackSeat(a, r) ==
  /\ a \in holders[r]
  /\ holders' = [holders EXCEPT ![r] = @ \ {a}]
  /\ UNCHANGED barred

Bar(a) ==
  /\ a \notin barred
  /\ holders' = [r \in Req |-> holders[r] \ {a}]
  /\ barred' = barred \cup {a}

Next ==
  \E a \in App :
    \/ Bar(a)
    \/ \E r \in Req : TakeSeat(a, r) \/ GiveBackSeat(a, r)

Spec == Init /\ [][Next]_vars
=============================================================================
