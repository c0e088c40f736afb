---------------------------- MODULE ApprovedHire ----------------------------
(***************************************************************************)
(* What the offer verbs and the hand-off promise, with no requests, locks, *)
(* links, templates, events or deliveries: an offer is extended once it    *)
(* has been approved, and goes on along the edges of its life; it gets one *)
(* letter at most, and none before it was extended; and one employee is    *)
(* made of it at most, once it has been accepted.  An approval is for an   *)
(* offer that was drafted, and is never taken back.                        *)
(***************************************************************************)
EXTENDS Naturals

CONSTANT Offer

VARIABLES
  offer,      \* the state of each offer
  approved,   \* the offers that somebody's request was approved for
  letters,    \* letters that went out, per offer
  employees   \* employees made of each offer

vars == <<offer, approved, letters, employees>>

Edges ==
  {<<"none", "draft">>, <<"draft", "extended">>, <<"extended", "accepted">>,
   <<"extended", "declined">>, <<"draft", "withdrawn">>, <<"extended", "withdrawn">>,
   <<"draft", "deleted">>, <<"withdrawn", "deleted">>}

Init ==
  /\ offer = [o \in Offer |-> "none"]
  /\ approved = {}
  /\ letters = [o \in Offer |-> 0]
  /\ employees = [o \in Offer |-> 0]

Advance(o) ==
  /\ \E to \in {"draft", "extended", "accepted", "declined", "withdrawn", "deleted"} :
       /\ <<offer[o], to>> \in Edges
       /\ to = "extended" => o \in approved
       /\ offer' = [offer EXCEPT ![o] = to]
  /\ UNCHANGED <<approved, letters, employees>>

Approve(o) ==
  /\ offer[o] # "none"
  /\ approved' = approved \cup {o}
  /\ UNCHANGED <<offer, letters, employees>>

SendLetter(o) ==
  /\ offer[o] \notin {"none", "draft", "deleted"}
  /\ o \in approved
  /\ letters[o] = 0
  /\ letters' = [letters EXCEPT ![o] = 1]
  /\ UNCHANGED <<offer, approved, employees>>

Employ(o) ==
  /\ offer[o] = "accepted"
  /\ employees[o] = 0
  /\ employees' = [employees EXCEPT ![o] = 1]
  /\ UNCHANGED <<offer, approved, letters>>

Next == \E o \in Offer : Advance(o) \/ Approve(o) \/ SendLetter(o) \/ Employ(o)

Spec == Init /\ [][Next]_vars
=============================================================================
