------------------------- MODULE MCOfferLifecycle --------------------------
(***************************************************************************)
(* Instances of OfferLifecycle for TLC.                                    *)
(***************************************************************************)
EXTENDS OfferLifecycle, TLC

(* One requisition with one opening, contested by every application.       *)
OneSeatEach == [r \in Req |-> 1]
SameRequisition == [a \in App |-> CHOOSE r \in Req : TRUE]

Symmetry == Permutations(Tx) \cup Permutations(Offer)
=============================================================================
