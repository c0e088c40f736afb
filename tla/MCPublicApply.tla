--------------------------- MODULE MCPublicApply ----------------------------
(***************************************************************************)
(* Instances of PublicApply for TLC.                                       *)
(***************************************************************************)
EXTENDS PublicApply, TLC

CONSTANTS ada, adaCapital, adaBlank, bob

(* Two people, one of whom is also typed with a capital letter, or with a  *)
(* blank behind the address.                                               *)
Addresses == {ada, adaCapital, adaBlank, bob}
LowerCase == [e \in Addresses |-> IF e = adaCapital THEN ada ELSE e]
Normal    == [e \in Addresses |-> IF e = bob THEN bob ELSE ada]

Symmetry == Permutations(Candidate) \cup Permutations(Application)
              \cup Permutations(Tx)

(* The last answers decide nothing.                                        *)
View == <<rows, admits, pc, job, history>>
=============================================================================
