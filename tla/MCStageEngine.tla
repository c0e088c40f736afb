--------------------------- MODULE MCStageEngine ---------------------------
(***************************************************************************)
(* Instances of StageEngine for TLC.                                       *)
(***************************************************************************)
EXTENDS StageEngine, TLC

(* One opening each: with two applications every contest for a seat shows. *)
OneSeatEach == [r \in Req |-> 1]

Symmetry == Permutations(App) \cup Permutations(Tx)
=============================================================================
