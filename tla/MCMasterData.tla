---------------------------- MODULE MCMasterData ----------------------------
(***************************************************************************)
(* Instances of MasterData for TLC.                                        *)
(***************************************************************************)
EXTENDS MasterData, TLC

OneSeatEach == [r \in Req |-> 1]

Symmetry == Permutations(App) \cup Permutations(Tx)
=============================================================================
