-------------------------- MODULE MCInterviewDesk ---------------------------
(***************************************************************************)
(* Instances of InterviewDesk for TLC.                                     *)
(***************************************************************************)
EXTENDS InterviewDesk, TLC

Symmetry == Permutations(Interview) \cup Permutations(App) \cup Permutations(Tx)
=============================================================================
