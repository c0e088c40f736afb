------------------------ MODULE MCRequisitionSkills ------------------------
(***************************************************************************)
(* Instances of RequisitionSkills for TLC.                                 *)
(***************************************************************************)
EXTENDS RequisitionSkills, TLC

Symmetry == Permutations(Skill) \cup Permutations(Level) \cup Permutations(Tx)
=============================================================================
