---------------------- MODULE MCRequisitionLifecycle -----------------------
(***************************************************************************)
(* Instances of RequisitionLifecycle for TLC.                              *)
(***************************************************************************)
EXTENDS RequisitionLifecycle, TLC

Symmetry == Permutations(Req) \cup Permutations(Tx) \cup Permutations(Request)

(* Nothing reads an answer once it is given: states that differ in answers *)
(* only are one.                                                           *)
View == <<rowVars, engineVars, byHand, lock, pc, job>>
=============================================================================
