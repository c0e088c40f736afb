--------------------------- MODULE MCGenericRows ---------------------------
(***************************************************************************)
(* An instance of GenericRows for TLC: every column of every table, on     *)
(* every surface, with two requests under way.                             *)
(***************************************************************************)
EXTENDS GenericRows, TLC

Symmetry == Permutations(Tx)
=============================================================================
