---------------------------- MODULE MCDispatch ----------------------------
(* Model values and symmetry for checking Dispatch. *)
EXTENDS Dispatch, TLC

Symmetry == Permutations(Machines) \cup Permutations(Keys)
=============================================================================
