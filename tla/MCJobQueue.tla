---------------------------- MODULE MCJobQueue ----------------------------
(* Model values and symmetry for checking JobQueue.  Machines and keys are *)
(* only compared with each other, so both sets are symmetric.              *)
EXTENDS JobQueue, TLC

Symmetry == Permutations(Machines) \cup Permutations(Keys)
=============================================================================
