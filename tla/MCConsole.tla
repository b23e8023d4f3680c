------------------------------ MODULE MCConsole ------------------------------
(* Console for TLC: the machine in the editor has an address and a key the *)
(* operator trusted.                                                       *)
EXTENDS Console

CONSTANTS h1, k1
MCMachine == [host |-> h1, key |-> k1]
=============================================================================
