---------------------------- MODULE MCReentrancy ----------------------------
(* Reentrancy.tla on a small instance. *)
EXTENDS Reentrancy
=============================================================================
