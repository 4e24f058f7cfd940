------------------------------- MODULE MCFork -------------------------------
(* Fork.tla on a small instance. *)
EXTENDS Fork
=============================================================================
