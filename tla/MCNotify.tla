------------------------------ MODULE MCNotify ------------------------------
(* Notify.tla on a small instance. *)
EXTENDS Notify
=============================================================================
