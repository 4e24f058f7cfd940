------------------------------ MODULE MCTasks ------------------------------
(* Tasks.tla on a small instance. *)
EXTENDS Tasks
=============================================================================
