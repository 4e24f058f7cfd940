---------------------------- MODULE MCSocketPair ----------------------------
(* SocketPair.tla on a small instance. *)
EXTENDS SocketPair
=============================================================================
