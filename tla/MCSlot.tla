------------------------------- MODULE MCSlot -------------------------------
(* Slot.tla on a small instance. *)
EXTENDS Slot
=============================================================================
