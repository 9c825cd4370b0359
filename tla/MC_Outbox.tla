------------------------------ MODULE MC_Outbox ------------------------------
(* Instances of the outbox: the configurations say which events and requests. *)
EXTENDS Outbox
=============================================================================
