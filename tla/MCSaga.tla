------------------------------- MODULE MCSaga -------------------------------
(* Small instances of Saga for TLC. *)
EXTENDS Saga
=============================================================================
