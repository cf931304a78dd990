------------------------------ MODULE MCLifecycle ------------------------------
(* A small instance of Lifecycle: its constants are in the configuration. *)
EXTENDS Lifecycle
=================================================================================
