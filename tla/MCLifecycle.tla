------------------------------ MODULE MCLifecycle ------------------------------
(* One pod, for TLC. *)
EXTENDS Lifecycle
=============================================================================
