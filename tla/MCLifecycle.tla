---------------------------- MODULE MCLifecycle ----------------------------
(* One processor from its start to its end, two results under way at most. *)
EXTENDS Lifecycle
============================================================================
