---------------------------- MODULE MCLifecycle ----------------------------
(* A server that is refreshed a few times and closed at any moment.        *)
EXTENDS Lifecycle
=============================================================================
