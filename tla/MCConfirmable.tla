--------------------------- MODULE MCConfirmable ---------------------------
(* Confirmable on small instances.                                         *)
EXTENDS Confirmable
=============================================================================
