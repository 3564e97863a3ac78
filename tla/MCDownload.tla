----------------------------- MODULE MCDownload -----------------------------
(* Download on small instances. *)
EXTENDS Download
=============================================================================
