----------------------------- MODULE MCSession -----------------------------
(* One coaps Send against a server with two goroutines.                    *)
EXTENDS Session
=============================================================================
