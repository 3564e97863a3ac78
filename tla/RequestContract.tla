--------------------------- MODULE RequestContract ---------------------------
(***************************************************************************)
(* What a confirmable request promises its caller, whatever the network    *)
(* does: the resource handler only ever sees the whole payload, a success  *)
(* is reported only after the handler ran, a "not found" only if it never  *)
(* runs, and an answer is final.                                           *)
(***************************************************************************)
EXTENDS Sequences

CONSTANT Payload     \* the payload the caller sent

VARIABLES runs,      \* what the resource handler was called with
          outcome    \* what Client.Send returned

ContractTypeOK ==
    /\ runs \in Seq({Payload})
    /\ outcome \in {"pending", "ok", "notFound", "error"}

ContractInit ==
    /\ runs = <<>>
    /\ outcome = "pending"

Handle ==
    /\ outcome # "notFound"
    /\ runs' = Append(runs, Payload)
    /\ UNCHANGED outcome

Succeed ==
    /\ outcome = "pending"
    /\ runs # <<>>
    /\ outcome' = "ok"
    /\ UNCHANGED runs

Refuse ==
    /\ outcome = "pending"
    /\ runs = <<>>
    /\ outcome' = "notFound"
    /\ UNCHANGED runs

Fail ==
    /\ outcome = "pending"
    /\ outcome' = "error"
    /\ UNCHANGED runs

ContractNext == Handle \/ Succeed \/ Refuse \/ Fail

ContractSpec == ContractInit /\ [][ContractNext]_<<runs, outcome>>
=============================================================================
