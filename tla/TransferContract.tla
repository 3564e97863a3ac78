-------------------------- MODULE TransferContract --------------------------
(***************************************************************************)
(* What a blockwise transfer promises its two ends, whatever the network   *)
(* does: the receiver returns the whole payload or an error, the whole     *)
(* payload only once all of it was sent; the sender reports success only   *)
(* after the receiver has it; and what an end returned is final.           *)
(***************************************************************************)
CONSTANT Payload     \* the blocks of the payload

VARIABLES sent,      \* the blocks put on the wire so far
          sender,    \* what the sender's call returned
          receiver,  \* what the receiver's call returned
          body       \* the payload the receiver's call returned

TransferTypeOK ==
    /\ sent \in SUBSET Payload
    /\ sender \in {"pending", "ok", "error"}
    /\ receiver \in {"pending", "ok", "error"}
    /\ body \in SUBSET Payload

TransferInit ==
    /\ sent = {}
    /\ sender = "pending"
    /\ receiver = "pending"
    /\ body = {}

(* The sender sends more blocks, again or for the first time, and may give *)
(* up on them.                                                             *)
Transmit ==
    /\ sender = "pending"
    /\ sent' \in SUBSET Payload
    /\ sent \in SUBSET sent'
    /\ sender' \in {"pending", "error"}

Succeed ==
    /\ sender = "pending"
    /\ receiver = "ok"
    /\ sender' = "ok"
    /\ UNCHANGED sent

Receive ==
    /\ receiver = "pending"
    /\ sent = Payload
    /\ receiver' = "ok"
    /\ body' = Payload

GiveUp ==
    /\ receiver = "pending"
    /\ receiver' = "error"
    /\ UNCHANGED body

(* The two ends time out independently, at the same moment perhaps.        *)
TransferNext ==
    \/ (Transmit \/ Succeed) /\ UNCHANGED <<receiver, body>>
    \/ (Receive \/ GiveUp) /\ UNCHANGED <<sent, sender>>
    \/ Transmit /\ GiveUp

TransferSpec == TransferInit /\ [][TransferNext]_<<sent, sender, receiver, body>>
=============================================================================
