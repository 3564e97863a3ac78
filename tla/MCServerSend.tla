---------------------------- MODULE MCServerSend ----------------------------
(***************************************************************************)
(* Server.Send: of a coap message, or of the hello of a handshake, against *)
(* the goroutines of the server (ServerSend); or of a coaps message with   *)
(* its handshakes (SecureSend).  One call in a behaviour.                  *)
(***************************************************************************)
EXTENDS ServerSend, SecureSend

MCVars == <<serverSendVars, secureVars>>

MCInit == ServerSendInit /\ SecureSendInit

coap(A)  == phase = "handshake" /\ round = 1 /\ A /\ UNCHANGED secureVars
coaps(A) == spc = "idle" /\ A /\ UNCHANGED serverSendVars

(* A call that has begun goes on: the fairness of ServerSendDeliverySpec   *)
(* and of SecureSendDeliverySpec.                                          *)
MCSpec ==
    /\ MCInit
    /\ [][coap(ServerSendNext) \/ coaps(SecureSendNext)]_MCVars
    /\ WF_MCVars(coap(FirstSend \/ Register \/ Resend \/ Return))
    /\ WF_MCVars(coap(Timeout))
    /\ WF_MCVars(coap(PeerReceives))
    /\ WF_MCVars(coap(Receive \/ ReceiveHello))
    /\ WF_MCVars(coap(listenStep \/ \E l \in State : HandOver(l)))
    /\ WF_MCVars(coaps(callerStep))
    /\ WF_MCVars(coaps(Timer))
    /\ WF_MCVars(coaps(receive))
    /\ WF_MCVars(coaps(peerStep))

(* Both kinds of call keep their variables' types; in particular send      *)
(* writes at most retries + 2 datagrams, the last without waiting for an   *)
(* answer (server.go:417-432), and takes the caller's options for the      *)
(* second send of a coaps message only (server.go:383, 397).               *)
TypeOK == ServerSendTypeOK /\ SecureSendTypeOK
=============================================================================
