------------------------------- MODULE Upload -------------------------------
(***************************************************************************)
(* A request with a payload of several blocks, end to end: the client's    *)
(* sendARQBlock1CON (ArqSender with ToAddr = FALSE), the network, and the  *)
(* server that reassembles the payload and runs the handler (Exchange).    *)
(* The response fits into one datagram; Download has the other case.       *)
(***************************************************************************)
EXTENDS ArqSender, Exchange

uploadVars == <<arqVars, exchangeVars>>

UploadTypeOK == ArqTypeOK /\ ExchangeTypeOK

UploadInit == ArqInit /\ ExchangeInit

-----------------------------------------------------------------------------
(* The packets a call of sendPackets wrote are in flight.                  *)
transmitted == toServer' = toServer \cup Burst

ClientStart ==
    /\ ArqStart
    /\ transmitted
    /\ UNCHANGED <<toClient, serverVars, faultVars, response>>

ClientTimeout ==
    /\ TimeoutPossible
    /\ ArqTimeout
    /\ transmitted
    /\ UNCHANGED <<toClient, serverVars, faultVars, response>>

ClientReadError ==
    /\ ArqReadError
    /\ UNCHANGED exchangeVars

(* An ACK 2.31 Continue: mark the packet, move the window, send on.        *)
ClientContinue(m) ==
    /\ m.code = "Continue"
    /\ TakeFrom(toClient, toClient', m)
    /\ \E late \in (IF Timely THEN {{}} ELSE SUBSET Block) : ArqContinue(m.block, late)
    /\ transmitted
    /\ UNCHANGED <<serverVars, losses, response>>

(* Any other ACK with the request's Block1 option is the response.         *)
ClientResponse(m) ==
    /\ m.code \in Codes
    /\ TakeFrom(toClient, toClient', m)
    /\ ArqFinal
    /\ response' = m.code
    /\ UNCHANGED <<toServer, serverVars, losses>>

clientReceive == \E m \in toClient : ClientContinue(m) \/ ClientResponse(m)

UploadNext ==
    \/ ClientStart
    \/ ClientTimeout
    \/ ClientReadError
    \/ clientReceive
    \/ UNCHANGED arqVars /\ (\E w \in Worker, b \in toServer : Deliver(w, b))
    \/ UNCHANGED arqVars /\ Lose
    \/ UNCHANGED arqVars /\ serverStep

UploadSpec == UploadInit /\ [][UploadNext]_uploadVars

(* The client's loop runs and its read deadline fires; the Go scheduler    *)
(* runs every goroutine; the handler returns.  The network owes nothing.   *)
UploadFairness ==
    /\ WF_uploadVars(ClientStart)
    /\ WF_uploadVars(ClientTimeout)
    /\ \A w \in Worker :
          WF_uploadVars(UNCHANGED <<arqVars, faultVars, response>> /\ workerStep(w))
    /\ \A l \in State :
          WF_uploadVars(UNCHANGED <<arqVars, faultVars, response>> /\ handlerStep(l))

UploadFairSpec == UploadSpec /\ UploadFairness

(* A network that delivers what it does not lose.                          *)
UploadDeliverySpec ==
    /\ UploadFairSpec
    /\ WF_uploadVars(clientReceive)
    /\ \A b \in Block :
          WF_uploadVars(UNCHANGED arqVars /\ (\E w \in Worker : Deliver(w, b)))

-----------------------------------------------------------------------------
Outcome ==
    CASE status \in {"idle", "sending"} -> "pending"
      [] status = "failed"              -> "error"
      [] status = "done"                -> IF response = "Response" THEN "ok" ELSE "notFound"

Contract == INSTANCE RequestContract WITH Payload <- Block, outcome <- Outcome

(* Whatever the network loses, duplicates or reorders, whichever way the   *)
(* goroutines interleave, and even when cache entries expire under a       *)
(* running transfer, the upload keeps the contract of a request: the       *)
(* handler never sees a partial or mixed payload (localstate.go:160-168)   *)
(* and Client.Send reports success only after the handler ran.             *)
ImplementsContract == Contract!ContractSpec

(* A block the client will not send again, because it got a Continue ACK   *)
(* for it, is in the buffer of the localState that later blocks will find  *)
(* - or the payload has already been handled.  (transport.go:379 against   *)
(* localstate.go:164 and storage.go:74-91.)                                *)
AckedBlocksKept ==
    \A b \in acked :
        \/ storage # None /\ b \in bufBlock1[storage]
        \/ runs # <<>>

(* Whatever the caches and the goroutines do, each run of the handler uses *)
(* up a datagram of every block: the blocks that were sent fewer times     *)
(* than it ran are no more than the network repeated.  So one goroutine of *)
(* a localState passes the CAS (localstate.go:12-14 and 56-62).            *)
RerunsPaidFor == Cardinality({b \in Block : attempts[b] < Len(runs)}) <= dups

(* Within processedTTL, and with a timeWait above the round trip, the      *)
(* handler runs a second time only when the network has repeated or lost   *)
(* as many datagrams as there are blocks: they all have to arrive again    *)
(* between the Delete and the Set that follow the handler                  *)
(* (localstate.go:68-71).                                                  *)
HandledAtMostOnce == dups + losses < NumBlocks => Len(runs) <= 1

(* The client's loop ends - with a response, or with ErrMaxAttempts when   *)
(* some packet cannot be got through - unless every packet has been        *)
(* acknowledged (transport.go:233-236).                                    *)
GivesUpOnUnackedBlock == <>(status \in {"done", "failed"} \/ acked = Block)

(* A caller of Client.Send always gets an answer or an error.              *)
ClientReturns == <>(status \in {"done", "failed"})

(* Lost blocks and Continue ACKs, fewer of them than attempts, are made    *)
(* good by retransmission: the caller gets the handler's response          *)
(* (transport.go:225-239).                                                 *)
LossRepaired == <>(status = "done" \/ losses >= MaxSendAttempts)
=============================================================================
