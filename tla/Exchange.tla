------------------------------ MODULE Exchange ------------------------------
(***************************************************************************)
(* A server and the network between it and one client.  The clients        *)
(* (Upload, Confirmable) extend this module.                               *)
(***************************************************************************)
EXTENDS LocalState

CONSTANT LossyCodes    \* which ACK codes the network may lose

ASSUME ExchangeAssumption ==
    LossyCodes \in SUBSET {"Continue", "Response", "NotFound"}

VARIABLE response      \* the code of the response the client returned

exchangeVars == <<netVars, serverVars, faultVars, response>>

Codes == {"Response", "NotFound"}

ExchangeTypeOK ==
    /\ LocalStateTypeOK
    /\ FaultTypeOK
    /\ response \in Codes \cup {"none"}

ExchangeInit ==
    /\ LocalStateInit
    /\ NetworkInit
    /\ response = "none"

Deliver(w, b) ==
    /\ TakeFrom(toServer, toServer', b)
    /\ listenLoop(w, b)
    /\ UNCHANGED <<toClient, losses, response>>

Lose ==
    /\ LoseDatagram({m \in toClient : m.code \in LossyCodes})
    /\ UNCHANGED <<serverVars, response>>

serverStep ==
    /\ \/ \E w \in Worker : workerStep(w)
       \/ \E l \in State : handlerStep(l)
       \/ expireState
       \/ expireProcessed
    /\ UNCHANGED <<faultVars, response>>

(* When a client may time out: at any moment, or only when nothing that    *)
(* could still answer it is under way.                                     *)
TimeoutPossible ==
    Timely => toServer = {} /\ toClient = {} /\ ServerIdle

-----------------------------------------------------------------------------
(* The inductive invariant of the server's side.  Every goroutine about to *)
(* run the handler carries the whole payload, and every answer on the wire *)
(* or returned has its cause.                                              *)
WholePayloads ==
    \A l \in State :
        /\ \A p \in SUBSET Block : spawned[l][p] > 0 => p = Block
        /\ stage[l] = "handler" => payload[l] = Block

WorkersHaveState == \A w \in Worker : wpc[w] = "process" => wls[w] \in State

AnswersBacked ==
    /\ runs # <<>> => registered
    /\ \A m \in toClient : /\ m.code = "Response" => runs # <<>>
                           /\ m.code = "NotFound" => ~registered
    /\ response = "Response" => runs # <<>>
    /\ response = "NotFound" => ~registered

ExchangeInv ==
    /\ ExchangeTypeOK
    /\ WholePayloads
    /\ WorkersHaveState
    /\ AnswersBacked
=============================================================================
