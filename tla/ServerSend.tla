----------------------------- MODULE ServerSend -----------------------------
(***************************************************************************)
(* Server.send: a request sent from the server's own socket, whose answer  *)
(* comes back through listenLoop.  The answer is a datagram like any other *)
(* (LocalState with NumBlocks = 1): respHandler hands it over through the  *)
(* channel that bq (backward_storage.go) keeps under token+address, if     *)
(* send is waiting on it at that moment.  An answer to a ClientHello is    *)
(* handed over by listenLoop itself (hello).                               *)
(*                                                                         *)
(* The peer is external.  A coalago peer answers a request once and drops  *)
(* the retransmissions of it; other peers answer each.                     *)
(***************************************************************************)
EXTENDS LocalState

CONSTANTS Retries,         \* WithRetries(n)
          Hellos,          \* {TRUE}, {FALSE} or both: is it a ClientHello
          PeerRepeats,     \* TRUE: the peer answers retransmissions too
          PeerMayBeFast,   \* TRUE: an answer may arrive before bq.Get
          SocketMayFail    \* TRUE: sendTo may return an error

ASSUME ServerSendAssumption ==
    /\ NumBlocks = 1
    /\ Retries \in Nat
    /\ Hellos \in SUBSET BOOLEAN
    /\ {PeerRepeats, PeerMayBeFast, SocketMayFail} \subseteq BOOLEAN

VARIABLES hello,      \* the message is a ClientHello
          spc,        \* where send is: see the actions
          turns,      \* turns of its loop
          sends,      \* calls of sendTo
          result,     \* what it returned
          requests,   \* copies of the request on their way to the peer
          answered    \* the peer has answered one

sendVars == <<hello, spc, turns, sends, result, requests, answered>>
serverSendVars == <<sendVars, serverVars, netVars, faultVars>>

ServerSendTypeOK ==
    /\ LocalStateTypeOK
    /\ FaultTypeOK
    /\ hello \in BOOLEAN
    /\ spc \in {"idle", "register", "select", "resend", "delete", "returned"}
    /\ turns \in 0 .. Retries + 1
    /\ sends \in 0 .. Retries + 2
    /\ result \in {"none", "response", "timeout", "error"}
    /\ requests \in 0 .. Retries + 2
    /\ answered \in BOOLEAN

ServerSendInit ==
    /\ LocalStateInit
    /\ NetworkInit
    /\ hello \in Hellos
    /\ spc = "idle"
    /\ turns = 0
    /\ sends = 0
    /\ result = "none"
    /\ requests = 0
    /\ answered = FALSE

-----------------------------------------------------------------------------
(* sendTo, then on to next; or its error is returned, through the deferred *)
(* bq.Delete once that has been set up.                                    *)
sendTo(next, failed) ==
    \/ /\ sends' = sends + 1
       /\ requests' = requests + 1
       /\ spc' = next
       /\ UNCHANGED result
    \/ /\ SocketMayFail
       /\ spc' = failed
       /\ result' = "error"
       /\ UNCHANGED <<sends, requests>>

FirstSend ==
    /\ spc = "idle"
    /\ sendTo("register", "returned")
    /\ UNCHANGED <<hello, turns, answered, serverVars, netVars, faultVars>>

(* bq.Get makes the channel: only now can an answer be handed over.        *)
Register ==
    /\ spc = "register"
    /\ spc' = "select"
    /\ UNCHANGED <<hello, turns, sends, result, requests, answered, serverVars, netVars, faultVars>>

(* A time.After of every turn's own.                                       *)
timerFires_CreatedOnce == spc = "select" /\ turns = 0

timerFires == spc = "select"

(* Time is up: send again, and wait once more or, after the last turn,     *)
(* give up.  Nobody receives from the channel meanwhile.                   *)
Timeout ==
    /\ timerFires
    /\ Timely => requests = 0 /\ toServer = {} /\ ServerIdle
    /\ spc' = "resend"
    /\ UNCHANGED <<hello, turns, sends, result, requests, answered, serverVars, netVars, faultVars>>

lastTurn_OneTooFew == turns + 1 = Retries

lastTurn == turns = Retries

Resend ==
    /\ spc = "resend"
    /\ turns' = turns + 1
    /\ IF lastTurn THEN sendTo("delete", "delete")
                   ELSE sendTo("select", "delete")
    /\ UNCHANGED <<hello, answered, serverVars, netVars, faultVars>>

(* The deferred bq.Delete; without a message or an error, a timeout.       *)
Return ==
    /\ spc = "delete"
    /\ spc' = "returned"
    /\ result' = IF result = "none" THEN "timeout" ELSE result
    /\ UNCHANGED <<hello, turns, sends, requests, answered, serverVars, netVars, faultVars>>

(* bq.Write: an unbuffered send that is dropped unless somebody receives.  *)
bqWrite ==
    IF spc = "select"
    THEN /\ spc' = "delete"
         /\ result' = "response"
         /\ UNCHANGED <<hello, turns, sends, requests, answered>>
    ELSE UNCHANGED sendVars

-----------------------------------------------------------------------------
(* The peer (external): a copy of the request arrives.                     *)
PeerReceives ==
    /\ requests > 0
    /\ PeerMayBeFast \/ spc # "register"
    /\ requests' = requests - 1
    /\ answered' = TRUE
    /\ toServer' = IF PeerRepeats \/ ~answered THEN toServer \cup Block ELSE toServer
    /\ UNCHANGED <<hello, spc, turns, sends, result, toClient, serverVars, faultVars>>

LoseRequest ==
    /\ requests > 0
    /\ losses < MaxLosses
    /\ requests' = requests - 1
    /\ losses' = losses + 1
    /\ UNCHANGED <<hello, spc, turns, sends, result, answered, dups, netVars, serverVars>>

-----------------------------------------------------------------------------
(* listenLoop reads an answer.  A PeerHello for which bq.Has is true goes  *)
(* to bq.Write at once and frees the slot; without a channel it ends in    *)
(* receiveHandshake.  Either way it leaves no trace in the caches.         *)
ReceiveHello ==
    /\ hello
    /\ \E b \in toServer : TakeFrom(toServer, toServer', b)
    /\ \E w \in Worker : wpc[w] = "free"
    /\ bqWrite
    /\ UNCHANGED <<toClient, losses, serverVars>>

Receive ==
    /\ ~hello
    /\ \E w \in Worker, b \in toServer : TakeFrom(toServer, toServer', b) /\ listenLoop(w, b)
    /\ UNCHANGED <<sendVars, toClient, losses>>

(* respHandler past the CAS: bq.Has and bq.Write; an answer that nobody    *)
(* waits for ends here, or in requestOnReceive, which ignores responses.   *)
HandOver(l) ==
    /\ serverUp
    /\ stage[l] = "handler"
    /\ bqWrite
    /\ stage' = [stage EXCEPT ![l] = "delete"]
    /\ UNCHANGED <<netVars, cacheVars, objectVars, registered, spawned, payload, runs,
                   serverUp, workerVars, faultVars>>

listenStep ==
    /\ \/ \E w \in Worker : workerStep(w)
       \/ \E l \in State :
             \/ \E p \in SUBSET Block : compareAndSwap(l, p)
             \/ deleteState(l)
             \/ markProcessed(l)
       \/ expireProcessed
    /\ UNCHANGED <<sendVars, faultVars>>

ServerSendNext ==
    \/ FirstSend \/ Register \/ Timeout \/ Resend \/ Return
    \/ PeerReceives \/ LoseRequest
    \/ ReceiveHello \/ Receive
    \/ \E l \in State : HandOver(l)
    \/ listenStep

ServerSendSpec == ServerSendInit /\ [][ServerSendNext]_serverSendVars

(* The caller's goroutine runs and its timer fires; the network and the    *)
(* peer owe nothing.                                                       *)
ServerSendFairSpec ==
    /\ ServerSendSpec
    /\ WF_serverSendVars(FirstSend \/ Register \/ Resend \/ Return)
    /\ WF_serverSendVars(Timeout)

(* The peer answers, and the server's goroutines run.                      *)
ServerSendDeliverySpec ==
    /\ ServerSendFairSpec
    /\ WF_serverSendVars(PeerReceives)
    /\ WF_serverSendVars(Receive \/ ReceiveHello)
    /\ WF_serverSendVars(listenStep \/ \E l \in State : HandOver(l))

-----------------------------------------------------------------------------
(* send always returns (server.go:422-435), whatever arrives and when.     *)
SendReturns == spc # "idle" ~> spc = "returned"

(* With at most Retries requests lost, the peer's answer in time and no    *)
(* socket error, send returns that answer (server.go:400: "sends the       *)
(* message ... and returns the answer").                                   *)
AnswerReturned ==
    spc # "idle" ~> (result \in {"response", "error"} \/ losses > Retries)
=============================================================================
