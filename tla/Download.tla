------------------------------ MODULE Download ------------------------------
(***************************************************************************)
(* A response with a payload of several blocks, end to end: the server's   *)
(* sendARQBlock2ACK (ArqSender with ToAddr = TRUE), the network, and the   *)
(* client: sendCON, or the last phase of sendARQBlock1CON, until the first *)
(* answer, then receiveARQBlock2.                                          *)
(*                                                                         *)
(* The server runs the handler for the first request datagram; localState  *)
(* drops the others (LocalState models when it does not).  The client's    *)
(* ACKs reach sendARQBlock2ACK through listenLoop and a channel of 102400  *)
(* places; both are part of the network here.                              *)
(***************************************************************************)
EXTENDS ArqSender, Network

CONSTANTS Requests,   \* {TRUE}, {FALSE} or both: was it sent by sendARQBlock1CON
          Networks    \* {TRUE}, {FALSE} or both: is the network orderly

ASSUME DownloadAssumption ==
    /\ ToAddr
    /\ NumBlocks > 1
    /\ Requests \in SUBSET BOOLEAN
    /\ Networks \in SUBSET BOOLEAN
    /\ ~Timely    \* Networks says it of each behaviour

VARIABLES blockwise,       \* the request was sent by sendARQBlock1CON
          orderly,         \* timeWait exceeds the round trip, no socket fails
          phase,           \* the client: "idle", "requesting", "receiving", ...
          requestAttempts, \* attempts of sendCON
          timeouts,        \* attempts of receiveARQBlock2
          buf, totalBlocks,
          body             \* the assembled payload that was returned

clientVars == <<blockwise, orderly, phase, requestAttempts, timeouts, buf, totalBlocks, body>>
downloadVars == <<arqVars, clientVars, netVars, faultVars>>

Request  == [kind : {"Request"}]
BlockAck == [kind : {"Continue", "Empty"}, block : Block]
EmptyAck == [kind : {"EmptyAck"}]
Block2   == [kind : {"Block2"}, block : Block]

DownloadTypeOK ==
    /\ ArqTypeOK
    /\ FaultTypeOK
    /\ blockwise \in BOOLEAN
    /\ orderly \in BOOLEAN
    /\ phase \in {"idle", "requesting", "receiving", "done", "failed"}
    /\ requestAttempts \in 0 .. MaxSendAttempts
    /\ timeouts \in 0 .. MaxSendAttempts
    /\ buf \in SUBSET Block
    /\ totalBlocks \in {-1, NumBlocks}
    /\ body \in SUBSET Block
    /\ toServer \in SUBSET (Request \cup BlockAck)
    /\ toClient \in SUBSET (EmptyAck \cup Block2)

DownloadInit ==
    /\ ArqInit
    /\ NetworkInit
    /\ blockwise \in Requests
    /\ orderly \in Networks
    /\ phase = "idle"
    /\ requestAttempts = 0
    /\ timeouts = 0
    /\ buf = {}
    /\ totalBlocks = -1
    /\ body = {}

-----------------------------------------------------------------------------
(* The server.                                                             *)

(* The packets a call of sendPacketsToAddr wrote.  On an orderly network   *)
(* it fails when the attempts of a packet are used up, not for a socket.   *)
blocksSent(also, late) ==
    /\ toClient' = toClient \cup also \cup {[kind |-> "Block2", block |-> i] : i \in Burst}
    /\ orderly /\ status' = "failed" =>
          \/ shift' = NumBlocks
          \/ \E i \in late \ acked' : attempts[i] = MaxSendAttempts

(* returnResultFromResource: the empty ACK, then the first window.         *)
HandlerResponds ==
    /\ \E m \in Request : TakeFrom(toServer, toServer', m)
    /\ ArqStart
    /\ blocksSent(EmptyAck, {})
    /\ UNCHANGED <<clientVars, losses>>

(* A retransmitted request stops at the CAS or at ProcessedMessages, a     *)
(* late ACK finds no channel.                                              *)
ServerIgnores ==
    /\ \E m \in toServer :
          /\ status # "idle"
          /\ m \in Request \/ status # "sending"
          /\ TakeFrom(toServer, toServer', m)
    /\ UNCHANGED <<arqVars, clientVars, toClient, losses>>

ServerAck ==
    /\ \E m \in toServer \cap BlockAck :
          /\ TakeFrom(toServer, toServer', m)
          /\ \/ /\ m.kind = "Continue"
                /\ \E late \in (IF orderly THEN {{}} ELSE SUBSET Block) :
                      ArqContinue(m.block, late)
             \/ m.kind = "Empty" /\ ArqFinal
    /\ blocksSent({}, {})
    /\ UNCHANGED <<clientVars, losses>>

serverTimeout ==
    /\ ArqTimeout
    /\ blocksSent({}, Block)

-----------------------------------------------------------------------------
(* The client.                                                             *)

writeRequest ==
    /\ requestAttempts' = requestAttempts + 1
    /\ \/ /\ phase' = "requesting"
          /\ toServer' = toServer \cup Request
       \/ /\ SocketMayFail /\ ~orderly
          /\ phase' = "failed"
          /\ UNCHANGED toServer

ClientSend ==
    /\ phase = "idle"
    /\ writeRequest
    /\ UNCHANGED <<arqVars, blockwise, orderly, timeouts, buf, totalBlocks, body, toClient, faultVars>>

(* In sendCON every timeout costs an attempt; in receiveARQBlock2 the      *)
(* timeouts of the whole transfer are counted, a block received does not   *)
(* reset them.                                                             *)
countTimeout_Forgotten == UNCHANGED timeouts

countTimeout == timeouts' = timeouts + 1

clientTimeout ==
    /\ \/ /\ phase = "requesting"
          /\ requestAttempts < MaxSendAttempts
          /\ writeRequest
          /\ UNCHANGED timeouts
       \/ /\ phase = "requesting"
          /\ requestAttempts = MaxSendAttempts
          /\ phase' = "failed"
          /\ UNCHANGED <<requestAttempts, timeouts, toServer>>
       \/ /\ phase = "receiving"
          /\ timeouts < MaxSendAttempts
          /\ countTimeout
          /\ UNCHANGED <<phase, requestAttempts, toServer>>
       \/ /\ phase = "receiving"
          /\ timeouts = MaxSendAttempts
          /\ phase' = "failed"
          /\ UNCHANGED <<requestAttempts, timeouts, toServer>>
    /\ UNCHANGED <<blockwise, orderly, buf, totalBlocks, body>>

(* The empty ACK announces the blocks; once announced it is skipped.       *)
ClientEmptyAck ==
    /\ phase \in {"requesting", "receiving"}
    /\ \E m \in EmptyAck : TakeFrom(toClient, toClient', m)
    /\ phase' = "receiving"
    /\ UNCHANGED <<arqVars, blockwise, orderly, requestAttempts, timeouts, buf, totalBlocks, body,
                   toServer, losses>>

ackKind_EmptyForLastBlock(end, b) == IF MoreBlocks(b) THEN "Continue" ELSE "Empty"

ackKind_AlwaysContinue(end, b) == "Continue"

ackKind(end, b) == IF end THEN "Empty" ELSE "Continue"

(* A block: buffer it, and answer Continue, or Empty for the one that      *)
(* completes the payload.  In receiveARQBlock2's loop a failed write ends  *)
(* the call; before the loop its error is ignored.                         *)
receiveARQBlock2(b) ==
    LET buf_   == buf \cup {b}
        total_ == TotalAfter(totalBlocks, b)
        end    == Complete(total_, buf_)
        ack    == [kind |-> ackKind(end, b), block |-> b]
    IN  /\ buf' = buf_
        /\ totalBlocks' = total_
        /\ \/ /\ toServer' = toServer \cup {ack}
              /\ phase' = IF end THEN "done" ELSE "receiving"
              /\ body' = IF end THEN assembleBlocks(buf_, total_) ELSE body
           \/ /\ SocketMayFail /\ ~orderly
              /\ phase = "receiving"
              /\ phase' = "failed"
              /\ UNCHANGED <<toServer, body>>

(* sendCON passes its first block to receiveARQBlock2; sendARQBlock1CON    *)
(* looks at ACKs only and drops a block that overtook the empty ACK.       *)
ClientBlock ==
    /\ \E b \in Block :
          /\ TakeFrom(toClient, toClient', [kind |-> "Block2", block |-> b])
          /\ \/ /\ phase = "receiving" \/ (phase = "requesting" /\ ~blockwise)
                /\ receiveARQBlock2(b)
             \/ /\ phase = "requesting" /\ blockwise
                /\ UNCHANGED <<buf, totalBlocks, phase, body, toServer>>
    /\ UNCHANGED <<arqVars, blockwise, orderly, requestAttempts, timeouts, losses>>

(* The client has returned and its socket is closed.                       *)
ClientGone ==
    /\ phase \in {"done", "failed"}
    /\ \E m \in toClient : TakeFrom(toClient, toClient', m)
    /\ UNCHANGED <<arqVars, clientVars, toServer, losses>>

ClientReadError ==
    /\ SocketMayFail /\ ~orderly
    /\ phase \in {"requesting", "receiving"}
    /\ phase' = "failed"
    /\ UNCHANGED <<arqVars, blockwise, orderly, requestAttempts, timeouts, buf, totalBlocks, body,
                   netVars, faultVars>>

(* The read deadlines are independent of each other, and of what is in     *)
(* flight.  On an orderly network one expires only when nothing is in      *)
(* flight, and then both sides' do: they are equally long.                 *)
ServerTimeout ==
    /\ ~orderly
    /\ serverTimeout
    /\ UNCHANGED <<clientVars, toServer, faultVars>>

ClientTimeout ==
    /\ ~orderly
    /\ clientTimeout
    /\ UNCHANGED <<arqVars, toClient, faultVars>>

QuietTimeout ==
    /\ orderly
    /\ toServer = {} /\ toClient = {}
    /\ \/ serverTimeout
       \/ status # "sending" /\ UNCHANGED <<arqVars, toClient>>
    /\ \/ clientTimeout
       \/ phase \notin {"requesting", "receiving"} /\ UNCHANGED <<clientVars, toServer>>
    /\ UNCHANGED faultVars

(* Losses are counted on an orderly network; the other one need not        *)
(* deliver anything.                                                       *)
Lose ==
    /\ orderly
    /\ LoseDatagram(toClient)
    /\ UNCHANGED <<arqVars, clientVars>>

delivery == HandlerResponds \/ ServerIgnores \/ ServerAck
                \/ ClientEmptyAck \/ ClientBlock \/ ClientGone

DownloadNext ==
    \/ ClientSend \/ ClientTimeout \/ ServerTimeout \/ QuietTimeout
    \/ ClientReadError
    \/ HandlerResponds \/ ServerIgnores \/ ServerAck
    \/ ClientEmptyAck \/ ClientBlock \/ ClientGone
    \/ Lose

DownloadSpec == DownloadInit /\ [][DownloadNext]_downloadVars

(* Both read deadlines fire.  An orderly network delivers what it does not *)
(* lose; the other one owes nothing.                                       *)
DownloadFairSpec ==
    /\ DownloadSpec
    /\ WF_downloadVars(ClientSend)
    /\ WF_downloadVars(ClientTimeout)
    /\ WF_downloadVars(ServerTimeout)
    /\ WF_downloadVars(QuietTimeout)
    /\ WF_downloadVars(orderly /\ delivery)

-----------------------------------------------------------------------------
SentBlocks == {b \in Block : attempts[b] > 0}

SenderResult == CASE status \in {"idle", "sending"} -> "pending"
                  [] status = "done"                -> "ok"
                  [] status = "failed"              -> "error"

ReceiverResult == CASE phase \in {"idle", "requesting", "receiving"} -> "pending"
                    [] phase = "done"                              -> "ok"
                    [] phase = "failed"                            -> "error"

Contract == INSTANCE TransferContract
              WITH Payload <- Block, sent <- SentBlocks,
                   sender <- SenderResult, receiver <- ReceiverResult

(* A download keeps the contract of a transfer: the client returns nothing *)
(* but the whole body, in whichever order and however often its blocks     *)
(* arrived (transport.go:581-595), and sendARQBlock2ACK returns nil only   *)
(* after that (transport.go:472-474).  The converse cannot hold: the last  *)
(* ACK may be lost.                                                        *)
ImplementsTransfer == Contract!TransferSpec

(* The client acknowledges the completing block with an empty ACK and no   *)
(* block after it, so the sender never sees every block acknowledged with  *)
(* Continue: "shift == len(packets)" (transport.go:266-269, "need a more   *)
(* elegant solution") never turns a complete transfer into an error.       *)
CompletionIsNeverContinue == shift < NumBlocks

(* Client and server both leave their loops, whatever the network does.    *)
BothReturn ==
    /\ <>(phase \in {"done", "failed"})
    /\ status = "sending" ~> status \in {"done", "failed"}

(* When an orderly network loses fewer datagrams than there are attempts,  *)
(* the client gets the body.  After a blockwise request it does when       *)
(* nothing is lost, in whichever order the datagrams arrive: the empty ACK *)
(* that announces the blocks is sent only once, and without it they are    *)
(* all dropped (transport.go:356-374).                                     *)
LossRepaired == orderly => <>(phase = "done" \/ (blockwise /\ losses > 0))
=============================================================================
