---------------------------- MODULE DownloadProof ----------------------------
(***************************************************************************)
(* The body of a blockwise response arrives whole, and its sender succeeds *)
(* only then, for any number of blocks, window sizes and attempt limit,    *)
(* any bound on the faults of the network, and timeouts at any moment.     *)
(***************************************************************************)
EXTENDS Download, ArqSenderProof

USE NumBlocksAssumption, ArqAssumption, NetworkAssumption, DownloadAssumption DEF Block

-----------------------------------------------------------------------------
(* The blocks that the sender has, or will have, a Continue for.           *)
ContinueAck(b) == [kind |-> "Continue", block |-> b]

Continued == acked \cup {b \in Block : ContinueAck(b) \in toServer}

waitingForBlocks == phase \notin {"done", "failed"}

(* The total is known as soon as the last block is there.                  *)
TotalIsKnown == totalBlocks = IF NumBlocks - 1 \in buf THEN NumBlocks ELSE -1

(* Nothing is acknowledged but what is buffered, and never everything: the *)
(* block that completes the payload gets an Empty.                         *)
ContinuedAreBuffered ==
    /\ Continued \subseteq buf
    /\ Continued # Block
    /\ waitingForBlocks => buf # Block

(* What an Empty means, in flight or received.                             *)
EmptyMeansDelivered ==
    /\ phase = "done" => body = Block
    /\ \A m \in toServer : m.kind = "Empty" => phase = "done"
    /\ status = "done" => phase = "done"

(* Only blocks that were sent travel or are acknowledged.                  *)
OnlySentTravel ==
    /\ \A m \in toClient : m.kind = "Block2" => attempts[m.block] > 0
    /\ \A m \in toServer : m.kind = "Continue" => attempts[m.block] > 0
    /\ \A b \in buf : attempts[b] > 0

FirstRequest == phase = "idle" => requestAttempts = 0

DownloadInv ==
    /\ ArqInv
    /\ DownloadTypeOK
    /\ TotalIsKnown
    /\ ContinuedAreBuffered
    /\ EmptyMeansDelivered
    /\ OnlySentTravel
    /\ FirstRequest

-----------------------------------------------------------------------------
(* A payload is complete when every block is buffered.                     *)
LEMMA CompleteIsBlock ==
    ASSUME NEW buf_ \in SUBSET Block,
           NEW total, total = IF NumBlocks - 1 \in buf_ THEN NumBlocks ELSE -1
    PROVE  /\ Complete(total, buf_) <=> buf_ = Block
           /\ buf_ = Block => assembleBlocks(buf_, total) = Block
<1>1. IsFiniteSet(Block) /\ Cardinality(Block) = NumBlocks
  <2> DEFINE last == NumBlocks - 1
  <2>1. last \in Int /\ last >= 0 /\ NumBlocks = last + 1
    OBVIOUS
  <2> HIDE DEF last
  <2>2. /\ IsFiniteSet(0 .. last)
        /\ Cardinality(0 .. last) = IF 0 > last THEN 0 ELSE last - 0 + 1
    BY <2>1, FS_Interval
  <2>3. IsFiniteSet(0 .. last) /\ Cardinality(0 .. last) = NumBlocks
    BY <2>1, <2>2
  <2> QED
    BY <2>3 DEF last
<1>2. Cardinality(buf_) \in Nat /\ (Cardinality(buf_) = NumBlocks <=> buf_ = Block)
  <2>1. Cardinality(buf_) \in Nat
    BY BlockFinite
  <2>2. Cardinality(buf_) = NumBlocks => buf_ = Block
    BY <1>1, FS_Subset
  <2> QED
    BY <1>1, <2>1, <2>2
<1>3. NumBlocks - 1 \in Block
  OBVIOUS
<1>4. CASE NumBlocks - 1 \in buf_
  <2>1. total = NumBlocks
    BY <1>4
  <2>2. buf_ = Block => assembleBlocks(buf_, total) = Block
    BY <2>1 DEF assembleBlocks
  <2> QED
    BY <1>2, <2>1, <2>2 DEF Complete
<1>5. CASE NumBlocks - 1 \notin buf_
  BY <1>2, <1>3, <1>5 DEF Complete
<1> QED
  BY <1>4, <1>5

LEMMA Taken ==
    ASSUME FaultTypeOK, NEW flight, NEW flight_, NEW m, TakeFrom(flight, flight_, m)
    PROVE  m \in flight /\ flight_ \in SUBSET flight /\ dups' \in 0 .. MaxDup
  BY DEF TakeFrom, FaultTypeOK

(* Every step but the receipt of a block leaves what the client has, sends *)
(* the server nothing but requests, and ends a call that is not done.      *)
ClientKeeps ==
    /\ UNCHANGED <<blockwise, orderly, buf, totalBlocks, body>>
    /\ \/ UNCHANGED phase
       \/ waitingForBlocks /\ phase' \in {"requesting", "receiving", "failed"}
    /\ requestAttempts' \in 0 .. MaxSendAttempts
    /\ timeouts' \in 0 .. MaxSendAttempts
    /\ phase' = "idle" => requestAttempts' = 0
    /\ toServer' \in SUBSET (toServer \cup Request)

(* What a step of the server, or none, does to the window and to what is   *)
(* on its way to the client.                                               *)
ServerKeeps ==
    /\ ArqInv'
    /\ acked' \in SUBSET Continued
    /\ \A i \in Block : attempts'[i] >= attempts[i]
    /\ status' = "done" => phase = "done"
    /\ \/ UNCHANGED <<status, attempts>>
       \/ status \in {"idle", "sending"} /\ status' \in {"sending", "failed"}
       \/ status = "sending" /\ status' = "done" /\ UNCHANGED attempts
    /\ \A m \in toClient' :
          \/ m \in toClient \cup EmptyAck
          \/ \E i \in Block : attempts'[i] > 0 /\ m = [kind |-> "Block2", block |-> i]

(* The step as a step of the contract of a transfer.                       *)
ContractStep == [Contract!TransferNext]_<<SentBlocks, SenderResult, ReceiverResult, body>>

LEMMA KeptStep ==
    ASSUME DownloadInv, ClientKeeps, ServerKeeps
    PROVE  ContractStep
<1>1. ArqTypeOK /\ ArqTypeOK' /\ DownloadTypeOK
  BY DEF DownloadInv, ArqInv, ServerKeeps
<1>2. /\ SentBlocks' \in SUBSET Block
      /\ SentBlocks \in SUBSET SentBlocks'
      /\ UNCHANGED attempts => UNCHANGED SentBlocks
  <2>1. \A i \in Block : attempts[i] \in Nat /\ attempts'[i] \in Nat /\ attempts'[i] >= attempts[i]
    BY <1>1 DEF ServerKeeps, ArqTypeOK
  <2> QED
    BY <2>1 DEF SentBlocks
<1>3. \/ UNCHANGED <<SentBlocks, SenderResult>>
      \/ Contract!Transmit
      \/ ReceiverResult = "ok" /\ Contract!Succeed
  <2>1. CASE UNCHANGED <<status, attempts>>
    BY <1>2, <2>1 DEF SenderResult
  <2>2. CASE status \in {"idle", "sending"} /\ status' \in {"sending", "failed"}
    <3>1. SenderResult = "pending" /\ SenderResult' \in {"pending", "error"}
      BY <2>2 DEF SenderResult
    <3> QED
      BY <1>2, <3>1 DEF Contract!Transmit
  <2>3. CASE status = "sending" /\ status' = "done" /\ UNCHANGED attempts
    <3>1. SenderResult = "pending" /\ SenderResult' = "ok"
      BY <2>3 DEF SenderResult
    <3>2. ReceiverResult = "ok"
      BY <2>3 DEF ReceiverResult, ServerKeeps
    <3> QED
      BY <1>2, <2>3, <3>1, <3>2 DEF Contract!Succeed
  <2> QED
    BY <2>1, <2>2, <2>3 DEF ServerKeeps
<1>4. UNCHANGED <<ReceiverResult, body>> \/ Contract!GiveUp
  <2>1. CASE UNCHANGED phase
    BY <2>1 DEF ReceiverResult, ClientKeeps
  <2>2. CASE waitingForBlocks /\ phase' \in {"requesting", "receiving", "failed"}
    <3>1. ReceiverResult = "pending" /\ ReceiverResult' \in {"pending", "error"}
      BY <1>1, <2>2 DEF ReceiverResult, waitingForBlocks, DownloadTypeOK
    <3> QED
      BY <3>1 DEF ClientKeeps, Contract!GiveUp
  <2> QED
    BY <2>1, <2>2 DEF ClientKeeps
<1>5. ~(ReceiverResult = "ok" /\ Contract!GiveUp)
  BY DEF Contract!GiveUp
<1> QED
  BY <1>3, <1>4, <1>5 DEF ContractStep, Contract!TransferNext

LEMMA KeptInv ==
    ASSUME DownloadInv, FaultTypeOK', ClientKeeps, ServerKeeps
    PROVE  DownloadInv' /\ ContractStep
<1> USE DEF DownloadInv
<1>1. /\ \A m \in Request : m.kind = "Request"
      /\ \A m \in EmptyAck : m.kind = "EmptyAck"
      /\ \A b \in Block : ContinueAck(b).kind = "Continue"
  BY DEF Request, EmptyAck, ContinueAck
<1>2. ArqTypeOK' /\ ArqTypeOK
  BY DEF ServerKeeps, ArqInv
<1>3. toClient' \in SUBSET (EmptyAck \cup Block2)
  BY DEF ServerKeeps, DownloadTypeOK, Block2
<1>4. toServer' \in SUBSET (Request \cup BlockAck)
  BY DEF ClientKeeps, DownloadTypeOK
<1>5. DownloadTypeOK'
  BY <1>2, <1>3, <1>4 DEF DownloadTypeOK, ClientKeeps
<1>6. TotalIsKnown' /\ FirstRequest'
  BY DEF TotalIsKnown, FirstRequest, ClientKeeps
<1>7. ContinuedAreBuffered'
  <2>1. Continued' \in SUBSET Continued
    BY <1>1 DEF Continued, ClientKeeps, ServerKeeps
  <2>2. waitingForBlocks' => waitingForBlocks
    BY DEF ClientKeeps, waitingForBlocks
  <2>3. Continued \in SUBSET Block
    BY <1>2 DEF Continued, ArqTypeOK
  <2> QED
    BY <2>1, <2>2, <2>3 DEF ContinuedAreBuffered, ClientKeeps
<1>8. EmptyMeansDelivered'
  <2>1. phase' = "done" <=> phase = "done"
    BY DEF ClientKeeps, waitingForBlocks
  <2>2. \A m \in toServer' : m.kind = "Empty" => m \in toServer
    BY <1>1 DEF ClientKeeps
  <2> QED
    BY <2>1, <2>2 DEF EmptyMeansDelivered, ClientKeeps, ServerKeeps
<1>9. OnlySentTravel'
  <2>1. \A i \in Block : attempts[i] \in Nat /\ attempts'[i] \in Nat /\ attempts'[i] >= attempts[i]
    BY <1>2 DEF ServerKeeps, ArqTypeOK
  <2>2. ASSUME NEW m \in toClient', m.kind = "Block2" PROVE attempts'[m.block] > 0
    <3>1. CASE m \in toClient
      <4>1. m.block \in Block
        BY <1>1, <2>2, <3>1 DEF DownloadTypeOK, Block2
      <4> QED
        BY <2>1, <2>2, <3>1, <4>1 DEF OnlySentTravel
    <3>2. CASE \E i \in Block : attempts'[i] > 0 /\ m = [kind |-> "Block2", block |-> i]
      BY <3>2
    <3> QED
      BY <1>1, <2>2, <3>1, <3>2 DEF ServerKeeps
  <2>3. ASSUME NEW m \in toServer', m.kind = "Continue" PROVE attempts'[m.block] > 0
    <3>1. m \in toServer
      BY <1>1, <2>3 DEF ClientKeeps
    <3>2. m.block \in Block
      BY <1>1, <2>3, <3>1 DEF DownloadTypeOK, BlockAck
    <3> QED
      BY <2>1, <2>3, <3>1, <3>2 DEF OnlySentTravel
  <2>4. \A b \in buf' : attempts'[b] > 0
    BY <2>1 DEF OnlySentTravel, ClientKeeps, DownloadTypeOK
  <2> QED
    BY <2>2, <2>3, <2>4 DEF OnlySentTravel
<1> QED
  BY <1>5, <1>6, <1>7, <1>8, <1>9, KeptStep DEF ServerKeeps

-----------------------------------------------------------------------------
(* The parts of a step.                                                    *)
LEMMA ServerSame ==
    ASSUME DownloadInv, UNCHANGED arqVars, toClient' \in SUBSET toClient
    PROVE  ServerKeeps
<1>1. ArqInv'
  BY NextInv DEF DownloadInv
<1>2. acked' \in SUBSET Continued
  BY DEF arqVars, Continued
<1>3. \A i \in Block : attempts'[i] >= attempts[i]
  BY DEF arqVars, DownloadInv, ArqInv, ArqTypeOK
<1>4. status' = "done" => phase = "done"
  BY DEF arqVars, DownloadInv, EmptyMeansDelivered
<1>5. UNCHANGED <<status, attempts>>
  BY DEF arqVars
<1> QED
  BY <1>1, <1>2, <1>3, <1>4, <1>5 DEF ServerKeeps

(* sendPacketsToAddr, after what it follows.                               *)
LEMMA SendKeeps ==
    ASSUME DownloadInv, ArqInv', acked' \in SUBSET Continued,
           NEW late \in SUBSET Block, NEW ov \in Int,
           Send(late, acked', shift', relative_shift', windowsize', ov),
           status \in {"idle", "sending"},
           NEW also \in SUBSET EmptyAck, NEW due, blocksSent(also, due)
    PROVE  ServerKeeps
<1>1. ArqTypeOK /\ ArqTypeOK'
  BY DEF DownloadInv, ArqInv
<1>2. /\ acked' \in SUBSET Block /\ shift' \in 0 .. NumBlocks
      /\ relative_shift' \in Nat /\ windowsize' \in Nat
  BY <1>1 DEF ArqTypeOK
<1>3. /\ \A i \in Block : attempts'[i] >= attempts[i]
      /\ Burst \in SUBSET Block
      /\ \A i \in Burst : attempts'[i] > 0
      /\ status' \in {"sending", "failed"}
  BY <1>1, <1>2, SendBurst
<1>4. ASSUME NEW m \in toClient'
      PROVE  \/ m \in toClient \cup EmptyAck
             \/ \E i \in Block : attempts'[i] > 0 /\ m = [kind |-> "Block2", block |-> i]
  BY <1>3 DEF blocksSent
<1> QED
  BY <1>3, <1>4 DEF ServerKeeps

LEMMA ClientSame ==
    ASSUME DownloadInv, UNCHANGED clientVars, toServer' \in SUBSET toServer
    PROVE  ClientKeeps
  BY DEF DownloadInv, DownloadTypeOK, FirstRequest, clientVars, ClientKeeps

LEMMA FaultsSame ==
    ASSUME DownloadInv, UNCHANGED faultVars
    PROVE  FaultTypeOK'
  BY DEF DownloadInv, DownloadTypeOK, FaultTypeOK, faultVars

LEMMA FaultsTaken ==
    ASSUME DownloadInv, NEW flight, NEW flight_, NEW m, TakeFrom(flight, flight_, m),
           UNCHANGED losses
    PROVE  FaultTypeOK' /\ m \in flight /\ flight_ \in SUBSET flight
  BY Taken DEF DownloadInv, DownloadTypeOK, FaultTypeOK

LEMMA ServerTimeoutKeeps ==
    ASSUME DownloadInv, serverTimeout
    PROVE  ServerKeeps
<1>1. ArqInv'
  BY TimeoutInv DEF DownloadInv, serverTimeout
<1>2. /\ acked' = acked
      /\ Send(Block, acked', shift', relative_shift', windowsize', overflowIndicator)
      /\ blocksSent({}, Block)
      /\ status \in {"idle", "sending"}
  BY DEF serverTimeout, ArqTimeout
<1>3. overflowIndicator \in Int
  BY DEF DownloadInv, ArqInv, ArqTypeOK
<1> QED
  BY <1>1, <1>2, <1>3, SendKeeps DEF Continued

LEMMA ClientTimeoutKeeps ==
    ASSUME DownloadInv, clientTimeout
    PROVE  ClientKeeps
<1>1. DownloadTypeOK /\ FirstRequest
  BY DEF DownloadInv
<1> QED
  BY <1>1 DEF clientTimeout, writeRequest, countTimeout, DownloadTypeOK, FirstRequest,
              waitingForBlocks, ClientKeeps

-----------------------------------------------------------------------------
(* The steps of the server.                                                *)
LEMMA HandlerRespondsInv ==
    ASSUME DownloadInv, HandlerResponds
    PROVE  DownloadInv' /\ ContractStep
<1>1. PICK m \in Request : TakeFrom(toServer, toServer', m)
  BY DEF HandlerResponds
<1>2. FaultTypeOK' /\ toServer' \in SUBSET toServer
  BY <1>1, FaultsTaken DEF HandlerResponds
<1>3. ClientKeeps
  BY <1>2, ClientSame DEF HandlerResponds
<1>4. ArqInv'
  BY StartInv DEF DownloadInv, HandlerResponds
<1>5. /\ acked' = acked
      /\ Send({}, acked', shift', relative_shift', windowsize', overflowIndicator)
      /\ blocksSent(EmptyAck, {})
      /\ status \in {"idle", "sending"}
  BY DEF HandlerResponds, ArqStart
<1>6. overflowIndicator \in Int
  BY DEF DownloadInv, ArqInv, ArqTypeOK
<1>7. ServerKeeps
  BY <1>4, <1>5, <1>6, SendKeeps DEF Continued
<1> QED
  BY <1>2, <1>3, <1>7, KeptInv

LEMMA ServerIgnoresInv ==
    ASSUME DownloadInv, ServerIgnores
    PROVE  DownloadInv' /\ ContractStep
<1>1. PICK m \in toServer : TakeFrom(toServer, toServer', m)
  BY DEF ServerIgnores
<1>2. FaultTypeOK' /\ toServer' \in SUBSET toServer
  BY <1>1, FaultsTaken DEF ServerIgnores
<1> QED
  BY <1>2, ClientSame, ServerSame, KeptInv DEF ServerIgnores

LEMMA ServerAckInv ==
    ASSUME DownloadInv, ServerAck
    PROVE  DownloadInv' /\ ContractStep
<1>1. PICK m \in toServer \cap BlockAck :
          /\ TakeFrom(toServer, toServer', m)
          /\ \/ /\ m.kind = "Continue"
                /\ \E late \in SUBSET Block : ArqContinue(m.block, late)
             \/ m.kind = "Empty" /\ ArqFinal
  BY DEF ServerAck
<1>2. FaultTypeOK' /\ toServer' \in SUBSET toServer
  BY <1>1, FaultsTaken DEF ServerAck
<1>3. ClientKeeps
  BY <1>2, ClientSame DEF ServerAck
<1>4. m.block \in Block /\ blocksSent({}, {})
  BY DEF BlockAck, ServerAck
<1>5. CASE m.kind = "Continue"
  <2>1. PICK late \in SUBSET Block : ArqContinue(m.block, late)
    BY <1>1, <1>5
  <2>2. attempts[m.block] > 0
    BY <1>5 DEF DownloadInv, OnlySentTravel
  <2>3. ArqInv'
    BY <1>4, <2>1, <2>2, ContinueInv DEF DownloadInv
  <2>4. acked' \in SUBSET Continued
    <3>1. m = ContinueAck(m.block)
      BY <1>5 DEF BlockAck, ContinueAck
    <3> QED
      BY <1>4, <2>1, <3>1 DEF ArqContinue, Continued
  <2>5. /\ Send(late, acked', shift', relative_shift', windowsize', OverflowAfter(m.block))
        /\ status \in {"idle", "sending"}
    BY <2>1 DEF ArqContinue
  <2>6. OverflowAfter(m.block) \in Int
    BY DEF OverflowAfter, DownloadInv, ArqInv, ArqTypeOK
  <2>7. ServerKeeps
    BY <1>4, <2>3, <2>4, <2>5, <2>6, SendKeeps
  <2> QED
    BY <1>2, <1>3, <2>7, KeptInv
<1>6. CASE m.kind = "Empty"
  <2>1. ArqFinal
    BY <1>1, <1>6
  <2>2. phase = "done"
    BY <1>6 DEF DownloadInv, EmptyMeansDelivered
  <2>3. ArqInv'
    BY <2>1, EndInv DEF DownloadInv
  <2>4. UNCHANGED <<acked, attempts>> /\ status = "sending" /\ status' = "done"
    BY <2>1 DEF ArqFinal
  <2>5. Burst = {}
    BY <2>4 DEF Burst
  <2>6. toClient' \in SUBSET toClient
    BY <1>4, <2>5 DEF blocksSent
  <2>7. ServerKeeps
    BY <2>2, <2>3, <2>4, <2>6 DEF ServerKeeps, Continued, DownloadInv, ArqInv, ArqTypeOK
  <2> QED
    BY <1>2, <1>3, <2>7, KeptInv
<1> QED
  BY <1>1, <1>5, <1>6

-----------------------------------------------------------------------------
(* The steps of the client, and of the network.                            *)
LEMMA ClientSendInv ==
    ASSUME DownloadInv, ClientSend
    PROVE  DownloadInv' /\ ContractStep
<1>1. FaultTypeOK' /\ ServerKeeps
  BY FaultsSame, ServerSame DEF ClientSend
<1>2. ClientKeeps
  BY DEF ClientSend, writeRequest, DownloadInv, DownloadTypeOK, FirstRequest,
         waitingForBlocks, ClientKeeps
<1> QED
  BY <1>1, <1>2, KeptInv

(* A timeout of either side, or of both.                                   *)
LEMMA TimeoutStepInv ==
    ASSUME DownloadInv, ServerTimeout \/ ClientTimeout \/ QuietTimeout
    PROVE  DownloadInv' /\ ContractStep
<1>1. FaultTypeOK'
  BY FaultsSame DEF ServerTimeout, ClientTimeout, QuietTimeout
<1>2. ServerKeeps
  BY ServerTimeoutKeeps, ServerSame DEF ServerTimeout, ClientTimeout, QuietTimeout
<1>3. ClientKeeps
  BY ClientTimeoutKeeps, ClientSame DEF ServerTimeout, ClientTimeout, QuietTimeout
<1> QED
  BY <1>1, <1>2, <1>3, KeptInv

LEMMA ClientReadErrorInv ==
    ASSUME DownloadInv, ClientReadError
    PROVE  DownloadInv' /\ ContractStep
<1>1. FaultTypeOK' /\ ServerKeeps
  BY FaultsSame, ServerSame DEF ClientReadError, netVars
<1>2. ClientKeeps
  BY DEF ClientReadError, netVars, DownloadInv, DownloadTypeOK, waitingForBlocks, ClientKeeps
<1> QED
  BY <1>1, <1>2, KeptInv

LEMMA ClientEmptyAckInv ==
    ASSUME DownloadInv, ClientEmptyAck
    PROVE  DownloadInv' /\ ContractStep
<1>1. PICK m \in EmptyAck : TakeFrom(toClient, toClient', m)
  BY DEF ClientEmptyAck
<1>2. FaultTypeOK' /\ toClient' \in SUBSET toClient
  BY <1>1, FaultsTaken DEF ClientEmptyAck
<1>3. ServerKeeps
  BY <1>2, ServerSame DEF ClientEmptyAck
<1>4. ClientKeeps
  BY DEF ClientEmptyAck, DownloadInv, DownloadTypeOK, waitingForBlocks, ClientKeeps
<1> QED
  BY <1>2, <1>3, <1>4, KeptInv

LEMMA ClientGoneInv ==
    ASSUME DownloadInv, ClientGone
    PROVE  DownloadInv' /\ ContractStep
<1>1. PICK m \in toClient : TakeFrom(toClient, toClient', m)
  BY DEF ClientGone
<1>2. FaultTypeOK' /\ toClient' \in SUBSET toClient
  BY <1>1, FaultsTaken DEF ClientGone
<1> QED
  BY <1>2, ServerSame, ClientSame, KeptInv DEF ClientGone

LEMMA LoseInv ==
    ASSUME DownloadInv, Lose
    PROVE  DownloadInv' /\ ContractStep
<1>1. FaultTypeOK'
  BY DEF Lose, LoseDatagram, DownloadInv, DownloadTypeOK, FaultTypeOK
<1>2. toServer' \in SUBSET toServer /\ toClient' \in SUBSET toClient
  BY DEF Lose, LoseDatagram
<1> QED
  BY <1>1, <1>2, ServerSame, ClientSame, KeptInv DEF Lose

(* The one step that changes what the client has.  A block that completes  *)
(* the payload was not buffered before, so it has no Continue and will     *)
(* have none.                                                              *)
LEMMA ReceiveInv ==
    ASSUME DownloadInv, UNCHANGED <<arqVars, blockwise, orderly, requestAttempts, timeouts>>,
           FaultTypeOK', toClient' \in SUBSET toClient,
           NEW b \in Block, attempts[b] > 0,
           phase \in {"requesting", "receiving"}, receiveARQBlock2(b)
    PROVE  DownloadInv' /\ ContractStep
<1> USE DEF DownloadInv
<1> DEFINE end == Complete(totalBlocks', buf')
           ack == [kind |-> ackKind(end, b), block |-> b]
<1>1. buf' = buf \cup {b} /\ totalBlocks' = TotalAfter(totalBlocks, b)
  BY DEF receiveARQBlock2
<1>2. buf' \in SUBSET Block /\ buf \in SUBSET Block
  BY <1>1 DEF DownloadTypeOK
<1>3. TotalIsKnown'
  BY <1>1, <1>2 DEF TotalIsKnown, TotalAfter, MoreBlocks
<1>4. /\ end <=> buf' = Block
      /\ end => assembleBlocks(buf', totalBlocks') = Block
  BY <1>2, <1>3, CompleteIsBlock DEF TotalIsKnown
<1>5. \/ /\ toServer' = toServer \cup {ack}
         /\ phase' = IF end THEN "done" ELSE "receiving"
         /\ body' = IF end THEN assembleBlocks(buf', totalBlocks') ELSE body
      \/ phase' = "failed" /\ UNCHANGED <<toServer, body>>
  BY <1>1 DEF receiveARQBlock2
<1>6. /\ ack.kind = IF end THEN "Empty" ELSE "Continue"
      /\ ack.block = b
      /\ ack \in BlockAck
  BY DEF ackKind, BlockAck
<1> HIDE DEF end, ack
<1>7. ServerKeeps
  BY ServerSame
<1>8. DownloadTypeOK'
  <2>1. toServer' \in SUBSET (Request \cup BlockAck)
    BY <1>5, <1>6 DEF DownloadTypeOK
  <2>2. body' \in SUBSET Block
    BY <1>4, <1>5 DEF DownloadTypeOK
  <2>3. phase' \in {"done", "receiving", "failed"}
    BY <1>5
  <2>4. totalBlocks' \in {-1, NumBlocks}
    BY <1>3 DEF TotalIsKnown
  <2> QED
    BY <1>2, <1>7, <2>1, <2>2, <2>3, <2>4 DEF DownloadTypeOK, ServerKeeps, ArqInv
<1>9. ContinuedAreBuffered'
  <2>1. Continued' \in SUBSET (Continued \cup (IF end THEN {} ELSE {b}))
    BY <1>5, <1>6 DEF Continued, ContinueAck, arqVars
  <2>2. Continued \in SUBSET buf /\ buf # Block
    BY DEF ContinuedAreBuffered, waitingForBlocks
  <2>3. CASE end
    <3>1. b \notin Continued
      BY <1>1, <1>2, <1>4, <2>2, <2>3
    <3> QED
      BY <1>1, <1>5, <2>1, <2>2, <2>3, <3>1 DEF ContinuedAreBuffered, waitingForBlocks
  <2>4. CASE ~end
    <3>1. Continued' \in SUBSET buf'
      BY <1>1, <2>1, <2>2
    <3>2. buf' \in SUBSET Block /\ buf' # Block
      BY <1>2, <1>4, <2>4
    <3>3. Continued' # Block
      BY <3>1, <3>2
    <3> QED
      BY <3>1, <3>2, <3>3 DEF ContinuedAreBuffered
  <2> QED
    BY <2>3, <2>4
<1>10. EmptyMeansDelivered'
  <2>1. phase # "done" /\ status # "done" /\ \A m \in toServer : m.kind # "Empty"
    BY DEF EmptyMeansDelivered
  <2>2. status' # "done"
    BY <2>1 DEF arqVars
  <2>3. phase' = "done" => end /\ body' = Block
    BY <1>4, <1>5
  <2>4. \A m \in toServer' : m.kind = "Empty" => phase' = "done"
    BY <1>5, <1>6, <2>1
  <2> QED
    BY <2>2, <2>3, <2>4 DEF EmptyMeansDelivered
<1>11. OnlySentTravel'
  <2>1. UNCHANGED attempts
    BY DEF arqVars
  <2>2. \A m \in toServer' : m.kind = "Continue" => attempts'[m.block] > 0
    BY <1>5, <1>6, <2>1 DEF OnlySentTravel
  <2> QED
    BY <1>1, <2>1, <2>2 DEF OnlySentTravel
<1>12. FirstRequest'
  BY <1>5 DEF FirstRequest
<1>13. ContractStep
  <2>1. UNCHANGED <<SentBlocks, SenderResult>>
    BY DEF SentBlocks, SenderResult, arqVars
  <2>2. ReceiverResult = "pending"
    BY DEF ReceiverResult
  <2>3. CASE end /\ phase' = "done"
    <3>1. ReceiverResult' = "ok" /\ body' = Block
      BY <1>4, <1>5, <2>3 DEF ReceiverResult
    <3>2. SentBlocks = Block
      BY <1>1, <1>4, <2>3 DEF OnlySentTravel, SentBlocks
    <3> QED
      BY <2>1, <2>2, <3>1, <3>2 DEF ContractStep, Contract!TransferNext, Contract!Receive
  <2>4. CASE phase' = "receiving" /\ UNCHANGED body
    BY <2>1, <2>2, <2>4 DEF ContractStep, ReceiverResult
  <2>5. CASE phase' = "failed" /\ UNCHANGED body
    <3>1. ReceiverResult' = "error"
      BY <2>5 DEF ReceiverResult
    <3> QED
      BY <2>1, <2>2, <2>5, <3>1 DEF ContractStep, Contract!TransferNext, Contract!GiveUp
  <2> QED
    BY <1>5, <2>3, <2>4, <2>5
<1> QED
  BY <1>3, <1>7, <1>8, <1>9, <1>10, <1>11, <1>12, <1>13 DEF ServerKeeps

LEMMA ClientBlockInv ==
    ASSUME DownloadInv, ClientBlock
    PROVE  DownloadInv' /\ ContractStep
<1>1. PICK b \in Block :
          /\ TakeFrom(toClient, toClient', [kind |-> "Block2", block |-> b])
          /\ \/ /\ phase = "receiving" \/ (phase = "requesting" /\ ~blockwise)
                /\ receiveARQBlock2(b)
             \/ /\ phase = "requesting" /\ blockwise
                /\ UNCHANGED <<buf, totalBlocks, phase, body, toServer>>
  BY DEF ClientBlock
<1>2. UNCHANGED <<arqVars, blockwise, orderly, requestAttempts, timeouts, losses>>
  BY DEF ClientBlock
<1>3. /\ FaultTypeOK' /\ toClient' \in SUBSET toClient
      /\ [kind |-> "Block2", block |-> b] \in toClient
  BY <1>1, <1>2, FaultsTaken
<1>4. attempts[b] > 0
  BY <1>3 DEF DownloadInv, OnlySentTravel
<1>5. CASE receiveARQBlock2(b) /\ phase \in {"requesting", "receiving"}
  BY <1>2, <1>3, <1>4, <1>5, ReceiveInv
<1>6. CASE UNCHANGED <<buf, totalBlocks, phase, body, toServer>>
  BY <1>2, <1>3, <1>6, ServerSame, ClientSame, KeptInv DEF clientVars
<1> QED
  BY <1>1, <1>5, <1>6

-----------------------------------------------------------------------------
LEMMA DownloadInitInv ==
    ASSUME DownloadInit
    PROVE  DownloadInv
<1>1. ArqInv
  BY InitInv DEF DownloadInit
<1>2. DownloadTypeOK
  <2>1. FaultTypeOK /\ toServer = {} /\ toClient = {}
    BY DEF DownloadInit, NetworkInit, FaultTypeOK
  <2>2. blockwise \in BOOLEAN /\ orderly \in BOOLEAN
    BY DEF DownloadInit
  <2> QED
    BY <1>1, <2>1, <2>2 DEF DownloadInit, DownloadTypeOK, ArqInv
<1>3. TotalIsKnown /\ FirstRequest
  BY DEF DownloadInit, TotalIsKnown, FirstRequest
<1>4. Continued = {} /\ buf = {}
  BY DEF DownloadInit, ArqInit, NetworkInit, Continued
<1>5. ContinuedAreBuffered
  BY <1>4 DEF ContinuedAreBuffered
<1>6. EmptyMeansDelivered /\ OnlySentTravel
  BY DEF DownloadInit, ArqInit, NetworkInit, EmptyMeansDelivered, OnlySentTravel
<1> QED
  BY <1>1, <1>2, <1>3, <1>5, <1>6 DEF DownloadInv

LEMMA DownloadNextInv ==
    ASSUME DownloadInv, [DownloadNext]_downloadVars
    PROVE  DownloadInv' /\ ContractStep
<1>1. CASE UNCHANGED downloadVars
  <2>1. UNCHANGED <<arqVars, clientVars, toServer, toClient, faultVars>>
    BY <1>1 DEF downloadVars, netVars
  <2> QED
    BY <2>1, FaultsSame, ServerSame, ClientSame, KeptInv
<1>2. CASE DownloadNext
  BY <1>2, ClientSendInv, TimeoutStepInv, ClientReadErrorInv, HandlerRespondsInv,
     ServerIgnoresInv, ServerAckInv, ClientEmptyAckInv, ClientBlockInv, ClientGoneInv, LoseInv
     DEF DownloadNext
<1> QED
  BY <1>1, <1>2

LEMMA DownloadInvariant == DownloadSpec => []DownloadInv
<1>1. DownloadInit => DownloadInv
  BY DownloadInitInv
<1>2. DownloadInv /\ [DownloadNext]_downloadVars => DownloadInv'
  BY DownloadNextInv
<1> QED
  BY <1>1, <1>2, PTL DEF DownloadSpec

(* The window of the server, the client's place, its counts of attempts    *)
(* and timeouts, which never exceed maxSendAttempts, and the datagrams     *)
(* keep their types (transport.go:119-153, 573-585).                       *)
THEOREM DownloadTypeCorrect == DownloadSpec => []DownloadTypeOK
<1>1. DownloadInv => DownloadTypeOK
  BY DEF DownloadInv
<1> QED
  BY <1>1, DownloadInvariant, PTL

(* The client returns nothing but the whole body, once all of it was sent; *)
(* the server's sender succeeds only after that; and what either returned  *)
(* is final (transport.go:472-474, 581-595).                               *)
THEOREM DownloadRefinement == DownloadSpec => ImplementsTransfer
<1>1. DownloadInit => Contract!TransferInit
  BY DEF DownloadInit, ArqInit, Contract!TransferInit, SentBlocks, SenderResult, ReceiverResult
<1>2. DownloadInv /\ [DownloadNext]_downloadVars => ContractStep
  BY DownloadNextInv
<1> QED
  BY <1>1, <1>2, DownloadInvariant, PTL
     DEF DownloadSpec, ContractStep, ImplementsTransfer, Contract!TransferSpec

(* The body that is returned is the whole payload, in whichever order and  *)
(* however often its blocks arrived (transport.go:581-595).                *)
THEOREM BodyIsWhole == DownloadSpec => [](phase = "done" => body = Block)
<1>1. DownloadInv => (phase = "done" => body = Block)
  BY DEF DownloadInv, EmptyMeansDelivered
<1> QED
  BY <1>1, DownloadInvariant, PTL

(* sendARQBlock2ACK returns nil only when the client has the whole body    *)
(* (transport.go:472-474).                                                 *)
THEOREM SuccessIsDelivery == DownloadSpec => [](status = "done" => phase = "done")
<1>1. DownloadInv => (status = "done" => phase = "done")
  BY DEF DownloadInv, EmptyMeansDelivered
<1> QED
  BY <1>1, DownloadInvariant, PTL

(* No transfer ends because every block was acknowledged with Continue     *)
(* (transport.go:266-269): one block never is.                             *)
THEOREM NeverAllContinued == DownloadSpec => []CompletionIsNeverContinue
<1>1. DownloadInv => CompletionIsNeverContinue
  <2> SUFFICES ASSUME DownloadInv PROVE shift < NumBlocks
    BY DEF CompletionIsNeverContinue
  <2>1. shift \in 0 .. NumBlocks /\ acked \in SUBSET Block
    BY DEF DownloadInv, ArqInv, ArqTypeOK
  <2>2. acked # Block
    BY <2>1 DEF DownloadInv, ContinuedAreBuffered, Continued
  <2>3. shift = NumBlocks => acked = Block
    BY <2>1 DEF DownloadInv, ArqInv, ShiftIsFirstUnacked
  <2> QED
    BY <2>1, <2>2, <2>3
<1> QED
  BY <1>1, DownloadInvariant, PTL
=============================================================================
