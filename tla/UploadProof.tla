----------------------------- MODULE UploadProof -----------------------------
(***************************************************************************)
(* A blockwise upload keeps the contract of a request, for any number of   *)
(* blocks, any window sizes, any number of workers and localStates and any *)
(* bound on the faults of the network.                                     *)
(***************************************************************************)
EXTENDS Upload, ArqSenderProof, ExchangeProof

USE NumBlocksAssumption
    DEF netVars, faultVars, cacheVars, objectVars, handlerVars, workerVars, serverVars

(* Only blocks the client has sent travel, are held by a worker, or are    *)
(* acknowledged: what lets ArqSender's invariant, which is stated for such *)
(* acknowledgements, hold of the client here.                              *)
OnlySentTravel ==
    /\ \A b \in toServer : attempts[b] > 0
    /\ \A w \in Worker : wpc[w] # "free" => attempts[wmsg[w]] > 0
    /\ \A m \in toClient : m.code = "Continue" => attempts[m.block] > 0

UploadInv ==
    /\ ArqInv
    /\ ExchangeInv
    /\ OnlySentTravel
    /\ status = "done" => response \in Codes

-----------------------------------------------------------------------------
(* What a step does to the client's part, and to the server's.             *)
ClientEffect ==
    \/ UNCHANGED <<arqVars, response>>
    \/ /\ status \in {"idle", "sending"}
       /\ status' \in {"sending", "failed"}
       /\ UNCHANGED response
    \/ /\ status = "sending"
       /\ status' = "done"
       /\ \E m \in toClient : m.code \in Codes /\ response' = m.code

ServerEffect ==
    \/ UNCHANGED runs
    \/ registered /\ runs' = Append(runs, Block) /\ UNCHANGED <<arqVars, response>>

LEMMA TravelKept ==
    ASSUME OnlySentTravel, NetTypeOK, WorkerTypeOK, UNCHANGED <<wpc, wmsg>>,
           \A i \in Block : attempts[i] \in Nat /\ attempts'[i] \in Nat /\ attempts'[i] >= attempts[i],
           NEW burst \in SUBSET Block, \A i \in burst : attempts'[i] > 0,
           toServer' \in SUBSET (toServer \cup burst), toClient' \in SUBSET toClient
    PROVE  OnlySentTravel'
<1>1. \A b \in toServer' : attempts'[b] > 0
  BY DEF OnlySentTravel, NetTypeOK
<1>2. \A w \in Worker : wpc'[w] # "free" => attempts'[wmsg'[w]] > 0
  BY DEF OnlySentTravel, WorkerTypeOK
<1>3. \A m \in toClient' : m.code = "Continue" => attempts'[m.block] > 0
  <2>1. SUFFICES ASSUME NEW m \in toClient', m.code = "Continue" PROVE attempts'[m.block] > 0
    OBVIOUS
  <2>2. m \in toClient /\ m.block \in Block
    BY <2>1 DEF NetTypeOK, Ack
  <2> QED
    BY <2>1, <2>2 DEF OnlySentTravel
<1> QED
  BY <1>1, <1>2, <1>3 DEF OnlySentTravel

(* A step of the client that calls sendPackets.                            *)
LEMMA SendingStep ==
    ASSUME UploadInv, status \in {"idle", "sending"}, ArqInv', UNCHANGED <<serverVars, response>>,
           FaultTypeOK', toClient' \in SUBSET toClient, transmitted,
           NEW late \in SUBSET Block, NEW ak \in SUBSET Block, NEW sh \in 0 .. NumBlocks,
           NEW rel \in Nat, NEW ws \in Nat, NEW ov \in Int,
           Send(late, ak, sh, rel, ws, ov)
    PROVE  UploadInv' /\ ClientEffect /\ ServerEffect
<1>1. ArqTypeOK /\ ArqTypeOK'
  BY DEF UploadInv, ArqInv
<1>2. NetTypeOK /\ WorkerTypeOK
  BY DEF UploadInv, ExchangeInv, ExchangeTypeOK, LocalStateTypeOK
<1>3. /\ \A i \in Block : attempts'[i] >= attempts[i]
      /\ Burst \in SUBSET Block
      /\ \A i \in Burst : attempts'[i] > 0
      /\ status' \in {"sending", "failed"}
  BY <1>1, SendBurst
<1>4. \A i \in Block : attempts[i] \in Nat /\ attempts'[i] \in Nat
  BY <1>1 DEF ArqTypeOK
<1>5. OnlySentTravel'
  BY <1>2, <1>3, <1>4, TravelKept DEF UploadInv, transmitted
<1>6. toServer' \in SUBSET Block
  BY <1>2, <1>3 DEF transmitted, NetTypeOK
<1>7. ExchangeInv'
  BY <1>6, ClientStepInv DEF UploadInv
<1> QED
  BY <1>3, <1>5, <1>7 DEF UploadInv, ClientEffect, ServerEffect

(* A step of the client that sends nothing.                                *)
LEMMA QuietStep ==
    ASSUME UploadInv, ArqInv', UNCHANGED <<serverVars, toServer, attempts>>,
           FaultTypeOK', toClient' \in SUBSET toClient, ClientEffect
    PROVE  UploadInv' /\ ServerEffect
<1>1. NetTypeOK /\ WorkerTypeOK
  BY DEF UploadInv, ExchangeInv, ExchangeTypeOK, LocalStateTypeOK
<1>2. \A i \in Block : attempts[i] \in Nat
  BY DEF UploadInv, ArqInv, ArqTypeOK
<1>3. OnlySentTravel'
  <2> DEFINE burst == {}
  <2>1. /\ burst \in SUBSET Block
        /\ \A i \in burst : attempts'[i] > 0
        /\ toServer' \in SUBSET (toServer \cup burst)
    OBVIOUS
  <2>2. \A i \in Block : /\ attempts[i] \in Nat /\ attempts'[i] \in Nat
                         /\ attempts'[i] >= attempts[i]
    BY <1>2
  <2> HIDE DEF burst
  <2> QED
    BY <1>1, <2>1, <2>2, TravelKept DEF UploadInv
<1>4. toServer' \in SUBSET Block
  BY <1>1 DEF NetTypeOK
<1>5. ExchangeInv'
  BY <1>4, ClientStepInv DEF UploadInv, ClientEffect
<1>6. status' = "done" => response' \in Codes
  BY DEF UploadInv, ClientEffect, arqVars
<1> QED
  BY <1>3, <1>5, <1>6 DEF UploadInv, ServerEffect

-----------------------------------------------------------------------------
LEMMA ClientStartStep ==
    ASSUME UploadInv, ClientStart
    PROVE  UploadInv' /\ ClientEffect /\ ServerEffect
<1>1. ArqInv /\ ArqTypeOK /\ FaultTypeOK
  BY DEF UploadInv, ArqInv, ExchangeInv, ExchangeTypeOK
<1>2. ArqInv' /\ FaultTypeOK'
  BY <1>1, StartInv, FaultsSame DEF ClientStart
<1>3. /\ status = "idle"
      /\ Send({}, acked, shift, relative_shift, windowsize, overflowIndicator)
      /\ UNCHANGED <<serverVars, response, toClient>> /\ transmitted
  BY DEF ClientStart, ArqStart
<1>4. /\ {} \in SUBSET Block /\ acked \in SUBSET Block /\ shift \in 0 .. NumBlocks
      /\ relative_shift \in Nat /\ windowsize \in Nat /\ overflowIndicator \in Int
  BY <1>1, ArqAssumption DEF ArqTypeOK
<1> QED
  BY <1>2, <1>3, <1>4, SendingStep

LEMMA ClientTimeoutStep ==
    ASSUME UploadInv, ClientTimeout
    PROVE  UploadInv' /\ ClientEffect /\ ServerEffect
<1>1. ArqInv /\ ArqTypeOK /\ FaultTypeOK
  BY DEF UploadInv, ArqInv, ExchangeInv, ExchangeTypeOK
<1>2. ArqInv' /\ FaultTypeOK'
  BY <1>1, TimeoutInv, FaultsSame DEF ClientTimeout
<1>3. /\ status = "sending"
      /\ Send(Block, acked, shift, relative_shift, windowsize, overflowIndicator)
      /\ UNCHANGED <<serverVars, response, toClient>> /\ transmitted
  BY DEF ClientTimeout, ArqTimeout
<1>4. /\ Block \in SUBSET Block /\ acked \in SUBSET Block /\ shift \in 0 .. NumBlocks
      /\ relative_shift \in Nat /\ windowsize \in Nat /\ overflowIndicator \in Int
  BY <1>1, ArqAssumption DEF ArqTypeOK
<1> QED
  BY <1>2, <1>3, <1>4, SendingStep

LEMMA ClientReadErrorStep ==
    ASSUME UploadInv, ClientReadError
    PROVE  UploadInv' /\ ClientEffect /\ ServerEffect
<1>1. ArqInv /\ FaultTypeOK
  BY DEF UploadInv, ExchangeInv, ExchangeTypeOK
<1>2. ArqInv' /\ FaultTypeOK'
  BY <1>1, EndInv, FaultsSame DEF ClientReadError, exchangeVars
<1>3. ClientEffect
  BY DEF ClientReadError, ArqReadError, exchangeVars, ClientEffect
<1>4. UNCHANGED <<serverVars, toServer, attempts, toClient>>
  BY DEF ClientReadError, ArqReadError, exchangeVars
<1> QED
  BY <1>2, <1>3, <1>4, QuietStep

LEMMA ClientContinueStep ==
    ASSUME UploadInv, NEW m \in toClient, ClientContinue(m)
    PROVE  UploadInv' /\ ClientEffect /\ ServerEffect
<1>1. /\ ArqInv /\ ArqTypeOK /\ FaultTypeOK /\ NetTypeOK
  BY DEF UploadInv, ArqInv, ExchangeInv, ExchangeTypeOK, LocalStateTypeOK
<1>2. m.block \in Block /\ attempts[m.block] > 0
  BY <1>1 DEF ClientContinue, NetTypeOK, Ack, UploadInv, OnlySentTravel
<1>3. PICK late \in SUBSET Block : ArqContinue(m.block, late)
  BY DEF ClientContinue
<1>4. ArqInv'
  BY <1>1, <1>2, <1>3, ContinueInv
<1>5. toClient' \in SUBSET toClient /\ dups' \in 0 .. MaxDup
  BY <1>1, TakeFromRange DEF ClientContinue
<1>6. FaultTypeOK'
  BY <1>1, <1>5 DEF ClientContinue, FaultTypeOK
<1>7. /\ status = "sending"
      /\ Send(late, acked', shift', relative_shift', windowsize', OverflowAfter(m.block))
      /\ UNCHANGED <<serverVars, response>> /\ transmitted
  BY <1>3 DEF ClientContinue, ArqContinue
<1>8. /\ acked' \in SUBSET Block /\ shift' \in 0 .. NumBlocks
      /\ relative_shift' \in Nat /\ windowsize' \in Nat /\ OverflowAfter(m.block) \in Int
  BY <1>1, <1>2, <1>4, ArqAssumption DEF ArqInv, ArqTypeOK, OverflowAfter
<1> QED
  BY <1>4, <1>5, <1>6, <1>7, <1>8, SendingStep

LEMMA ClientResponseStep ==
    ASSUME UploadInv, NEW m \in toClient, ClientResponse(m)
    PROVE  UploadInv' /\ ClientEffect /\ ServerEffect
<1>1. ArqInv /\ FaultTypeOK
  BY DEF UploadInv, ExchangeInv, ExchangeTypeOK
<1>2. ArqInv'
  BY <1>1, EndInv DEF ClientResponse
<1>3. toClient' \in SUBSET toClient /\ dups' \in 0 .. MaxDup
  BY <1>1, TakeFromRange DEF ClientResponse
<1>4. FaultTypeOK'
  BY <1>1, <1>3 DEF ClientResponse, FaultTypeOK
<1>5. ClientEffect
  BY DEF ClientResponse, ArqFinal, ClientEffect
<1>6. UNCHANGED <<serverVars, toServer, attempts>>
  BY DEF ClientResponse, ArqFinal
<1> QED
  BY <1>2, <1>3, <1>4, <1>5, <1>6, QuietStep

-----------------------------------------------------------------------------
(* What a step of the server puts on the wire: a Continue for the block    *)
(* its worker holds, or an answer.                                         *)
LEMMA ServerTravel ==
    ASSUME serverStep, WorkerTypeOK
    PROVE  /\ UNCHANGED <<toServer, wmsg>>
           /\ \A w \in Worker : wpc'[w] # "free" => wpc[w] # "free"
           /\ \A m \in toClient' :
                 \/ m \in toClient
                 \/ m.code \in Codes
                 \/ \E w \in Worker : wpc[w] # "free" /\ m.block = wmsg[w]
<1> DEFINE Travel == /\ UNCHANGED <<toServer, wmsg>>
                     /\ \A w \in Worker : wpc'[w] # "free" => wpc[w] # "free"
                     /\ \A m \in toClient' :
                           \/ m \in toClient
                           \/ m.code \in Codes
                           \/ \E w \in Worker : wpc[w] # "free" /\ m.block = wmsg[w]
<1>1. ASSUME NEW w \in Worker,
             checkProcessed(w) \/ loadState(w) \/ (\E l \in State : storeState(w, l))
      PROVE  Travel
  BY <1>1 DEF checkProcessed, loadState, storeState, WorkerTypeOK
<1>2. ASSUME NEW w \in Worker, processMessage(w)
      PROVE  Travel
  BY <1>2 DEF processMessage, localStateReceiveARQBlock1, receiveWhole, WorkerTypeOK
<1>3. ASSUME NEW l \in State, handlerStep(l)
      PROVE  Travel
  BY <1>3 DEF handlerStep, compareAndSwap, noResource, requestOnReceive, deleteState,
              markProcessed, Codes
<1>4. CASE expireState \/ expireProcessed
  BY <1>4 DEF expireState, expireProcessed
<1> QED
  BY <1>1, <1>2, <1>3, <1>4 DEF serverStep, workerStep

LEMMA DeliverStep ==
    ASSUME UploadInv, UNCHANGED arqVars, NEW w \in Worker, NEW b \in toServer, Deliver(w, b)
    PROVE  UploadInv' /\ ClientEffect /\ ServerEffect
<1>1. ExchangeInv'
  BY DeliverInv DEF UploadInv
<1>2. NetTypeOK /\ WorkerTypeOK /\ FaultTypeOK
  BY DEF UploadInv, ExchangeInv, ExchangeTypeOK, LocalStateTypeOK
<1>3. toServer' \in SUBSET toServer
  BY <1>2, TakeFromRange DEF Deliver
<1>4. UNCHANGED <<attempts, toClient>>
  BY DEF Deliver, arqVars
<1>5. /\ wpc' = [wpc EXCEPT ![w] = "check"]
      /\ wmsg' = [wmsg EXCEPT ![w] = b]
  BY DEF Deliver, listenLoop
<1>6. OnlySentTravel'
  BY <1>2, <1>3, <1>4, <1>5 DEF OnlySentTravel, UploadInv, WorkerTypeOK
<1>7. UNCHANGED <<arqVars, response, runs>>
  BY DEF Deliver, listenLoop
<1>8. ArqInv'
  BY <1>7, NextInv DEF UploadInv
<1> QED
  BY <1>1, <1>6, <1>7, <1>8 DEF UploadInv, ClientEffect, ServerEffect, arqVars

LEMMA LoseStep ==
    ASSUME UploadInv, UNCHANGED arqVars, Lose
    PROVE  UploadInv' /\ ClientEffect /\ ServerEffect
<1>1. ExchangeInv'
  BY LoseInv DEF UploadInv
<1>2. UNCHANGED <<serverVars, response>> /\ toClient' \in SUBSET toClient
      /\ toServer' \in SUBSET toServer
  BY DEF Lose, LoseDatagram
<1>3. OnlySentTravel'
  BY <1>2 DEF OnlySentTravel, UploadInv, arqVars
<1>4. ArqInv'
  BY NextInv DEF UploadInv
<1> QED
  BY <1>1, <1>2, <1>3, <1>4 DEF UploadInv, ClientEffect, ServerEffect, arqVars

LEMMA ServerStep ==
    ASSUME UploadInv, UNCHANGED arqVars, serverStep
    PROVE  UploadInv' /\ ClientEffect /\ ServerEffect
<1>1. /\ ExchangeInv'
      /\ UNCHANGED response
      /\ UNCHANGED runs \/ (registered /\ runs' = Append(runs, Block))
  BY ServerStepInv DEF UploadInv
<1>2. WorkerTypeOK
  BY DEF UploadInv, ExchangeInv, ExchangeTypeOK, LocalStateTypeOK
<1>3. OnlySentTravel'
  BY <1>2, ServerTravel DEF OnlySentTravel, UploadInv, arqVars, Codes
<1>4. ArqInv'
  BY NextInv DEF UploadInv
<1> QED
  BY <1>1, <1>3, <1>4 DEF UploadInv, ClientEffect, ServerEffect, arqVars

(* Every step, action by action.                                           *)
LEMMA UploadStep ==
    ASSUME UploadInv, UploadNext
    PROVE  UploadInv' /\ ClientEffect /\ ServerEffect
  BY ClientStartStep, ClientTimeoutStep, ClientReadErrorStep, ClientContinueStep,
     ClientResponseStep, DeliverStep, LoseStep, ServerStep
     DEF UploadNext, clientReceive

LEMMA UploadStutter ==
    ASSUME UploadInv, UNCHANGED uploadVars
    PROVE  UploadInv'
<1>1. ArqInv /\ FaultTypeOK
  BY DEF UploadInv, ExchangeInv, ExchangeTypeOK
<1>2. ArqInv' /\ FaultTypeOK'
  BY <1>1, NextInv, FaultsSame DEF uploadVars, exchangeVars
<1>3. UNCHANGED <<serverVars, toServer, toClient, attempts>> /\ ClientEffect
  BY DEF uploadVars, exchangeVars, arqVars, ClientEffect
<1> QED
  BY <1>2, <1>3, QuietStep

LEMMA UploadInitInv ==
    ASSUME UploadInit
    PROVE  UploadInv
<1>1. ArqInv /\ ExchangeInv
  BY InitInv, ExchangeInitInv DEF UploadInit
<1>2. OnlySentTravel
  BY DEF UploadInit, ExchangeInit, NetworkInit, LocalStateInit, OnlySentTravel
<1> QED
  BY <1>1, <1>2 DEF UploadInv, UploadInit, ArqInit

LEMMA UploadInvariant == UploadSpec => []UploadInv
<1>1. UploadInit => UploadInv
  BY UploadInitInv
<1>2. UploadInv /\ [UploadNext]_uploadVars => UploadInv'
  BY UploadStep, UploadStutter
<1> QED
  BY <1>1, <1>2, PTL DEF UploadSpec

(* The client's window, the server's caches, localStates and goroutines    *)
(* and the network keep their types: windowsize stays within its limits    *)
(* and no packet exceeds maxSendAttempts, whatever arrives.                *)
THEOREM UploadTypeCorrect == UploadSpec => []UploadTypeOK
<1>1. UploadInv => UploadTypeOK
  BY DEF UploadInv, ArqInv, ExchangeInv, UploadTypeOK
<1> QED
  BY <1>1, UploadInvariant, PTL

-----------------------------------------------------------------------------
(* The refinement: a step with these effects is a step of the contract.    *)
USE DEF Contract!ContractNext, Contract!Handle, Contract!Succeed, Contract!Refuse, Contract!Fail

LEMMA EffectIsContract ==
    ASSUME UploadInv, UploadInv', ClientEffect, ServerEffect
    PROVE  Contract!ContractNext \/ UNCHANGED <<runs, Outcome>>
<1>1. CASE UNCHANGED <<arqVars, response>>
  <2>1. Outcome' = Outcome
    BY <1>1 DEF Outcome, arqVars
  <2>2. registered => Outcome # "notFound"
    BY DEF Outcome, UploadInv, ArqInv, ArqTypeOK, ExchangeInv, AnswersBacked, Codes
  <2> QED
    BY <2>1, <2>2 DEF ServerEffect
<1>2. CASE UNCHANGED runs /\ ~UNCHANGED <<arqVars, response>>
  <2>1. Outcome = "pending"
    BY <1>2 DEF ClientEffect, Outcome
  <2>2. CASE status' = "sending"
    BY <1>2, <2>1, <2>2 DEF Outcome
  <2>3. CASE status' = "failed"
    <3>1. Outcome' = "error"
      BY <2>3 DEF Outcome
    <3> QED
      BY <1>2, <2>1, <3>1
  <2>4. CASE status' = "done"
    <3>1. /\ response' = "Response" => runs # <<>>
          /\ response' = "NotFound" => runs = <<>>
      BY <1>2 DEF UploadInv, ExchangeInv, AnswersBacked
    <3>2. \/ response' = "Response" /\ Outcome' = "ok"
          \/ response' = "NotFound" /\ Outcome' = "notFound"
      BY <2>4 DEF Outcome, UploadInv, Codes
    <3> QED
      BY <1>2, <2>1, <3>1, <3>2
  <2> QED
    BY <1>2, <2>2, <2>3, <2>4 DEF ClientEffect
<1> QED
  BY <1>1, <1>2 DEF ServerEffect

(* A blockwise upload gives its caller what a request promises: the        *)
(* handler saw nothing but the whole payload, however the blocks were      *)
(* lost, repeated, reordered or buffered in several localStates, and a     *)
(* success is reported only after it ran.                                  *)
THEOREM UploadRefinement == UploadSpec => ImplementsContract
<1>1. UploadInit => Contract!ContractInit
  BY DEF UploadInit, ArqInit, ExchangeInit, LocalStateInit, Contract!ContractInit, Outcome
<1>2. ASSUME UploadInv, UploadInv', [UploadNext]_uploadVars
      PROVE  [Contract!ContractNext]_<<runs, Outcome>>
  <2>1. CASE UNCHANGED uploadVars
    BY <2>1 DEF uploadVars, arqVars, exchangeVars, Outcome
  <2>2. CASE UploadNext
    BY <1>2, <2>2, UploadStep, EffectIsContract
  <2> QED
    BY <1>2, <2>1, <2>2
<1> QED
  BY <1>1, <1>2, UploadInvariant, PTL
     DEF UploadSpec, ImplementsContract, Contract!ContractSpec

-----------------------------------------------------------------------------
(* What LoadOrStore costs.  When the datagrams of a request are handled    *)
(* one at a time, its entry does not expire and there is a resource, a     *)
(* worker that found no entry is the only one that may store one, and the  *)
(* localState a worker holds is the one in the cache.                      *)
OneAtATime ==
    /\ \A v, w \in Worker : v = w
    /\ ~StateMayExpire
    /\ Resource \in SUBSET {TRUE}

(* The blocks that the client has, or will have, a Continue for.           *)
Continued == acked \cup {b \in Block : [code |-> "Continue", block |-> b] \in toClient}

BeforeHandler ==
    /\ \A b \in Continued : storage # None /\ b \in bufBlock1[storage]
    /\ \A l \in State : stage[l] \in {"none", "handler"}
    /\ \A w \in Worker : /\ wpc[w] = "process" => wls[w] = storage
                         /\ wpc[w] = "store" => storage = None

KeptInv ==
    /\ UploadInv
    /\ registered
    /\ runs = <<>> => BeforeHandler

(* A step of the client, or of the network.                                *)
LEMMA ClientKeepsBlocks ==
    ASSUME KeptInv, UploadInv', Continued' \in SUBSET Continued,
           UNCHANGED <<cacheVars, objectVars, handlerVars>>,
           \A w \in Worker : wpc'[w] \in {wpc[w], "check"} /\ wls'[w] = wls[w]
    PROVE  KeptInv'
  BY DEF KeptInv, BeforeHandler

LEMMA ClientContinued ==
    ASSUME KeptInv, UploadInv',
           \/ ClientStart \/ ClientTimeout \/ ClientReadError \/ clientReceive
           \/ UNCHANGED arqVars /\ Lose
           \/ UNCHANGED uploadVars
    PROVE  KeptInv'
<1> DEFINE taken == {b \in Block : [code |-> "Continue", block |-> b] \in toClient}
<1>1. UNCHANGED serverVars /\ toClient' \in SUBSET toClient /\ acked' \in SUBSET (acked \cup taken)
  <2>1. CASE ClientStart \/ ClientTimeout \/ ClientReadError
    BY <2>1 DEF ClientStart, ClientTimeout, ClientReadError, ArqStart, ArqTimeout, ArqReadError,
                exchangeVars
  <2>2. CASE \E m \in toClient : ClientResponse(m)
    BY <2>2 DEF ClientResponse, ArqFinal, TakeFrom
  <2>3. ASSUME NEW m \in toClient, ClientContinue(m)
        PROVE  UNCHANGED serverVars /\ toClient' \in SUBSET toClient
               /\ acked' \in SUBSET (acked \cup taken)
    <3>1. m.code = "Continue" /\ toClient' \in SUBSET toClient /\ UNCHANGED serverVars
      BY <2>3 DEF ClientContinue, TakeFrom
    <3>2. acked' = acked \cup {m.block}
      BY <2>3 DEF ClientContinue, ArqContinue
    <3>3. m \in Ack
      BY DEF KeptInv, UploadInv, ExchangeInv, ExchangeTypeOK, LocalStateTypeOK, NetTypeOK
    <3>4. m.block \in Block /\ m = [code |-> "Continue", block |-> m.block]
      BY <3>1, <3>3 DEF Ack
    <3> QED
      BY <3>1, <3>2, <3>4
  <2>4. CASE (UNCHANGED arqVars /\ Lose) \/ UNCHANGED uploadVars
    BY <2>4 DEF Lose, LoseDatagram, uploadVars, arqVars, exchangeVars
  <2> QED
    BY <2>1, <2>2, <2>3, <2>4 DEF clientReceive
<1>2. Continued' \in SUBSET Continued
  BY <1>1 DEF Continued
<1> QED
  BY <1>1, <1>2, ClientKeepsBlocks

LEMMA DeliverKeepsBlocks ==
    ASSUME KeptInv, UploadInv', UNCHANGED arqVars,
           NEW w \in Worker, NEW b \in toServer, Deliver(w, b)
    PROVE  KeptInv'
<1>1. UNCHANGED <<cacheVars, objectVars, handlerVars, wls, toClient, acked>>
      /\ wpc' = [wpc EXCEPT ![w] = "check"]
  BY DEF Deliver, listenLoop, arqVars
<1>2. WorkerTypeOK
  BY DEF KeptInv, UploadInv, ExchangeInv, ExchangeTypeOK, LocalStateTypeOK
<1>3. \A v \in Worker : wpc'[v] \in {wpc[v], "check"} /\ wls'[v] = wls[v]
  BY <1>1, <1>2 DEF WorkerTypeOK
<1>4. Continued' \in SUBSET Continued
  BY <1>1 DEF Continued
<1> QED
  BY <1>1, <1>3, <1>4, ClientKeepsBlocks

(* A step of the server.  Only processMessage acknowledges a block, and it *)
(* has put the block into the localState of the cache.                     *)
LEMMA ServerKeepsBlocks ==
    ASSUME OneAtATime, KeptInv, UploadInv', UNCHANGED arqVars, serverStep, runs' = <<>>
    PROVE  BeforeHandler' /\ registered'
<1>1. /\ ObjectTypeOK /\ HandlerTypeOK /\ WorkerTypeOK /\ CacheTypeOK /\ WorkersHaveState
  BY DEF KeptInv, UploadInv, ExchangeInv, ExchangeTypeOK, LocalStateTypeOK
<1>2. registered' /\ registered
  BY ServerStepInv DEF KeptInv, UploadInv
<1>3. runs = <<>>
  <2>1. UNCHANGED runs \/ runs' = Append(runs, Block)
    BY ServerStepInv DEF KeptInv, UploadInv
  <2>2. runs \in Seq(SUBSET Block)
    BY <1>1 DEF HandlerTypeOK
  <2> QED
    BY <2>1, <2>2
<1>4. BeforeHandler
  BY <1>3 DEF KeptInv
<1>5. UNCHANGED acked
  BY DEF arqVars
<1> USE DEF BeforeHandler
<1>6. ASSUME NEW w \in Worker, checkProcessed(w) \/ loadState(w)
      PROVE  BeforeHandler'
  <2>1. UNCHANGED <<netVars, cacheVars, objectVars, handlerVars>>
    BY <1>6 DEF checkProcessed, loadState
  <2>2. \A v \in Worker : /\ wpc'[v] = "process" => wls'[v] = storage
                          /\ wpc'[v] = "store" => storage = None
    BY <1>1, <1>4, <1>6 DEF OneAtATime, checkProcessed, loadState, WorkerTypeOK
  <2> QED
    BY <1>4, <1>5, <2>1, <2>2 DEF Continued
<1>7. ASSUME NEW w \in Worker, NEW l \in State, storeState(w, l)
      PROVE  BeforeHandler'
  <2>1. storage = None
    BY <1>4, <1>7 DEF storeState
  <2>2. Continued = {} /\ UNCHANGED Continued
    BY <1>4, <1>5, <1>7, <2>1 DEF Continued, storeState
  <2>3. \A k \in State : stage'[k] \in {"none", "handler"}
    BY <1>1, <1>4, <1>7 DEF storeState, HandlerTypeOK
  <2>4. \A v \in Worker : v = w /\ wpc'[v] = "process" /\ wls'[v] = storage'
    BY <1>1, <1>7 DEF OneAtATime, storeState, WorkerTypeOK
  <2> QED
    BY <2>2, <2>3, <2>4
<1>8. ASSUME NEW w \in Worker, processMessage(w)
      PROVE  BeforeHandler'
  <2> DEFINE l == wls[w]
             b == wmsg[w]
  <2>1. l = storage /\ l \in State /\ storage # None /\ b \in Block
    BY <1>1, <1>4, <1>8, LocalStateAssumption DEF processMessage, WorkersHaveState, WorkerTypeOK
  <2>2. \/ UNCHANGED toClient /\ \A k \in State : bufBlock1[k] \in SUBSET bufBlock1'[k]
        \/ /\ toClient' = toClient \cup {[code |-> "Continue", block |-> b]}
           /\ bufBlock1' = [bufBlock1 EXCEPT ![l] = bufBlock1[l] \cup {b}]
    BY <1>1, <1>8, <2>1 DEF processMessage, localStateReceiveARQBlock1, receiveWhole, ObjectTypeOK
  <2>3. UNCHANGED <<storage, stage>>
    BY <1>8 DEF processMessage
  <2>4. \A v \in Worker : wpc'[v] = "free"
    BY <1>1, <1>8 DEF OneAtATime, processMessage, WorkerTypeOK
  <2>5. \A c \in Continued' : c \in Continued \/ (c = b /\ b \in bufBlock1'[storage])
    BY <1>1, <1>5, <2>1, <2>2 DEF Continued, ObjectTypeOK
  <2>6. bufBlock1[storage] \in SUBSET bufBlock1'[storage]
    BY <1>1, <2>1, <2>2 DEF ObjectTypeOK
  <2> HIDE DEF l, b
  <2> QED
    BY <1>4, <2>1, <2>3, <2>4, <2>5, <2>6
<1>9. ASSUME NEW l \in State, NEW p \in SUBSET Block, compareAndSwap(l, p)
      PROVE  BeforeHandler'
  <2>1. \A k \in State : stage'[k] \in {"none", "handler"}
    BY <1>1, <1>4, <1>9 DEF compareAndSwap, HandlerTypeOK
  <2> QED
    BY <1>4, <1>5, <1>9, <2>1 DEF compareAndSwap, Continued
<1>10. ASSUME NEW l \in State, noResource(l) \/ \E o \in HandlerOutcomes : requestOnReceive(l, o)
       PROVE  FALSE
  <2>1. runs \in Seq(SUBSET Block)
    BY <1>1 DEF HandlerTypeOK
  <2> QED
    BY <1>2, <1>10, <2>1 DEF noResource, requestOnReceive
<1>11. ASSUME NEW l \in State, deleteState(l) \/ markProcessed(l)
       PROVE  FALSE
  BY <1>4, <1>11 DEF deleteState, markProcessed
<1>12. CASE expireState
  BY <1>12 DEF expireState, OneAtATime
<1>13. CASE expireProcessed
  <2>1. UNCHANGED <<toClient, storage, bufBlock1, stage, wpc, wls>>
    BY <1>13 DEF expireProcessed
  <2>2. UNCHANGED Continued
    BY <1>5, <2>1 DEF Continued
  <2> QED
    BY <1>2, <1>4, <2>1, <2>2
<1> QED
  BY <1>2, <1>6, <1>7, <1>8, <1>9, <1>10, <1>11, <1>12, <1>13
     DEF serverStep, workerStep, handlerStep

LEMMA KeptNextInv ==
    ASSUME OneAtATime, KeptInv, [UploadNext]_uploadVars
    PROVE  KeptInv'
<1>1. UploadInv'
  BY UploadStep, UploadStutter DEF KeptInv
<1>2. CASE UNCHANGED arqVars /\ serverStep
  BY <1>1, <1>2, ServerKeepsBlocks, ServerStepInv DEF KeptInv, UploadInv
<1>3. CASE UNCHANGED arqVars /\ \E w \in Worker, b \in toServer : Deliver(w, b)
  BY <1>1, <1>3, DeliverKeepsBlocks
<1>4. CASE \/ ClientStart \/ ClientTimeout \/ ClientReadError \/ clientReceive
           \/ UNCHANGED arqVars /\ Lose
           \/ UNCHANGED uploadVars
  BY <1>1, <1>4, ClientContinued
<1> QED
  BY <1>2, <1>3, <1>4 DEF UploadNext

(* A block the client will not send again is not lost: it is in the buffer *)
(* that later blocks find, or the payload was handled (transport.go:379    *)
(* against localstate.go:164 and storage.go:74-91).  With two goroutines   *)
(* at work on a request it may be: that is the race in LoadOrStore.        *)
THEOREM AckedBlocksStay ==
    ASSUME OneAtATime
    PROVE  UploadSpec => []AckedBlocksKept
<1>1. UploadInit => KeptInv
  <2> SUFFICES ASSUME UploadInit PROVE KeptInv
    OBVIOUS
  <2>1. UploadInv
    BY UploadInitInv
  <2>2. registered
    BY DEF OneAtATime, UploadInit, ExchangeInit, LocalStateInit
  <2>3. BeforeHandler
    BY DEF UploadInit, ArqInit, ExchangeInit, LocalStateInit, NetworkInit, BeforeHandler, Continued
  <2> QED
    BY <2>1, <2>2, <2>3 DEF KeptInv
<1>2. KeptInv /\ [UploadNext]_uploadVars => KeptInv'
  BY KeptNextInv
<1>3. KeptInv => AckedBlocksKept
  BY DEF KeptInv, BeforeHandler, Continued, AckedBlocksKept
<1> QED
  BY <1>1, <1>2, <1>3, PTL DEF UploadSpec
-----------------------------------------------------------------------------
(* How often the handler runs.  A datagram of a block is delivered at most *)
(* as often as it was sent, and once more for every duplicate; it counts   *)
(* towards one run.                                                        *)
Overdrawn == {b \in Block : Used(b) > attempts[b]}

PaidInv ==
    /\ UploadInv
    /\ CasCloses
    /\ Cardinality(Overdrawn) <= dups

(* What a step of the client does to the network.                          *)
ClientStep == ClientStart \/ ClientTimeout \/ ClientReadError \/ clientReceive

LEMMA ClientSends ==
    ASSUME UploadInv, ClientStep
    PROVE  /\ UNCHANGED <<serverVars, losses>>
           /\ dups' \in Nat /\ dups' >= dups
           /\ toServer' \subseteq toServer \cup Burst
           /\ \A b \in Block : attempts'[b] \in Nat /\ attempts'[b] >= attempts[b]
<1>1. /\ ArqInv /\ ArqTypeOK /\ FaultTypeOK /\ NetTypeOK /\ \A b \in Block : attempts[b] \in Nat
  BY DEF UploadInv, ArqInv, ArqTypeOK, ExchangeInv, ExchangeTypeOK, LocalStateTypeOK
<1>2. UploadInv'
  BY UploadStep DEF ClientStep, UploadNext
<1>3. ArqTypeOK' /\ \A b \in Block : attempts'[b] \in Nat
  BY <1>2 DEF UploadInv, ArqInv, ArqTypeOK
<1>4. dups' \in Nat /\ dups \in Nat
  BY <1>1, <1>2, NetworkAssumption DEF UploadInv, ExchangeInv, ExchangeTypeOK, FaultTypeOK
<1>5. CASE ClientStart \/ ClientTimeout
  <2>1. /\ UNCHANGED <<serverVars, losses, dups>>
        /\ toServer' \subseteq toServer \cup Burst
    BY <1>5 DEF ClientStart, ClientTimeout, transmitted
  <2>2. \E late \in SUBSET Block :
           Send(late, acked, shift, relative_shift, windowsize, overflowIndicator)
    BY <1>5 DEF ClientStart, ClientTimeout, ArqStart, ArqTimeout
  <2>3. /\ acked \in SUBSET Block /\ shift \in 0 .. NumBlocks
        /\ relative_shift \in Nat /\ windowsize \in Nat /\ overflowIndicator \in Int
    BY <1>1, ArqAssumption DEF ArqTypeOK
  <2>4. \A b \in Block : attempts'[b] >= attempts[b]
    BY <1>1, <2>2, <2>3, SendBurst
  <2> QED
    BY <1>3, <1>4, <2>1, <2>4
<1>6. CASE ClientReadError
  <2>1. UNCHANGED <<serverVars, losses, dups, toServer, attempts>>
    BY <1>6 DEF ClientReadError, ArqReadError, exchangeVars
  <2> QED
    BY <1>1, <1>4, <2>1
<1>7. ASSUME NEW m \in toClient, ClientContinue(m)
      PROVE  /\ UNCHANGED <<serverVars, losses>>
             /\ dups' >= dups
             /\ toServer' \subseteq toServer \cup Burst
             /\ \A b \in Block : attempts'[b] >= attempts[b]
  <2>1. /\ UNCHANGED <<serverVars, losses>>
        /\ dups' >= dups
        /\ toServer' \subseteq toServer \cup Burst
    BY <1>4, <1>7 DEF ClientContinue, TakeFrom, transmitted
  <2>2. PICK late \in SUBSET Block :
           Send(late, acked', shift', relative_shift', windowsize', OverflowAfter(m.block))
    BY <1>7 DEF ClientContinue, ArqContinue
  <2>3. m.block \in Block
    BY <1>7 DEF ClientContinue, ArqContinue
  <2>4. /\ acked' \in SUBSET Block /\ shift' \in 0 .. NumBlocks
        /\ relative_shift' \in Nat /\ windowsize' \in Nat /\ OverflowAfter(m.block) \in Int
    BY <1>1, <1>3, <2>3, ArqAssumption DEF ArqTypeOK, OverflowAfter
  <2> QED
    BY <1>1, <2>1, <2>2, <2>4, SendBurst
<1>8. ASSUME NEW m \in toClient, ClientResponse(m)
      PROVE  /\ UNCHANGED <<serverVars, losses, toServer, attempts>>
             /\ dups' >= dups
  BY <1>4, <1>8 DEF ClientResponse, ArqFinal, TakeFrom
<1> QED
  BY <1>1, <1>3, <1>4, <1>5, <1>6, <1>7, <1>8 DEF ClientStep, clientReceive

LEMMA UsedRange ==
    ASSUME UploadInv
    PROVE  /\ HandlerTypeOK
           /\ \A b \in Block : Used(b) \in Nat /\ attempts[b] \in Nat
           /\ IsFiniteSet(Overdrawn) /\ Cardinality(Overdrawn) \in Nat
           /\ dups \in Nat
<1>1. HandlerTypeOK
  BY DEF UploadInv, ExchangeInv, ExchangeTypeOK, LocalStateTypeOK
<1>2. \A b \in Block : Used(b) \in Nat
  BY <1>1, UsedTypes
<1>3. \A b \in Block : attempts[b] \in Nat
  BY DEF UploadInv, ArqInv, ArqTypeOK
<1>4. IsFiniteSet(Overdrawn) /\ Cardinality(Overdrawn) \in Nat
  BY BlockFinite DEF Overdrawn
<1>5. dups \in Nat
  BY NetworkAssumption DEF UploadInv, ExchangeInv, ExchangeTypeOK, FaultTypeOK
<1> QED
  BY <1>1, <1>2, <1>3, <1>4, <1>5

LEMMA UsedRangeNext ==
    ASSUME UploadInv'
    PROVE  /\ \A b \in Block : Used(b)' \in Nat /\ attempts'[b] \in Nat
           /\ dups' \in Nat
<1>1. HandlerTypeOK'
  BY DEF UploadInv, ExchangeInv, ExchangeTypeOK, LocalStateTypeOK
<1>2. \A b \in Block : Used(b)' \in Nat
  BY <1>1, UsedTypesNext
<1>3. \A b \in Block : attempts'[b] \in Nat
  BY DEF UploadInv, ArqInv, ArqTypeOK
<1>4. dups' \in Nat
  BY NetworkAssumption DEF UploadInv, ExchangeInv, ExchangeTypeOK, FaultTypeOK
<1> QED
  BY <1>2, <1>3, <1>4

LEMMA PaidKept ==
    ASSUME PaidInv, UploadInv', CasCloses', dups' >= dups,
           \A b \in Block : Used(b)' - attempts'[b] <= Used(b) - attempts[b]
    PROVE  PaidInv'
<1>1. Overdrawn' \subseteq Overdrawn
  BY UsedRange, UsedRangeNext DEF PaidInv, Overdrawn
<1>2. Cardinality(Overdrawn') <= Cardinality(Overdrawn)
  BY <1>1, UsedRange, NoMore DEF PaidInv
<1>3. Cardinality(Overdrawn') \in Nat
  BY BlockFinite DEF Overdrawn
<1> QED
  BY <1>2, <1>3, UsedRange, UsedRangeNext DEF PaidInv

LEMMA PaidClientStep ==
    ASSUME PaidInv, ClientStep, UploadInv'
    PROVE  PaidInv'
<1>1. /\ UNCHANGED <<serverVars, losses>>
      /\ dups' \in Nat /\ dups' >= dups
      /\ toServer' \subseteq toServer \cup Burst
      /\ \A b \in Block : attempts'[b] \in Nat /\ attempts'[b] >= attempts[b]
  BY ClientSends DEF PaidInv
<1>2. ASSUME NEW b \in Block
      PROVE  Used(b)' - attempts'[b] <= Used(b) - attempts[b]
  <2> DEFINE sent == IF attempts'[b] > attempts[b] THEN 1 ELSE 0
  <2>1. /\ attempts[b] \in Nat /\ attempts'[b] \in Nat /\ attempts'[b] >= attempts[b]
        /\ Used(b) \in Nat /\ Used(b)' \in Nat /\ HandlerTypeOK
    BY <1>1, UsedRange, UsedRangeNext DEF PaidInv
  <2>2. sent \in {0, 1} /\ sent <= attempts'[b] - attempts[b]
    BY <2>1
  <2>3. b \in toServer' => b \in toServer \/ sent = 1
    BY <1>1, <2>1 DEF Burst
  <2> HIDE DEF sent
  <2>4. Used(b)' <= Used(b) + sent
    BY <1>1, <2>1, <2>2, <2>3, FlightUses
  <2> QED
    BY <2>1, <2>2, <2>4
<1>3. CasCloses'
  BY <1>1 DEF PaidInv, CasCloses
<1> QED
  BY <1>1, <1>2, <1>3, PaidKept

LEMMA PaidServerStep ==
    ASSUME PaidInv, UNCHANGED arqVars, serverStep, UploadInv'
    PROVE  PaidInv'
<1>1. CasCloses' /\ \A b \in Block : Used(b)' <= Used(b)
  BY ServerUses DEF PaidInv, UploadInv
<1>2. UNCHANGED <<attempts, dups>>
  BY DEF arqVars, serverStep
<1>3. \A b \in Block : Used(b)' - attempts'[b] <= Used(b) - attempts[b]
  BY <1>1, <1>2, UsedRange, UsedRangeNext DEF PaidInv
<1>4. dups' >= dups
  BY <1>2, UsedRange DEF PaidInv
<1> QED
  BY <1>1, <1>3, <1>4, PaidKept

LEMMA PaidLoseStep ==
    ASSUME PaidInv, UNCHANGED arqVars, Lose, UploadInv'
    PROVE  PaidInv'
<1>1. UNCHANGED <<serverVars, attempts, dups>> /\ toServer' \subseteq toServer
  BY DEF Lose, LoseDatagram, arqVars
<1>2. ASSUME NEW b \in Block
      PROVE  Used(b)' - attempts'[b] <= Used(b) - attempts[b]
  <2>1. 0 \in {0, 1} /\ (b \in toServer' => b \in toServer)
    BY <1>1
  <2>2. Used(b)' <= Used(b) + 0
    BY <1>1, <2>1, FlightUses, UsedRange DEF PaidInv
  <2> QED
    BY <1>1, <2>2, UsedRange, UsedRangeNext DEF PaidInv
<1>3. CasCloses'
  BY <1>1 DEF PaidInv, CasCloses
<1>4. dups' >= dups
  BY <1>1, UsedRange DEF PaidInv
<1> QED
  BY <1>2, <1>3, <1>4, PaidKept

LEMMA PaidDeliverStep ==
    ASSUME PaidInv, UNCHANGED arqVars, NEW w \in Worker, NEW c \in toServer, Deliver(w, c), UploadInv'
    PROVE  PaidInv'
<1>1. /\ UNCHANGED <<runs, stage, runnedHandler, attempts>>
      /\ \/ UNCHANGED dups /\ \A b \in Block : Used(b)' <= Used(b)
         \/ /\ dups' = dups + 1
            /\ \A b \in Block : Used(b)' <= Used(b) + (IF b = c THEN 1 ELSE 0)
  BY DeliverUses DEF PaidInv, UploadInv, arqVars
<1>2. CasCloses'
  BY <1>1 DEF PaidInv, CasCloses
<1>3. CASE UNCHANGED dups /\ \A b \in Block : Used(b)' <= Used(b)
  <2>1. \A b \in Block : Used(b)' - attempts'[b] <= Used(b) - attempts[b]
    BY <1>1, <1>3, UsedRange, UsedRangeNext DEF PaidInv
  <2>2. dups' >= dups
    BY <1>3, UsedRange DEF PaidInv
  <2> QED
    BY <1>2, <2>1, <2>2, PaidKept
<1>4. CASE dups' = dups + 1 /\ \A b \in Block : Used(b)' <= Used(b) + (IF b = c THEN 1 ELSE 0)
  <2>1. Overdrawn' \subseteq Overdrawn \cup {c}
    BY <1>1, <1>4, UsedRange, UsedRangeNext DEF Overdrawn, PaidInv
  <2>2. Cardinality(Overdrawn') <= Cardinality(Overdrawn) + 1 /\ Cardinality(Overdrawn') \in Nat
    BY <2>1, UsedRange, OneMore DEF PaidInv
  <2> QED
    BY <1>2, <1>4, <2>2, UsedRange DEF PaidInv
<1> QED
  BY <1>1, <1>3, <1>4

LEMMA PaidStutter ==
    ASSUME PaidInv, UNCHANGED uploadVars, UploadInv'
    PROVE  PaidInv'
<1>1. UNCHANGED <<serverVars, attempts, dups, toServer>>
  BY DEF uploadVars, arqVars, exchangeVars
<1>2. Overdrawn' = Overdrawn
  BY <1>1 DEF Overdrawn, Used, InFlight, Arrived, Holders, Holds, Carriers
<1> QED
  BY <1>1, <1>2 DEF PaidInv, CasCloses

LEMMA PaidInitInv ==
    ASSUME UploadInit
    PROVE  PaidInv
<1>1. UploadInv
  BY UploadInitInv
<1>2. CasCloses
  BY DEF UploadInit, ExchangeInit, LocalStateInit, CasCloses
<1>3. \A b \in Block : Holders(b) = {} /\ Carriers(b) = {} /\ InFlight(b) = 0 /\ attempts[b] = 0
  BY DEF UploadInit, ArqInit, ExchangeInit, LocalStateInit, NetworkInit, Holders, Holds,
         Carriers, InFlight
<1>4. Len(runs) = 0 /\ dups = 0
  BY DEF UploadInit, ExchangeInit, LocalStateInit, NetworkInit
<1>5. \A b \in Block : Used(b) = 0
  BY <1>3, <1>4, FS_EmptySet DEF Used, Arrived
<1>6. Overdrawn = {}
  BY <1>3, <1>5 DEF Overdrawn
<1> QED
  BY <1>1, <1>2, <1>4, <1>6, FS_EmptySet DEF PaidInv

LEMMA PaidNextInv ==
    ASSUME PaidInv, [UploadNext]_uploadVars
    PROVE  PaidInv'
<1>1. UploadInv'
  BY UploadStep, UploadStutter DEF PaidInv
<1> QED
  BY <1>1, PaidClientStep, PaidServerStep, PaidLoseStep, PaidDeliverStep, PaidStutter
     DEF UploadNext, ClientStep

LEMMA PaidInvariant == UploadSpec => []PaidInv
  BY PaidInitInv, PaidNextInv, PTL DEF UploadSpec

LEMMA PaidMeansPaid ==
    ASSUME PaidInv
    PROVE  RerunsPaidFor
<1>1. {b \in Block : attempts[b] < Len(runs)} \subseteq Overdrawn
  <2> SUFFICES ASSUME NEW b \in Block, attempts[b] < Len(runs) PROVE Used(b) > attempts[b]
    BY DEF Overdrawn
  <2>1. Len(runs) \in Nat /\ Len(runs) <= Used(b)
    <3>1. HandlerTypeOK
      BY UsedRange DEF PaidInv
    <3>2. Len(runs) \in Nat
      BY <3>1 DEF HandlerTypeOK
    <3> QED
      BY <3>1, <3>2, UsedTypes
  <2> QED
    BY <2>1, UsedRange DEF PaidInv
<1>2. Cardinality({b \in Block : attempts[b] < Len(runs)}) <= Cardinality(Overdrawn)
  BY <1>1, UsedRange, NoMore DEF PaidInv
<1>3. Cardinality({b \in Block : attempts[b] < Len(runs)}) \in Nat
  BY BlockFinite
<1> QED
  BY <1>2, <1>3, UsedRange DEF PaidInv, RerunsPaidFor

(* Each run of the handler uses up a datagram of every block, whatever     *)
(* expires and however the goroutines interleave, even when several        *)
(* localStates fill at once: no datagram counts for two runs, and a        *)
(* localState is run once (the CAS of localstate.go:56-62).                *)
THEOREM RerunsArePaidFor == UploadSpec => []RerunsPaidFor
  BY PaidInvariant, PaidMeansPaid, PTL
-----------------------------------------------------------------------------
(* Within processedTTL and with a timeWait above the round trip.  A client *)
(* that times out while no answer is coming repeats the blocks that were   *)
(* lost, or whose Continue was: each loss makes it repeat one block.  Once *)
(* the server has the key in ProcessedMessages nothing more can be run.    *)
Repeated == {b \in Block : attempts[b] > 1}

Missing == {b \in Block : /\ attempts[b] > 0 /\ b \notin Continued
                          /\ b \notin toServer /\ Carriers(b) = {}}

Busy == \E l \in State : \/ \E p \in SUBSET Block : spawned[l][p] > 0
                         \/ stage[l] \in {"handler", "delete", "mark"}

Quiet == processed /\ ~Busy /\ \A w \in Worker : wpc[w] \in {"free", "check"}

LossesRepeat ==
    /\ processed \/ Busy \/ Cardinality(Repeated \cup Missing) <= losses
    /\ Quiet \/ Cardinality(Repeated) <= losses

StagesFollow == \A l \in State : /\ runnedHandler[l] => stage[l] # "none"
                                 /\ stage[l] = "done" => processed

OnceInv ==
    /\ PaidInv
    /\ LossesRepeat
    /\ StagesFollow
    /\ HandledAtMostOnce

LEMMA LossesRange ==
    ASSUME UploadInv
    PROVE  /\ losses \in Nat /\ dups \in Nat /\ Len(runs) \in Nat
           /\ \A b \in Block : attempts[b] \in Nat
<1>1. losses \in Nat /\ dups \in Nat
  BY NetworkAssumption DEF UploadInv, ExchangeInv, ExchangeTypeOK, FaultTypeOK
<1>2. Len(runs) \in Nat
  BY DEF UploadInv, ExchangeInv, ExchangeTypeOK, LocalStateTypeOK, HandlerTypeOK
<1>3. \A b \in Block : attempts[b] \in Nat
  BY DEF UploadInv, ArqInv, ArqTypeOK
<1> QED
  BY <1>1, <1>2, <1>3

LEMMA RepeatedFinite ==
    /\ IsFiniteSet(Repeated) /\ Cardinality(Repeated) \in Nat
    /\ IsFiniteSet(Repeated \cup Missing) /\ Cardinality(Repeated \cup Missing) \in Nat
    /\ Cardinality(Repeated) <= Cardinality(Repeated \cup Missing)
<1>1. Repeated \in SUBSET Block /\ Repeated \cup Missing \in SUBSET Block
  BY DEF Repeated, Missing
<1> QED
  BY <1>1, BlockFinite, NoMore

LEMMA RepeatedFiniteNext ==
    /\ IsFiniteSet(Repeated') /\ Cardinality(Repeated') \in Nat
    /\ IsFiniteSet(Repeated' \cup Missing') /\ Cardinality(Repeated' \cup Missing') \in Nat
    /\ Cardinality(Repeated') <= Cardinality(Repeated' \cup Missing')
<1>1. Repeated' \in SUBSET Block /\ Repeated' \cup Missing' \in SUBSET Block
  BY DEF Repeated, Missing
<1> QED
  BY <1>1, BlockFinite, NoMore

(* A second run takes a second datagram of every block.                    *)
LEMMA SecondRunNeedsAll ==
    PaidInv /\ LossesRepeat /\ ~Quiet => HandledAtMostOnce
<1> SUFFICES ASSUME PaidInv, LossesRepeat, ~Quiet, Len(runs) > 1, dups + losses < NumBlocks
             PROVE  FALSE
  BY LossesRange DEF HandledAtMostOnce, PaidInv
<1> DEFINE once == {b \in Block : attempts[b] < Len(runs)}
<1>1. Cardinality(once) <= dups
  BY PaidMeansPaid DEF RerunsPaidFor
<1>2. IsFiniteSet(once) /\ Cardinality(once) \in Nat
  BY BlockFinite
<1>3. Block \subseteq once \cup Repeated
  <2> SUFFICES ASSUME NEW b \in Block, b \notin Repeated PROVE attempts[b] < Len(runs)
    OBVIOUS
  <2> QED
    BY LossesRange DEF Repeated, PaidInv
<1> HIDE DEF once
<1>4. Cardinality(Repeated) <= losses
  BY DEF LossesRepeat
<1>5. /\ IsFiniteSet(once \cup Repeated)
      /\ Cardinality(once \cup Repeated)
           = Cardinality(once) + Cardinality(Repeated) - Cardinality(once \cap Repeated)
  BY <1>2, RepeatedFinite, FS_Union
<1>6. Cardinality(once \cap Repeated) \in Nat
  BY <1>2, FS_Intersection, FS_CardinalityType
<1>7. Cardinality(Block) = NumBlocks
  BY FS_Interval DEF Block
<1>8. Cardinality(Block) <= Cardinality(once \cup Repeated)
  BY <1>3, <1>5, NoMore
<1> QED
  BY <1>1, <1>2, <1>4, <1>5, <1>6, <1>7, <1>8, RepeatedFinite, LossesRange DEF PaidInv

LEMMA SumGrows ==
    ASSUME NEW a \in Nat, NEW b \in Nat, NEW c \in Nat, NEW d \in Nat, c >= a, d >= b,
           c + d < NumBlocks
    PROVE  a + b < NumBlocks
  OBVIOUS

(* What remains for a step that calls no handler.                          *)
LEMMA OnceKept ==
    ASSUME OnceInv, PaidInv', LossesRepeat', StagesFollow', UNCHANGED runs,
           dups' >= dups, losses' >= losses
    PROVE  OnceInv'
<1>1. losses' \in Nat /\ dups' \in Nat
  BY NetworkAssumption DEF PaidInv, UploadInv, ExchangeInv, ExchangeTypeOK, FaultTypeOK
<1>2. losses \in Nat /\ dups \in Nat
  BY LossesRange DEF OnceInv, PaidInv
<1>3. dups' + losses' < NumBlocks => dups + losses < NumBlocks
  BY <1>1, <1>2, SumGrows
<1>4. HandledAtMostOnce'
  BY <1>3 DEF OnceInv, HandledAtMostOnce
<1> QED
  BY <1>4 DEF OnceInv

(* The client repeats a block only when the server is idle and the block,  *)
(* or its Continue, is gone.                                               *)
LEMMA ClientRepeats ==
    ASSUME Timely, UploadInv, ClientStep
    PROVE  /\ Continued \subseteq Continued'
           /\ Burst \subseteq toServer'
           /\ toServer \subseteq toServer'
           /\ \A b \in Block : attempts'[b] <= attempts[b] + 1
           /\ \A b \in Burst : b \in Block /\ (attempts[b] = 0 \/ (b \in Missing /\ ServerIdle))
<1>1. /\ ArqInv /\ ArqTypeOK /\ FaultTypeOK /\ NetTypeOK /\ \A b \in Block : attempts[b] \in Nat
  BY DEF UploadInv, ArqInv, ArqTypeOK, ExchangeInv, ExchangeTypeOK, LocalStateTypeOK
<1>2. UploadInv'
  BY UploadStep DEF ClientStep, UploadNext
<1>3. ArqTypeOK'
  BY <1>2 DEF UploadInv, ArqInv
<1>4. {} \in SUBSET Block /\ Block \in SUBSET Block
  OBVIOUS
<1>5. CASE ClientStart \/ ClientTimeout
  <2>1. /\ UNCHANGED <<acked, toClient>>
        /\ toServer' = toServer \cup Burst
    BY <1>5 DEF ClientStart, ClientTimeout, ArqStart, ArqTimeout, transmitted
  <2>2. /\ acked \in SUBSET Block /\ shift \in 0 .. NumBlocks
        /\ relative_shift \in Nat /\ windowsize \in Nat /\ overflowIndicator \in Int
    BY <1>1, ArqAssumption DEF ArqTypeOK
  <2>3. CASE ClientStart
    <3>1. Send({}, acked, shift, relative_shift, windowsize, overflowIndicator)
      BY <2>3 DEF ClientStart, ArqStart
    <3>2. \A b \in Block : attempts'[b] <= attempts[b] + 1
      BY <1>1, <1>4, <2>2, <3>1, SendBurst
    <3>3. \A b \in Burst : b \in Block /\ attempts[b] = 0
      BY <1>1, <1>4, <2>2, <3>1, SendIsDue DEF Burst
    <3> QED
      BY <2>1, <3>2, <3>3 DEF Continued
  <2>4. CASE ClientTimeout
    <3>1. Send(Block, acked, shift, relative_shift, windowsize, overflowIndicator)
      BY <2>4 DEF ClientTimeout, ArqTimeout
    <3>2. \A b \in Block : attempts'[b] <= attempts[b] + 1
      BY <1>1, <1>4, <2>2, <3>1, SendBurst
    <3>3. \A b \in Burst : b \in Block /\ b \notin acked
      BY <1>1, <1>4, <2>2, <3>1, SendIsDue DEF Burst
    <3>4. toServer = {} /\ toClient = {} /\ ServerIdle
      BY <2>4 DEF ClientTimeout, TimeoutPossible
    <3>5. \A b \in Burst : attempts[b] > 0 => b \in Missing
      BY <3>3, <3>4 DEF Missing, Continued, Carriers, ServerIdle
    <3> QED
      BY <1>1, <2>1, <3>2, <3>3, <3>4, <3>5 DEF Continued
  <2> QED
    BY <1>5, <2>3, <2>4
<1>6. CASE ClientReadError \/ \E m \in toClient : ClientResponse(m)
  <2>1. UNCHANGED <<acked, attempts, toServer>>
    BY <1>6 DEF ClientReadError, ArqReadError, exchangeVars, ClientResponse, ArqFinal
  <2>2. \A b \in Block : [code |-> "Continue", block |-> b] \in toClient
                           => [code |-> "Continue", block |-> b] \in toClient'
    BY <1>6 DEF ClientReadError, exchangeVars, ClientResponse, TakeFrom, Codes
  <2> QED
    BY <1>1, <2>1, <2>2 DEF Continued, Burst
<1>7. ASSUME NEW m \in toClient, ClientContinue(m)
      PROVE  /\ Continued \subseteq Continued'
             /\ toServer' = toServer \cup Burst
             /\ \A b \in Block : attempts'[b] <= attempts[b] + 1
             /\ \A b \in Burst : b \in Block /\ attempts[b] = 0
  <2>1. ArqContinue(m.block, {})
    BY <1>7 DEF ClientContinue
  <2>2. /\ Send({}, acked', shift', relative_shift', windowsize', OverflowAfter(m.block))
        /\ m.block \in Block /\ acked' = acked \cup {m.block}
    BY <2>1 DEF ArqContinue
  <2>3. /\ acked' \in SUBSET Block /\ shift' \in 0 .. NumBlocks
        /\ relative_shift' \in Nat /\ windowsize' \in Nat /\ OverflowAfter(m.block) \in Int
    BY <1>1, <1>3, <2>2, ArqAssumption DEF ArqTypeOK, OverflowAfter
  <2>4. toServer' = toServer \cup Burst
    BY <1>7 DEF ClientContinue, transmitted
  <2>5. Continued \subseteq Continued'
    <3>1. m.code = "Continue" /\ toClient \ {m} \subseteq toClient'
      BY <1>7 DEF ClientContinue, TakeFrom
    <3>2. m \in toClient /\ m \in Ack
      BY <1>1 DEF NetTypeOK
    <3>3. \A b \in Block : m = [code |-> "Continue", block |-> b] => b = m.block
      OBVIOUS
    <3> QED
      BY <2>2, <3>1, <3>3 DEF Continued
  <2>6. \A b \in Block : attempts'[b] <= attempts[b] + 1
    BY <1>1, <1>4, <2>2, <2>3, SendBurst
  <2>7. \A b \in Burst : b \in Block /\ attempts[b] = 0
    BY <1>1, <1>4, <2>2, <2>3, SendIsDue DEF Burst
  <2> QED
    BY <2>4, <2>5, <2>6, <2>7
<1> QED
  BY <1>5, <1>6, <1>7 DEF ClientStep, clientReceive

LEMMA OnceClientStep ==
    ASSUME Timely, OnceInv, ClientStep, PaidInv'
    PROVE  OnceInv'
<1>1. UploadInv
  BY DEF OnceInv, PaidInv
<1>2. /\ UNCHANGED <<serverVars, losses>> /\ dups' >= dups
      /\ \A b \in Block : attempts'[b] \in Nat /\ attempts[b] \in Nat
  BY <1>1, ClientSends, LossesRange
<1>3. /\ UNCHANGED <<runs, processed, stage, runnedHandler, spawned, wpc, wmsg>>
      /\ losses' = losses
  BY <1>2
<1>4. /\ Continued \subseteq Continued'
      /\ Burst \subseteq toServer' /\ toServer \subseteq toServer'
      /\ \A b \in Block : attempts'[b] <= attempts[b] + 1
      /\ \A b \in Burst : b \in Block /\ (attempts[b] = 0 \/ (b \in Missing /\ ServerIdle))
  BY <1>1, ClientRepeats
<1>5. Busy' = Busy /\ Quiet' = Quiet /\ \A b : Carriers(b)' = Carriers(b)
  BY <1>3 DEF Busy, Quiet, Carriers
<1>6. Missing' \subseteq Missing
  BY <1>2, <1>4, <1>5 DEF Missing, Burst
<1>7. /\ Repeated' \subseteq Repeated \cup Missing
      /\ ~ServerIdle => Repeated' \subseteq Repeated
  <2> SUFFICES ASSUME NEW b \in Block, attempts'[b] > 1, ~(attempts[b] > 1)
               PROVE  b \in Missing /\ ServerIdle
    BY DEF Repeated
  <2>1. attempts[b] = 1 /\ b \in Burst
    BY <1>2, <1>4 DEF Burst
  <2> QED
    BY <1>4, <2>1
<1>8. ServerIdle => Quiet \/ ~(processed \/ Busy)
  BY DEF ServerIdle, Quiet, Busy
<1>9. Cardinality(Repeated' \cup Missing') <= Cardinality(Repeated \cup Missing)
  BY <1>6, <1>7, RepeatedFinite, NoMore
<1>10. Cardinality(Repeated') <= Cardinality(Repeated \cup Missing)
  BY <1>7, RepeatedFinite, NoMore
<1>11. ~ServerIdle => Cardinality(Repeated') <= Cardinality(Repeated)
  BY <1>7, RepeatedFinite, NoMore
<1>12. losses \in Nat
  BY <1>1, LossesRange
<1>13. processed' \/ Busy' \/ Cardinality(Repeated' \cup Missing') <= losses'
  <2>1. CASE processed \/ Busy
    BY <1>3, <1>5, <2>1, Zenon
  <2>2. CASE ~(processed \/ Busy)
    <3>1. Cardinality(Repeated \cup Missing) <= losses
      BY <2>2, Zenon DEF OnceInv, LossesRepeat
    <3>2. Cardinality(Repeated' \cup Missing') <= losses'
      BY <1>3, <1>9, <1>12, <3>1, RepeatedFinite, RepeatedFiniteNext
    <3> QED
      BY <3>2, Zenon
  <2> QED
    BY <2>1, <2>2
<1>14. Quiet' \/ Cardinality(Repeated') <= losses'
  <2>1. CASE Quiet
    BY <1>5, <2>1
  <2>2. CASE ~Quiet /\ ServerIdle
    <3>1. Cardinality(Repeated \cup Missing) <= losses
      BY <1>8, <2>2, Zenon DEF OnceInv, LossesRepeat
    <3> QED
      BY <1>3, <1>10, <1>12, <3>1, RepeatedFinite, RepeatedFiniteNext
  <2>3. CASE ~Quiet /\ ~ServerIdle
    <3>1. Cardinality(Repeated) <= losses
      BY <2>3, Zenon DEF OnceInv, LossesRepeat
    <3> QED
      BY <1>3, <1>11, <1>12, <2>3, <3>1, RepeatedFinite, RepeatedFiniteNext
  <2> QED
    BY <2>1, <2>2, <2>3
<1>15. LossesRepeat'
  BY <1>13, <1>14, Zenon DEF LossesRepeat
<1>16. StagesFollow'
  BY <1>3, Zenon DEF OnceInv, StagesFollow
<1> QED
  BY <1>2, <1>3, <1>12, <1>15, <1>16, OnceKept

LEMMA LeqTrans ==
    ASSUME NEW a \in Nat, NEW b \in Nat, NEW c \in Nat, a <= b, b <= c
    PROVE  a <= c
  OBVIOUS

(* A step of the network or of the server: the client has sent nothing.    *)
LEMMA LossesKept ==
    ASSUME OnceInv, UploadInv', UNCHANGED attempts, losses' >= losses,
           processed \/ Busy => processed' \/ Busy',
           Quiet => Quiet',
           \/ processed' \/ Busy' \/ Missing' \subseteq Missing
           \/ losses' = losses + 1 /\ \E b : Missing' \subseteq Missing \cup {b}
    PROVE  LossesRepeat'
<1>1. losses \in Nat /\ losses' \in Nat
  <2>1. UploadInv
    BY DEF OnceInv, PaidInv
  <2>2. losses' \in Nat
    BY NetworkAssumption DEF UploadInv, ExchangeInv, ExchangeTypeOK, FaultTypeOK
  <2> QED
    BY <2>1, <2>2, LossesRange
<1>2. Repeated' = Repeated
  BY DEF Repeated
<1>3. Quiet' \/ Cardinality(Repeated') <= losses'
  <2>1. CASE Quiet
    BY <2>1
  <2>2. CASE ~Quiet
    <3>1. Cardinality(Repeated) <= losses
      BY <2>2, Zenon DEF OnceInv, LossesRepeat
    <3>2. Cardinality(Repeated) \in Nat
      BY RepeatedFinite
    <3> HIDE DEF Repeated
    <3>3. Cardinality(Repeated) <= losses'
      BY <1>1, <3>1, <3>2, LeqTrans
    <3> QED
      BY <1>2, <3>3
  <2> QED
    BY <2>1, <2>2
<1>4. processed' \/ Busy' \/ Cardinality(Repeated' \cup Missing') <= losses'
  <2>1. CASE processed \/ Busy \/ processed' \/ Busy'
    BY <2>1, Zenon
  <2>2. CASE ~(processed \/ Busy \/ processed' \/ Busy')
    <3>1. Cardinality(Repeated \cup Missing) <= losses
      BY <2>2, Zenon DEF OnceInv, LossesRepeat
    <3>2. \/ Missing' \subseteq Missing
          \/ losses' = losses + 1 /\ \E b : Missing' \subseteq Missing \cup {b}
      BY <2>2, Zenon
    <3>3. CASE Missing' \subseteq Missing
      <4>1. Repeated' \cup Missing' \subseteq Repeated \cup Missing
        BY <1>2, <3>3
      <4>2. Cardinality(Repeated' \cup Missing') <= Cardinality(Repeated \cup Missing)
        BY <4>1, RepeatedFinite, NoMore
      <4>3. Cardinality(Repeated' \cup Missing') <= losses
        BY <1>1, <3>1, <4>2, RepeatedFinite, RepeatedFiniteNext, LeqTrans
      <4>4. Cardinality(Repeated' \cup Missing') <= losses'
        BY <1>1, <4>3, RepeatedFiniteNext, LeqTrans
      <4> QED
        BY <4>4, Zenon
    <3>4. ASSUME NEW b, Missing' \subseteq Missing \cup {b}, losses' = losses + 1
          PROVE  Cardinality(Repeated' \cup Missing') <= losses'
      <4>1. Repeated' \cup Missing' \subseteq (Repeated \cup Missing) \cup {b}
        BY <1>2, <3>4
      <4>2. Cardinality(Repeated' \cup Missing') <= Cardinality(Repeated \cup Missing) + 1
        BY <4>1, RepeatedFinite, OneMore
      <4>3. Cardinality(Repeated \cup Missing) + 1 <= losses + 1
        BY <1>1, <3>1, RepeatedFinite
      <4>4. Cardinality(Repeated' \cup Missing') <= losses + 1
        BY <1>1, <4>2, <4>3, RepeatedFinite, RepeatedFiniteNext, LeqTrans
      <4> QED
        BY <3>4, <4>4
    <3> QED
      BY <3>2, <3>3, <3>4, Zenon
  <2> QED
    BY <2>1, <2>2, Zenon
<1> QED
  BY <1>3, <1>4, Zenon DEF LossesRepeat

LEMMA OnceDeliverStep ==
    ASSUME OnceInv, UNCHANGED arqVars, NEW w \in Worker, NEW c \in toServer, Deliver(w, c), PaidInv'
    PROVE  OnceInv'
<1>1. UploadInv /\ UploadInv'
  BY DEF OnceInv, PaidInv
<1>2. /\ UNCHANGED <<attempts, acked, toClient, losses, runs>>
      /\ UNCHANGED <<processed, stage, runnedHandler, spawned>>
      /\ wpc[w] = "free"
      /\ wpc' = [wpc EXCEPT ![w] = "check"]
      /\ wmsg' = [wmsg EXCEPT ![w] = c]
      /\ dups' \in {dups, dups + 1}
      /\ toServer \ {c} \subseteq toServer'
  BY DEF Deliver, listenLoop, arqVars, TakeFrom
<1>3. WorkerTypeOK
  BY <1>1 DEF UploadInv, ExchangeInv, ExchangeTypeOK, LocalStateTypeOK
<1>4. dups' >= dups /\ losses' >= losses
  BY <1>1, <1>2, LossesRange
<1>5. Busy' = Busy
  BY <1>2 DEF Busy
<1>6. (\A v \in Worker : wpc'[v] \in {"free", "check"}) <=> (\A v \in Worker : wpc[v] \in {"free", "check"})
  BY <1>2, <1>3 DEF WorkerTypeOK
<1>7. Quiet' = Quiet
  BY <1>2, <1>5, <1>6, Zenon DEF Quiet
<1>8. Missing' \subseteq Missing
  <2>1. \A b \in Block : Carriers(b)' = {} => Carriers(b) = {} /\ b # c
    BY <1>2, <1>3 DEF Carriers, WorkerTypeOK
  <2> QED
    BY <1>2, <2>1 DEF Missing, Continued
<1>9. LossesRepeat'
  BY <1>1, <1>2, <1>4, <1>5, <1>7, <1>8, LossesKept, Zenon
<1>10. StagesFollow'
  BY <1>2, Zenon DEF OnceInv, StagesFollow
<1> QED
  BY <1>2, <1>4, <1>9, <1>10, OnceKept

LEMMA OnceLoseStep ==
    ASSUME OnceInv, UNCHANGED arqVars, Lose, PaidInv'
    PROVE  OnceInv'
<1>1. UploadInv /\ UploadInv'
  BY DEF OnceInv, PaidInv
<1>2. /\ UNCHANGED <<attempts, acked, dups, runs, wpc, wmsg>>
      /\ UNCHANGED <<processed, stage, runnedHandler, spawned>>
      /\ losses' = losses + 1
      /\ \/ (\E m \in toServer : toServer' = toServer \ {m}) /\ UNCHANGED toClient
         \/ (\E m \in toClient : toClient' = toClient \ {m}) /\ UNCHANGED toServer
  BY DEF Lose, LoseDatagram, arqVars
<1>3. dups' >= dups /\ losses' >= losses
  BY <1>1, <1>2, LossesRange
<1>4. Busy' = Busy /\ \A b : Carriers(b)' = Carriers(b)
  BY <1>2 DEF Busy, Carriers
<1>5. Quiet' = Quiet
  BY <1>2, <1>4, Zenon DEF Quiet
<1>6. \E c : Missing' \subseteq Missing \cup {c}
  <2>1. ASSUME NEW m \in toServer, toServer' = toServer \ {m}, UNCHANGED toClient
        PROVE  Missing' \subseteq Missing \cup {m}
    BY <1>2, <1>4, <2>1 DEF Missing, Continued
  <2>2. ASSUME NEW m \in toClient, toClient' = toClient \ {m}, UNCHANGED toServer
        PROVE  Missing' \subseteq Missing \cup {m.block}
    <3>1. \A b \in Block : m = [code |-> "Continue", block |-> b] => b = m.block
      OBVIOUS
    <3> QED
      BY <1>2, <1>4, <2>2, <3>1 DEF Missing, Continued
  <2> QED
    BY <1>2, <2>1, <2>2
<1>7. LossesRepeat'
  BY <1>1, <1>2, <1>3, <1>4, <1>5, <1>6, LossesKept, Zenon
<1>8. StagesFollow'
  BY <1>2, Zenon DEF OnceInv, StagesFollow
<1> QED
  BY <1>2, <1>3, <1>7, <1>8, OnceKept

(* What a step of the server does to Busy, Quiet and Missing.              *)
Answers ==
    /\ StagesFollow'
    /\ processed \/ Busy => processed' \/ Busy'
    /\ Quiet => Quiet'
    /\ processed' \/ Busy' \/ Missing' \subseteq Missing

LEMMA WorkerAnswers ==
    ASSUME UploadInv, StagesFollow, UNCHANGED arqVars, NEW w \in Worker, workerStep(w)
    PROVE  Answers
<1>1. ExchangeParts
  BY PartsAreInv DEF UploadInv
<1>2. WorkerTypeOK /\ HandlerTypeOK /\ ObjectTypeOK
  BY <1>1 DEF ExchangeParts
<1>3. UNCHANGED <<attempts, acked>>
  BY DEF arqVars
<1>4. CASE checkProcessed(w)
  <2>1. UNCHANGED <<processed, stage, runnedHandler, spawned, toServer, toClient, wmsg>>
    BY <1>4 DEF checkProcessed
  <2>2. Busy' = Busy /\ Continued' = Continued
    BY <1>3, <2>1 DEF Busy, Continued
  <2>3. CASE processed
    <3>1. wpc' = [wpc EXCEPT ![w] = "free"]
      BY <1>4, <2>3 DEF checkProcessed
    <3>2. \A v \in Worker : wpc[v] \in {"free", "check"} => wpc'[v] \in {"free", "check"}
      BY <1>2, <3>1 DEF WorkerTypeOK
    <3>3. Quiet => Quiet'
      BY <2>1, <2>2, <3>2, Zenon DEF Quiet
    <3> QED
      BY <2>1, <2>2, <2>3, <3>3, Zenon DEF Answers, StagesFollow
  <2>4. CASE ~processed
    <3>1. wpc' = [wpc EXCEPT ![w] = "load"] /\ wpc[w] = "check"
      BY <1>4, <2>4, Zenon DEF checkProcessed
    <3>2. \A b \in Block : Carriers(b)' = {} => Carriers(b) = {}
      BY <1>2, <2>1, <3>1 DEF Carriers, WorkerTypeOK
    <3>3. Missing' \subseteq Missing
      BY <1>3, <2>1, <2>2, <3>2 DEF Missing
    <3> QED
      BY <2>1, <2>2, <2>4, <3>3, Zenon DEF Answers, StagesFollow, Quiet
  <2> QED
    BY <2>3, <2>4
<1>5. CASE loadState(w)
  <2>1. UNCHANGED <<processed, stage, runnedHandler, spawned, toServer, toClient, wmsg>>
    BY <1>5 DEF loadState
  <2>2. Busy' = Busy /\ Continued' = Continued
    BY <1>3, <2>1 DEF Busy, Continued
  <2>3. wpc[w] = "load" /\ \E step \in {"store", "process"} : wpc' = [wpc EXCEPT ![w] = step]
    BY <1>5 DEF loadState
  <2>4. \A b \in Block : Carriers(b)' = {} => Carriers(b) = {}
    BY <1>2, <2>1, <2>3 DEF Carriers, WorkerTypeOK
  <2>5. Missing' \subseteq Missing
    BY <1>3, <2>1, <2>2, <2>4 DEF Missing
  <2>6. ~Quiet
    BY <2>3 DEF Quiet
  <2> QED
    BY <2>1, <2>2, <2>5, <2>6, Zenon DEF Answers, StagesFollow
<1>6. ASSUME NEW l \in State, storeState(w, l)
      PROVE  Answers
  <2>1. UNCHANGED <<processed, spawned, toServer, toClient, wmsg>>
    BY <1>6 DEF storeState
  <2>2. /\ runnedHandler' = [runnedHandler EXCEPT ![l] = FALSE]
        /\ stage' = [stage EXCEPT ![l] = "none"]
        /\ stage[l] \notin {"handler", "delete", "mark"}
    BY <1>6 DEF storeState, Referenced
  <2>3. \A k \in State : stage[k] \in {"handler", "delete", "mark"} <=> stage'[k] \in {"handler", "delete", "mark"}
    BY <1>2, <2>2 DEF HandlerTypeOK
  <2>4. Busy' = Busy /\ Continued' = Continued
    BY <1>3, <2>1, <2>3 DEF Busy, Continued
  <2>5. wpc[w] = "store" /\ wpc' = [wpc EXCEPT ![w] = "process"]
    BY <1>6 DEF storeState
  <2>6. \A b \in Block : Carriers(b)' = {} => Carriers(b) = {}
    BY <1>2, <2>1, <2>5 DEF Carriers, WorkerTypeOK
  <2>7. Missing' \subseteq Missing
    BY <1>3, <2>1, <2>4, <2>6 DEF Missing
  <2>8. ~Quiet
    BY <2>5 DEF Quiet
  <2>9. \A k \in State : \/ k = l /\ ~runnedHandler'[k] /\ stage'[k] = "none"
                         \/ runnedHandler'[k] = runnedHandler[k] /\ stage'[k] = stage[k]
    BY <1>2, <2>2 DEF HandlerTypeOK, ObjectTypeOK
  <2>10. StagesFollow'
    <3>1. "none" # "done"
      OBVIOUS
    <3> QED
      BY <2>1, <2>9, <3>1, Zenon DEF StagesFollow
  <2> QED
    BY <2>1, <2>4, <2>7, <2>8, <2>10, Zenon DEF Answers
<1>7. CASE processMessage(w)
  <2> DEFINE l == wls[w]
             c == wmsg[w]
  <2>1. /\ UNCHANGED <<processed, stage, runnedHandler, toServer, wmsg>>
        /\ wpc[w] = "process" /\ wpc' = [wpc EXCEPT ![w] = "free"]
        /\ l \in State /\ c \in Block
    BY <1>1, <1>2, <1>7 DEF processMessage, ExchangeParts, WorkersHaveState, WorkerTypeOK
  <2>2. ~Quiet
    BY <2>1 DEF Quiet
  <2>3. \/ spawned' = [spawned EXCEPT ![l][Block] = @ + 1] /\ UNCHANGED toClient
        \/ toClient' = toClient \cup {[code |-> "Continue", block |-> c]} /\ UNCHANGED spawned
    BY <1>2, <1>7, <2>1, ReceiveStarts DEF processMessage
  <2> HIDE DEF l, c
  <2>4. CASE spawned' = [spawned EXCEPT ![l][Block] = @ + 1]
    <3>1. spawned'[l][Block] > 0
      BY <1>2, <2>1, <2>4 DEF HandlerTypeOK
    <3>2. Busy'
      BY <2>1, <3>1 DEF Busy
    <3> QED
      BY <2>1, <2>2, <3>2, Zenon DEF Answers, StagesFollow
  <2>5. CASE toClient' = toClient \cup {[code |-> "Continue", block |-> c]} /\ UNCHANGED spawned
    <3>1. Busy' = Busy /\ Continued \subseteq Continued' /\ c \in Continued'
      BY <1>3, <2>1, <2>5 DEF Busy, Continued
    <3>2. \A b \in Block : b # c /\ Carriers(b)' = {} => Carriers(b) = {}
      BY <1>2, <2>1 DEF Carriers, WorkerTypeOK, c
    <3>3. Missing' \subseteq Missing
      BY <1>3, <2>1, <3>1, <3>2 DEF Missing
    <3> QED
      BY <2>1, <2>2, <3>1, <3>3, Zenon DEF Answers, StagesFollow
  <2> QED
    BY <2>3, <2>4, <2>5
<1> QED
  BY <1>4, <1>5, <1>6, <1>7 DEF workerStep

LEMMA HandlerAnswers ==
    ASSUME UploadInv, StagesFollow, UNCHANGED arqVars, NEW l \in State, handlerStep(l)
    PROVE  Answers
<1>1. HandlerTypeOK /\ ObjectTypeOK /\ CacheTypeOK
  BY PartsAreInv DEF UploadInv, ExchangeParts
<1>2. Busy
  BY DEF handlerStep, compareAndSwap, noResource, requestOnReceive, deleteState, markProcessed, Busy
<1>3. ~Quiet
  BY <1>2 DEF Quiet
<1>4. SUFFICES StagesFollow' /\ (processed' \/ Busy')
  BY <1>3, Zenon DEF Answers
<1>5. ASSUME NEW p \in SUBSET Block, compareAndSwap(l, p)
      PROVE  StagesFollow' /\ (processed' \/ Busy')
  <2>1. UNCHANGED processed
    BY <1>5 DEF compareAndSwap
  <2>2. CASE ~runnedHandler[l]
    <3>1. /\ runnedHandler' = [runnedHandler EXCEPT ![l] = TRUE]
          /\ stage' = [stage EXCEPT ![l] = "handler"]
      BY <1>5, <2>2 DEF compareAndSwap
    <3>2. stage'[l] = "handler" /\ \A k \in State : k # l => runnedHandler'[k] = runnedHandler[k] /\ stage'[k] = stage[k]
      BY <1>1, <3>1 DEF HandlerTypeOK, ObjectTypeOK
    <3>3. "handler" # "none" /\ "handler" # "done"
      OBVIOUS
    <3>4. Busy'
      BY <3>2 DEF Busy
    <3> QED
      BY <2>1, <3>2, <3>3, <3>4, Zenon DEF StagesFollow
  <2>3. CASE runnedHandler[l]
    <3>1. UNCHANGED <<runnedHandler, stage>>
      BY <1>5, <2>3 DEF compareAndSwap
    <3>2. StagesFollow'
      BY <2>1, <3>1, Zenon DEF StagesFollow
    <3>3. stage[l] # "none" /\ (stage[l] = "done" => processed)
      BY <2>3, Zenon DEF StagesFollow
    <3>4. stage[l] # "done" => Busy'
      BY <1>1, <3>1, <3>3 DEF Busy, HandlerTypeOK, Stages
    <3> QED
      BY <2>1, <3>2, <3>3, <3>4, Zenon
  <2> QED
    BY <2>2, <2>3
<1>6. CASE noResource(l) \/ (\E o \in HandlerOutcomes : requestOnReceive(l, o)) \/ deleteState(l)
  <2>1. /\ UNCHANGED <<processed, runnedHandler>>
        /\ \E step \in {"delete", "mark"} : stage' = [stage EXCEPT ![l] = step]
    BY <1>6 DEF noResource, requestOnReceive, deleteState
  <2>2. /\ stage'[l] \in {"delete", "mark"} /\ stage'[l] # "none" /\ stage'[l] # "done"
        /\ \A k \in State : k # l => stage'[k] = stage[k]
    BY <1>1, <2>1 DEF HandlerTypeOK
  <2>3. Busy'
    BY <2>2 DEF Busy
  <2> QED
    BY <2>1, <2>2, <2>3, Zenon DEF StagesFollow
<1>7. CASE markProcessed(l)
  <2>1. processed' /\ UNCHANGED runnedHandler /\ stage' = [stage EXCEPT ![l] = "done"]
    BY <1>7, Zenon DEF markProcessed
  <2>2. stage'[l] # "none" /\ \A k \in State : k # l => stage'[k] = stage[k]
    BY <1>1, <2>1 DEF HandlerTypeOK
  <2> QED
    BY <2>1, <2>2, Zenon DEF StagesFollow
<1> QED
  BY <1>5, <1>6, <1>7 DEF handlerStep

LEMMA ServerAnswers ==
    ASSUME ~ProcessedMayExpire, UploadInv, StagesFollow, UNCHANGED arqVars, serverStep
    PROVE  Answers
<1>1. CASE \E w \in Worker : workerStep(w)
  BY <1>1, WorkerAnswers
<1>2. CASE \E l \in State : handlerStep(l)
  BY <1>2, HandlerAnswers
<1>3. CASE expireState
  <2>1. /\ UNCHANGED <<processed, stage, runnedHandler, spawned, toServer, toClient>>
        /\ UNCHANGED <<wpc, wmsg, attempts, acked>>
    BY <1>3 DEF expireState, arqVars
  <2>2. Busy' = Busy /\ Missing' = Missing
    BY <2>1 DEF Busy, Missing, Continued, Carriers
  <2> QED
    BY <2>1, <2>2, Zenon DEF Answers, StagesFollow, Quiet
<1>4. ~expireProcessed
  BY DEF expireProcessed
<1> QED
  BY <1>1, <1>2, <1>3, <1>4 DEF serverStep

LEMMA OnceServerStep ==
    ASSUME ~ProcessedMayExpire, OnceInv, UNCHANGED arqVars, serverStep, PaidInv'
    PROVE  OnceInv'
<1>1. UploadInv /\ UploadInv' /\ StagesFollow
  BY DEF OnceInv, PaidInv
<1>2. UNCHANGED <<attempts, dups, losses>>
  BY DEF arqVars, serverStep
<1>3. dups' >= dups /\ losses' >= losses
  BY <1>1, <1>2, LossesRange
<1>4. Answers
  BY <1>1, ServerAnswers
<1>5. LossesRepeat'
  BY <1>1, <1>2, <1>3, <1>4, LossesKept, Zenon DEF Answers
<1>6. CASE UNCHANGED runs
  BY <1>3, <1>4, <1>5, <1>6, OnceKept DEF Answers
<1>7. CASE ~UNCHANGED runs
  <2>1. PICK l \in State, o \in HandlerOutcomes : requestOnReceive(l, o)
    BY <1>7 DEF serverStep, workerStep, handlerStep, checkProcessed, loadState, storeState,
                processMessage, compareAndSwap, noResource, deleteState, markProcessed,
                expireState, expireProcessed
  <2>2. HandlerTypeOK
    BY <1>1, PartsAreInv DEF UploadInv, ExchangeParts
  <2>3. stage'[l] = "delete"
    BY <2>1, <2>2 DEF requestOnReceive, HandlerTypeOK
  <2>4. ~Quiet'
    BY <2>3 DEF Quiet, Busy
  <2>5. HandledAtMostOnce'
    BY <1>5, <2>4, SecondRunNeedsAll, PTL
  <2> QED
    BY <1>4, <1>5, <2>5 DEF OnceInv, Answers
<1> QED
  BY <1>6, <1>7

LEMMA OnceStutter ==
    ASSUME OnceInv, UNCHANGED uploadVars, PaidInv'
    PROVE  OnceInv'
<1>1. /\ UNCHANGED <<processed, stage, runnedHandler, spawned, toServer, toClient>>
      /\ UNCHANGED <<wpc, wmsg, runs, attempts, acked, dups, losses>>
  BY DEF uploadVars, arqVars, exchangeVars
<1>2. Busy' = Busy /\ Missing' = Missing /\ Repeated' = Repeated
  BY <1>1 DEF Busy, Missing, Continued, Carriers, Repeated
<1>3. Quiet' = Quiet
  BY <1>1, <1>2, Zenon DEF Quiet
<1>4. LossesRepeat'
  BY <1>1, <1>2, <1>3, Zenon DEF OnceInv, LossesRepeat
<1>5. StagesFollow'
  BY <1>1, Zenon DEF OnceInv, StagesFollow
<1>6. HandledAtMostOnce'
  BY <1>1 DEF OnceInv, HandledAtMostOnce
<1> QED
  BY <1>4, <1>5, <1>6 DEF OnceInv

(* The handler runs a second time only when the network has repeated or    *)
(* lost as many datagrams as there are blocks (localstate.go:68-71): every *)
(* block has to arrive again before ProcessedMessages has the key, and the *)
(* client does not repeat a block the server has answered.                 *)
THEOREM HandledOnceIfTimely ==
    ASSUME Timely, ~ProcessedMayExpire
    PROVE  UploadSpec => []HandledAtMostOnce
<1>1. UploadInit => OnceInv
  <2> SUFFICES ASSUME UploadInit PROVE OnceInv
    OBVIOUS
  <2>1. PaidInv
    BY PaidInitInv
  <2>2. Repeated = {} /\ Missing = {}
    BY DEF UploadInit, ArqInit, Repeated, Missing
  <2>3. Cardinality(Repeated) <= losses /\ Cardinality(Repeated \cup Missing) <= losses
    <3>1. losses = 0
      BY DEF UploadInit, ExchangeInit, NetworkInit
    <3> QED
      BY <2>2, <3>1, FS_EmptySet
  <2>4. LossesRepeat
    BY <2>3, Zenon DEF LossesRepeat
  <2>5. StagesFollow
    <3>1. \A l \in State : ~runnedHandler[l] /\ stage[l] = "none"
      BY DEF UploadInit, ExchangeInit, LocalStateInit
    <3>2. "none" # "done"
      OBVIOUS
    <3> QED
      BY <3>1, <3>2, Zenon DEF StagesFollow
  <2>6. HandledAtMostOnce
    <3>1. Len(runs) = 0
      BY DEF UploadInit, ExchangeInit, LocalStateInit
    <3> QED
      BY <3>1 DEF HandledAtMostOnce
  <2> QED
    BY <2>1, <2>4, <2>5, <2>6 DEF OnceInv
<1>2. OnceInv /\ [UploadNext]_uploadVars => OnceInv'
  <2> SUFFICES ASSUME OnceInv, [UploadNext]_uploadVars PROVE OnceInv'
    OBVIOUS
  <2>1. PaidInv'
    BY PaidNextInv DEF OnceInv
  <2> QED
    BY <2>1, OnceClientStep, OnceDeliverStep, OnceLoseStep, OnceServerStep, OnceStutter
       DEF UploadNext, ClientStep
<1>3. OnceInv => HandledAtMostOnce
  BY DEF OnceInv
<1> QED
  BY <1>1, <1>2, <1>3, PTL DEF UploadSpec
=============================================================================
