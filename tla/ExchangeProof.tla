---------------------------- MODULE ExchangeProof ----------------------------
(***************************************************************************)
(* Every step of the server and of the network keeps ExchangeInv, whatever *)
(* the client does, for any number of blocks, workers and localStates.     *)
(***************************************************************************)
EXTENDS Exchange, FiniteSetTheorems, TLAPS

USE NumBlocksAssumption

-----------------------------------------------------------------------------
(* What the receivers compute from the last block's number and the number  *)
(* of distinct blocks: a complete transfer is the whole payload.           *)
LEMMA CompleteIsWhole ==
    ASSUME NEW total \in {-1, NumBlocks}, NEW buf \in SUBSET Block,
           Complete(total, buf)
    PROVE  assembleBlocks(buf, total) = Block
<1>1. IsFiniteSet(0 .. (NumBlocks - 1)) /\ Cardinality(0 .. (NumBlocks - 1)) = NumBlocks
  <2> DEFINE last == NumBlocks - 1
  <2>1. last \in Int /\ 0 \in Int /\ last >= 0 /\ NumBlocks = last + 1
    OBVIOUS
  <2> HIDE DEF last
  <2>2. /\ IsFiniteSet(0 .. last)
        /\ Cardinality(0 .. last) = IF 0 > last THEN 0 ELSE last - 0 + 1
    BY <2>1, FS_Interval
  <2>3. IsFiniteSet(0 .. last) /\ Cardinality(0 .. last) = NumBlocks
    BY <2>1, <2>2
  <2> QED
    BY <2>3 DEF last
<1>2. IsFiniteSet(Block) /\ Cardinality(Block) = NumBlocks
  BY <1>1 DEF Block
<1>3. IsFiniteSet(buf) /\ Cardinality(buf) \in Nat
  BY <1>2, FS_Subset, FS_CardinalityType
<1>4. total = NumBlocks /\ Cardinality(buf) = NumBlocks
  BY <1>3 DEF Complete
<1>5. buf = Block
  BY <1>2, <1>4, FS_Subset
<1> QED
  BY <1>4, <1>5 DEF assembleBlocks, Block

LEMMA TotalAfterRange ==
    ASSUME NEW total \in {-1, NumBlocks}, NEW b \in Block
    PROVE  TotalAfter(total, b) \in {-1, NumBlocks}
  BY DEF TotalAfter, MoreBlocks, Block

-----------------------------------------------------------------------------
(* A step leaves the parts of the invariant whose variables it leaves.     *)
USE DEF netVars, faultVars, cacheVars, objectVars, handlerVars, workerVars, serverVars

LEMMA NetSame ==
    ASSUME NetTypeOK, UNCHANGED netVars PROVE NetTypeOK'
  BY DEF NetTypeOK

LEMMA CacheSame ==
    ASSUME CacheTypeOK, UNCHANGED cacheVars PROVE CacheTypeOK'
  BY DEF CacheTypeOK

LEMMA ObjectSame ==
    ASSUME ObjectTypeOK, UNCHANGED objectVars PROVE ObjectTypeOK'
  BY DEF ObjectTypeOK

LEMMA HandlerSame ==
    ASSUME HandlerTypeOK, WholePayloads, UNCHANGED handlerVars
    PROVE  HandlerTypeOK' /\ WholePayloads'
  BY DEF HandlerTypeOK, WholePayloads

LEMMA WorkerSame ==
    ASSUME WorkerTypeOK, WorkersHaveState, UNCHANGED workerVars
    PROVE  WorkerTypeOK' /\ WorkersHaveState'
  BY DEF WorkerTypeOK, WorkersHaveState

LEMMA AnswersSame ==
    ASSUME AnswersBacked, toClient' \in SUBSET toClient,
           UNCHANGED <<runs, registered, response>>
    PROVE  AnswersBacked'
  BY DEF AnswersBacked

LEMMA FaultsSame ==
    ASSUME FaultTypeOK, UNCHANGED faultVars PROVE FaultTypeOK'
  BY DEF FaultTypeOK

LEMMA ResponseSame ==
    ASSUME response \in Codes \cup {"none"}, UNCHANGED response
    PROVE  response' \in Codes \cup {"none"}
  OBVIOUS

(* The parts put together.                                                 *)
ExchangeParts ==
    /\ NetTypeOK /\ CacheTypeOK /\ ObjectTypeOK /\ HandlerTypeOK /\ WorkerTypeOK
    /\ FaultTypeOK
    /\ response \in Codes \cup {"none"}
    /\ WholePayloads /\ WorkersHaveState /\ AnswersBacked

LEMMA PartsAreInv == ExchangeInv <=> ExchangeParts
  BY DEF ExchangeInv, ExchangeParts, ExchangeTypeOK, LocalStateTypeOK

LEMMA PartsAreInvNext == ExchangeInv' <=> ExchangeParts'
  BY DEF ExchangeInv, ExchangeParts, ExchangeTypeOK, LocalStateTypeOK

-----------------------------------------------------------------------------
LEMMA ExchangeInitInv ==
    ASSUME ExchangeInit
    PROVE  ExchangeInv
<1> USE DEF ExchangeInit, LocalStateInit, NetworkInit
<1>1. NetTypeOK /\ CacheTypeOK /\ FaultTypeOK
  <2>1. NetTypeOK
    BY DEF NetTypeOK
  <2>2. processed \in BOOLEAN
    BY ZenonT(10)
  <2>3. CacheTypeOK
    BY <2>2 DEF CacheTypeOK
  <2>4. FaultTypeOK
    BY NetworkAssumption DEF FaultTypeOK
  <2> QED
    BY <2>1, <2>3, <2>4
<1>2. ObjectTypeOK
  BY DEF ObjectTypeOK
<1>3. HandlerTypeOK
  <2>1. registered \in BOOLEAN /\ serverUp \in BOOLEAN
    BY LocalStateAssumption
  <2>2. runs \in Seq(SUBSET Block)
    OBVIOUS
  <2>3. /\ spawned \in [State -> [SUBSET Block -> Nat]]
        /\ stage \in [State -> Stages]
        /\ payload \in [State -> SUBSET Block]
    BY DEF Stages
  <2> QED
    BY <2>1, <2>2, <2>3 DEF HandlerTypeOK
<1>4. WorkerTypeOK /\ WorkersHaveState
  BY DEF WorkerTypeOK, WorkerSteps, WorkersHaveState, Block
<1>5. WholePayloads
  BY DEF WholePayloads
<1>6. AnswersBacked
  BY DEF AnswersBacked
<1> QED
  BY <1>1, <1>2, <1>3, <1>4, <1>5, <1>6, PartsAreInv DEF ExchangeParts

(* A datagram enters a worker.                                             *)
LEMMA DeliverInv ==
    ASSUME ExchangeInv, NEW w \in Worker, NEW b \in toServer, Deliver(w, b)
    PROVE  ExchangeInv'
<1>1. ExchangeParts
  BY PartsAreInv
<1>2. CacheTypeOK' /\ ObjectTypeOK'
  BY <1>1, CacheSame, ObjectSame DEF ExchangeParts, Deliver, listenLoop
<1>3. HandlerTypeOK' /\ WholePayloads'
  BY <1>1, HandlerSame DEF ExchangeParts, Deliver, listenLoop
<1>4. WorkerTypeOK' /\ WorkersHaveState'
  BY <1>1 DEF ExchangeParts, Deliver, listenLoop, WorkerTypeOK, WorkerSteps, WorkersHaveState,
              NetTypeOK
<1>5. NetTypeOK' /\ FaultTypeOK'
  BY <1>1, NetworkAssumption DEF ExchangeParts, Deliver, TakeFrom, NetTypeOK, FaultTypeOK
<1>6. AnswersBacked' /\ response' \in Codes \cup {"none"}
  BY <1>1, AnswersSame DEF ExchangeParts, Deliver, listenLoop
<1> QED
  BY <1>2, <1>3, <1>4, <1>5, <1>6, PartsAreInvNext DEF ExchangeParts

LEMMA LoseInv ==
    ASSUME ExchangeInv, Lose
    PROVE  ExchangeInv'
<1>1. ExchangeParts
  BY PartsAreInv
<1>2. toServer' \in SUBSET toServer /\ toClient' \in SUBSET toClient
  BY DEF Lose, LoseDatagram
<1>3. NetTypeOK'
  BY <1>1, <1>2 DEF ExchangeParts, NetTypeOK
<1>4. FaultTypeOK'
  BY <1>1, NetworkAssumption DEF ExchangeParts, FaultTypeOK, Lose, LoseDatagram
<1>5. CacheTypeOK' /\ ObjectTypeOK' /\ HandlerTypeOK' /\ WholePayloads'
  BY <1>1, CacheSame, ObjectSame, HandlerSame DEF ExchangeParts, Lose
<1>6. WorkerTypeOK' /\ WorkersHaveState'
  BY <1>1, WorkerSame DEF ExchangeParts, Lose
<1>7. AnswersBacked' /\ response' \in Codes \cup {"none"}
  BY <1>1, <1>2, AnswersSame DEF ExchangeParts, Lose
<1> QED
  BY <1>3, <1>4, <1>5, <1>6, <1>7, PartsAreInvNext DEF ExchangeParts

-----------------------------------------------------------------------------
(* The steps of a worker.                                                  *)
LEMMA CheckOrLoadInv ==
    ASSUME ExchangeInv, NEW w \in Worker, UNCHANGED <<faultVars, response>>,
           checkProcessed(w) \/ loadState(w)
    PROVE  ExchangeInv'
<1>1. ExchangeParts
  BY PartsAreInv
<1>2. UNCHANGED <<netVars, cacheVars, objectVars, handlerVars>>
  BY DEF checkProcessed, loadState
<1>3. NetTypeOK' /\ CacheTypeOK' /\ ObjectTypeOK' /\ FaultTypeOK'
  BY <1>1, <1>2, NetSame, CacheSame, ObjectSame, FaultsSame DEF ExchangeParts
<1>4. HandlerTypeOK' /\ WholePayloads'
  BY <1>1, <1>2, HandlerSame DEF ExchangeParts
<1>5. WorkerTypeOK' /\ WorkersHaveState'
  BY <1>1 DEF ExchangeParts, CacheTypeOK, checkProcessed, loadState, WorkerTypeOK, WorkerSteps,
              WorkersHaveState
<1>6. AnswersBacked' /\ response' \in Codes \cup {"none"}
  BY <1>1, <1>2, AnswersSame DEF ExchangeParts
<1> QED
  BY <1>3, <1>4, <1>5, <1>6, PartsAreInvNext DEF ExchangeParts

LEMMA StoreInv ==
    ASSUME ExchangeInv, NEW w \in Worker, UNCHANGED <<faultVars, response>>,
           NEW l \in State, storeState(w, l)
    PROVE  ExchangeInv'
<1>1. ExchangeParts
  BY PartsAreInv
<1>2. NetTypeOK' /\ FaultTypeOK'
  BY <1>1, NetSame, FaultsSame DEF ExchangeParts, storeState
<1>3. CacheTypeOK'
  BY <1>1 DEF ExchangeParts, CacheTypeOK, storeState
<1>4. ObjectTypeOK'
  BY <1>1 DEF ExchangeParts, ObjectTypeOK, storeState
<1>5. HandlerTypeOK'
  BY <1>1 DEF ExchangeParts, HandlerTypeOK, Stages, storeState
<1>6. WholePayloads'
  BY <1>1 DEF ExchangeParts, HandlerTypeOK, WholePayloads, storeState
<1>7. WorkerTypeOK' /\ WorkersHaveState'
  BY <1>1 DEF ExchangeParts, WorkerTypeOK, WorkerSteps, WorkersHaveState, storeState
<1>8. AnswersBacked' /\ response' \in Codes \cup {"none"}
  BY <1>1, AnswersSame DEF ExchangeParts, storeState
<1> QED
  BY <1>2, <1>3, <1>4, <1>5, <1>6, <1>7, <1>8, PartsAreInvNext DEF ExchangeParts

(* processMessage starts a respHandler goroutine with the whole payload,   *)
(* or acknowledges the block.                                              *)
LEMMA ReceiveStarts ==
    ASSUME ObjectTypeOK, HandlerTypeOK, NEW l \in State, NEW b \in Block,
           \/ NumBlocks > 1 /\ localStateReceiveARQBlock1(l, b)
           \/ NumBlocks = 1 /\ receiveWhole(l, b)
    PROVE  /\ \/ spawned' = [spawned EXCEPT ![l][Block] = @ + 1] /\ UNCHANGED toClient
              \/ /\ toClient' = toClient \cup {[code |-> "Continue", block |-> b]}
                 /\ UNCHANGED spawned
           /\ bufBlock1' \in [State -> SUBSET Block]
           /\ totalBlocks' \in [State -> {-1, NumBlocks}]
<1>1. CASE localStateReceiveARQBlock1(l, b)
  <2> DEFINE buf   == bufBlock1[l] \cup {b}
             total == TotalAfter(totalBlocks[l], b)
  <2>1. buf \in SUBSET Block
    BY DEF ObjectTypeOK
  <2>2. total \in {-1, NumBlocks}
    <3>1. totalBlocks[l] \in {-1, NumBlocks}
      BY DEF ObjectTypeOK
    <3> QED
      BY <3>1, TotalAfterRange
  <2>3. /\ bufBlock1' = [bufBlock1 EXCEPT ![l] = buf]
        /\ totalBlocks' = [totalBlocks EXCEPT ![l] = total]
        /\ \/ /\ Complete(total, buf)
              /\ spawned' = [spawned EXCEPT ![l][assembleBlocks(buf, total)] = @ + 1]
              /\ UNCHANGED toClient
           \/ /\ toClient' = toClient \cup {[code |-> "Continue", block |-> b]}
              /\ UNCHANGED spawned
    BY <1>1 DEF localStateReceiveARQBlock1
  <2> HIDE DEF buf, total
  <2>4. Complete(total, buf) => assembleBlocks(buf, total) = Block
    BY <2>1, <2>2, CompleteIsWhole
  <2>5. /\ bufBlock1' \in [State -> SUBSET Block]
        /\ totalBlocks' \in [State -> {-1, NumBlocks}]
    BY <2>1, <2>2, <2>3 DEF ObjectTypeOK
  <2> QED
    BY <2>3, <2>4, <2>5
<1>2. CASE NumBlocks = 1 /\ receiveWhole(l, b)
  <2>1. {b} = Block
    BY <1>2 DEF Block
  <2> QED
    BY <1>2, <2>1 DEF receiveWhole, ObjectTypeOK
<1> QED
  BY <1>1, <1>2

LEMMA SpawnWhole ==
    ASSUME HandlerTypeOK, WholePayloads, NEW l \in State,
           UNCHANGED <<registered, stage, payload, runs, serverUp>>,
           spawned' = [spawned EXCEPT ![l][Block] = @ + 1] \/ UNCHANGED spawned
    PROVE  HandlerTypeOK' /\ WholePayloads'
<1>1. Block \in SUBSET Block
  OBVIOUS
<1>2. CASE spawned' = [spawned EXCEPT ![l][Block] = @ + 1]
  <2>1. spawned[l] \in [SUBSET Block -> Nat]
    BY DEF HandlerTypeOK
  <2>2. spawned' = [spawned EXCEPT ![l] = [spawned[l] EXCEPT ![Block] = spawned[l][Block] + 1]]
    BY <1>2
  <2>3. [spawned[l] EXCEPT ![Block] = spawned[l][Block] + 1] \in [SUBSET Block -> Nat]
    BY <1>1, <2>1
  <2>4. spawned' \in [State -> [SUBSET Block -> Nat]]
    BY <2>2, <2>3 DEF HandlerTypeOK
  <2>5. \A k \in State : \A p \in SUBSET Block :
           p # Block => spawned'[k][p] = spawned[k][p]
    BY <2>1, <2>2 DEF HandlerTypeOK
  <2>6. HandlerTypeOK'
    BY <2>4 DEF HandlerTypeOK
  <2>7. WholePayloads'
    <3>1. SUFFICES ASSUME NEW k \in State
                   PROVE  /\ \A p \in SUBSET Block : spawned'[k][p] > 0 => p = Block
                          /\ stage'[k] = "handler" => payload'[k] = Block
      BY DEF WholePayloads
    <3>2. stage'[k] = "handler" => payload'[k] = Block
      BY DEF WholePayloads
    <3>3. ASSUME NEW p \in SUBSET Block, spawned'[k][p] > 0, p # Block
          PROVE  FALSE
      <4>1. spawned[k][p] > 0
        BY <2>5, <3>3
      <4> QED
        BY <3>3, <4>1 DEF WholePayloads
    <3> QED
      BY <3>2, <3>3
  <2> QED
    BY <2>6, <2>7
<1>3. CASE UNCHANGED spawned
  BY <1>3, HandlerSame
<1> QED
  BY <1>2, <1>3

LEMMA ProcessMessageInv ==
    ASSUME ExchangeInv, NEW w \in Worker, UNCHANGED <<faultVars, response>>,
           processMessage(w)
    PROVE  ExchangeInv'
<1> DEFINE l == wls[w]
           b == wmsg[w]
<1>1. ExchangeParts
  BY PartsAreInv
<1>2. l \in State /\ b \in Block
  BY <1>1 DEF ExchangeParts, WorkersHaveState, WorkerTypeOK, processMessage
<1>3. \/ NumBlocks > 1 /\ localStateReceiveARQBlock1(l, b)
      \/ NumBlocks = 1 /\ receiveWhole(l, b)
  BY DEF processMessage
<1>4. UNCHANGED <<toServer, cacheVars, runnedHandler, registered, stage, payload, runs, serverUp>>
  BY DEF processMessage
<1>5. WorkerTypeOK' /\ WorkersHaveState'
  BY <1>1, LocalStateAssumption
     DEF ExchangeParts, WorkersHaveState, WorkerTypeOK, WorkerSteps, processMessage
<1> HIDE DEF l, b
<1>6. /\ \/ spawned' = [spawned EXCEPT ![l][Block] = @ + 1] /\ UNCHANGED toClient
         \/ /\ toClient' = toClient \cup {[code |-> "Continue", block |-> b]}
            /\ UNCHANGED spawned
      /\ bufBlock1' \in [State -> SUBSET Block]
      /\ totalBlocks' \in [State -> {-1, NumBlocks}]
  BY <1>1, <1>2, <1>3, ReceiveStarts DEF ExchangeParts
<1>7. HandlerTypeOK' /\ WholePayloads'
  BY <1>1, <1>2, <1>4, <1>6, SpawnWhole DEF ExchangeParts
<1>8. ObjectTypeOK'
  BY <1>1, <1>4, <1>6 DEF ExchangeParts, ObjectTypeOK
<1>9. NetTypeOK'
  BY <1>1, <1>2, <1>4, <1>6 DEF ExchangeParts, NetTypeOK, Ack
<1>10. AnswersBacked'
  BY <1>1, <1>4, <1>6 DEF ExchangeParts, AnswersBacked
<1>11. CacheTypeOK' /\ FaultTypeOK' /\ response' \in Codes \cup {"none"}
  BY <1>1, <1>4, CacheSame, FaultsSame DEF ExchangeParts
<1> QED
  BY <1>5, <1>7, <1>8, <1>9, <1>10, <1>11, PartsAreInvNext DEF ExchangeParts

-----------------------------------------------------------------------------
(* The steps of respHandler.                                               *)
LEMMA CompareAndSwapInv ==
    ASSUME ExchangeInv, UNCHANGED <<faultVars, response>>,
           NEW l \in State, NEW p \in SUBSET Block, compareAndSwap(l, p)
    PROVE  ExchangeInv'
<1>1. ExchangeParts
  BY PartsAreInv
<1>2. NetTypeOK' /\ CacheTypeOK' /\ FaultTypeOK' /\ response' \in Codes \cup {"none"}
  BY <1>1, NetSame, CacheSame, FaultsSame DEF ExchangeParts, compareAndSwap
<1>3. WorkerTypeOK' /\ WorkersHaveState'
  BY <1>1, WorkerSame DEF ExchangeParts, compareAndSwap
<1>4. ObjectTypeOK'
  BY <1>1 DEF ExchangeParts, ObjectTypeOK, compareAndSwap
<1>5. spawned[l] \in [SUBSET Block -> Nat] /\ spawned[l][p] > 0 /\ p = Block
  <2>1. spawned[l] \in [SUBSET Block -> Nat]
    BY <1>1 DEF ExchangeParts, HandlerTypeOK
  <2>2. spawned[l][p] > 0
    BY DEF compareAndSwap
  <2>3. p = Block
    BY <1>1, <2>2 DEF ExchangeParts, WholePayloads
  <2> QED
    BY <2>1, <2>2, <2>3
<1>6. spawned' = [spawned EXCEPT ![l] = [spawned[l] EXCEPT ![p] = spawned[l][p] - 1]]
  BY DEF compareAndSwap
<1>7. [spawned[l] EXCEPT ![p] = spawned[l][p] - 1] \in [SUBSET Block -> Nat]
  BY <1>5
<1>8. spawned' \in [State -> [SUBSET Block -> Nat]]
  BY <1>1, <1>6, <1>7 DEF ExchangeParts, HandlerTypeOK
<1>9. \A k \in State : \A q \in SUBSET Block :
         q # Block => spawned'[k][q] = spawned[k][q]
  BY <1>1, <1>5, <1>6 DEF ExchangeParts, HandlerTypeOK
<1>10. HandlerTypeOK'
  BY <1>1, <1>8 DEF ExchangeParts, HandlerTypeOK, Stages, compareAndSwap
<1>11. WholePayloads'
  <2>1. \A k \in State : stage'[k] = "handler" => payload'[k] = Block
    BY <1>1, <1>5 DEF ExchangeParts, HandlerTypeOK, WholePayloads, compareAndSwap
  <2> QED
    BY <1>1, <1>9, <2>1 DEF ExchangeParts, WholePayloads
<1>12. AnswersBacked'
  BY <1>1, AnswersSame DEF ExchangeParts, compareAndSwap
<1> QED
  BY <1>2, <1>3, <1>4, <1>10, <1>11, <1>12, PartsAreInvNext DEF ExchangeParts

LEMMA NoResourceInv ==
    ASSUME ExchangeInv, UNCHANGED <<faultVars, response>>,
           NEW l \in State, noResource(l)
    PROVE  ExchangeInv'
<1>1. ExchangeParts
  BY PartsAreInv
<1>2. CacheTypeOK' /\ ObjectTypeOK' /\ FaultTypeOK' /\ response' \in Codes \cup {"none"}
  BY <1>1, CacheSame, ObjectSame, FaultsSame DEF ExchangeParts, noResource
<1>3. WorkerTypeOK' /\ WorkersHaveState'
  BY <1>1, WorkerSame DEF ExchangeParts, noResource
<1>4. HandlerTypeOK'
  BY <1>1 DEF ExchangeParts, HandlerTypeOK, Stages, noResource
<1>5. WholePayloads'
  BY <1>1 DEF ExchangeParts, HandlerTypeOK, WholePayloads, noResource
<1>6. NetTypeOK'
  BY <1>1 DEF ExchangeParts, NetTypeOK, Ack, noResource
<1>7. AnswersBacked'
  BY <1>1 DEF ExchangeParts, AnswersBacked, noResource
<1> QED
  BY <1>2, <1>3, <1>4, <1>5, <1>6, <1>7, PartsAreInvNext DEF ExchangeParts

LEMMA RequestOnReceiveInv ==
    ASSUME ExchangeInv, UNCHANGED <<faultVars, response>>,
           NEW l \in State, NEW o \in HandlerOutcomes, requestOnReceive(l, o)
    PROVE  ExchangeInv' /\ runs' = Append(runs, Block)
<1>1. ExchangeParts
  BY PartsAreInv
<1>2. CacheTypeOK' /\ ObjectTypeOK' /\ FaultTypeOK' /\ response' \in Codes \cup {"none"}
  BY <1>1, CacheSame, ObjectSame, FaultsSame DEF ExchangeParts, requestOnReceive
<1>3. WorkerTypeOK' /\ WorkersHaveState'
  BY <1>1, WorkerSame DEF ExchangeParts, requestOnReceive
<1>4. payload[l] = Block /\ runs' = Append(runs, Block)
  BY <1>1 DEF ExchangeParts, WholePayloads, requestOnReceive
<1>5. runs' \in Seq(SUBSET Block) /\ runs' # <<>>
  <2>1. runs \in Seq(SUBSET Block) /\ Block \in SUBSET Block
    BY <1>1 DEF ExchangeParts, HandlerTypeOK
  <2> QED
    BY <1>4, <2>1
<1>6. serverUp' \in BOOLEAN /\ registered' \in BOOLEAN
  <2>1. registered' = registered /\ serverUp' = (o # "panic")
    BY DEF requestOnReceive
  <2>2. registered \in BOOLEAN
    BY <1>1 DEF ExchangeParts, HandlerTypeOK
  <2> QED
    BY <2>1, <2>2
<1>7. HandlerTypeOK'
  BY <1>1, <1>5, <1>6 DEF ExchangeParts, HandlerTypeOK, Stages, requestOnReceive
<1>8. WholePayloads'
  BY <1>1 DEF ExchangeParts, HandlerTypeOK, WholePayloads, requestOnReceive
<1>9. NetTypeOK'
  BY <1>1 DEF ExchangeParts, NetTypeOK, Ack, requestOnReceive
<1>10. AnswersBacked'
  BY <1>1, <1>5 DEF ExchangeParts, AnswersBacked, requestOnReceive
<1> QED
  BY <1>2, <1>3, <1>4, <1>7, <1>8, <1>9, <1>10, PartsAreInvNext DEF ExchangeParts

(* The deferred Delete and Set, and the expiry of either entry.            *)
LEMMA CacheInv ==
    ASSUME ExchangeInv, UNCHANGED <<faultVars, response>>,
           \/ \E l \in State : deleteState(l) \/ markProcessed(l)
           \/ expireState
           \/ expireProcessed
    PROVE  ExchangeInv'
<1>1. ExchangeParts
  BY PartsAreInv
<1>2. /\ UNCHANGED <<netVars, objectVars, workerVars>>
      /\ UNCHANGED <<registered, spawned, payload, runs, serverUp>>
  BY DEF deleteState, markProcessed, expireState, expireProcessed
<1>3. CacheTypeOK'
  <2>1. storage' \in State \cup {None}
    BY <1>1 DEF ExchangeParts, CacheTypeOK, deleteState, markProcessed, expireState, expireProcessed
  <2>2. processed' \in BOOLEAN
    BY <1>1 DEF ExchangeParts, CacheTypeOK, deleteState, markProcessed, expireState, expireProcessed
  <2> QED
    BY <2>1, <2>2 DEF CacheTypeOK
<1>4. /\ stage' \in [State -> Stages]
      /\ \A k \in State : stage'[k] = "handler" => stage[k] = "handler"
  BY <1>1 DEF ExchangeParts, HandlerTypeOK, Stages, deleteState, markProcessed, expireState,
              expireProcessed
<1>5. HandlerTypeOK' /\ WholePayloads'
  BY <1>1, <1>2, <1>4 DEF ExchangeParts, HandlerTypeOK, WholePayloads
<1>6. NetTypeOK' /\ ObjectTypeOK' /\ FaultTypeOK'
  BY <1>1, <1>2, NetSame, ObjectSame, FaultsSame DEF ExchangeParts
<1>7. WorkerTypeOK' /\ WorkersHaveState'
  BY <1>1, <1>2, WorkerSame DEF ExchangeParts
<1>8. AnswersBacked' /\ response' \in Codes \cup {"none"}
  BY <1>1, <1>2, AnswersSame DEF ExchangeParts
<1> QED
  BY <1>3, <1>5, <1>6, <1>7, <1>8, PartsAreInvNext DEF ExchangeParts

-----------------------------------------------------------------------------
(* A step of the server keeps the invariant, and calls the handler with    *)
(* the whole payload or not at all.                                        *)
LEMMA ServerStepInv ==
    ASSUME ExchangeInv, serverStep
    PROVE  /\ ExchangeInv'
           /\ UNCHANGED <<faultVars, response, registered>>
           /\ UNCHANGED runs \/ (registered /\ runs' = Append(runs, Block))
<1>1. UNCHANGED <<faultVars, response>>
  BY DEF serverStep
<1>2. ASSUME NEW w \in Worker, checkProcessed(w) \/ loadState(w)
      PROVE  ExchangeInv' /\ UNCHANGED <<registered, runs>>
  BY <1>1, <1>2, CheckOrLoadInv DEF checkProcessed, loadState
<1>3. ASSUME NEW w \in Worker, NEW l \in State, storeState(w, l)
      PROVE  ExchangeInv' /\ UNCHANGED <<registered, runs>>
  BY <1>1, <1>3, StoreInv DEF storeState
<1>4. ASSUME NEW w \in Worker, processMessage(w)
      PROVE  ExchangeInv' /\ UNCHANGED <<registered, runs>>
  BY <1>1, <1>4, ProcessMessageInv DEF processMessage
<1>5. ASSUME NEW l \in State, NEW p \in SUBSET Block, compareAndSwap(l, p)
      PROVE  ExchangeInv' /\ UNCHANGED <<registered, runs>>
  BY <1>1, <1>5, CompareAndSwapInv DEF compareAndSwap
<1>6. ASSUME NEW l \in State, noResource(l)
      PROVE  ExchangeInv' /\ UNCHANGED <<registered, runs>>
  BY <1>1, <1>6, NoResourceInv DEF noResource
<1>7. ASSUME NEW l \in State, NEW o \in HandlerOutcomes, requestOnReceive(l, o)
      PROVE  ExchangeInv' /\ registered /\ UNCHANGED registered /\ runs' = Append(runs, Block)
  BY <1>1, <1>7, RequestOnReceiveInv DEF requestOnReceive
<1>8. ASSUME \/ \E l \in State : deleteState(l) \/ markProcessed(l)
             \/ expireState \/ expireProcessed
      PROVE  ExchangeInv' /\ UNCHANGED <<registered, runs>>
  BY <1>1, <1>8, CacheInv DEF deleteState, markProcessed, expireState, expireProcessed
<1> QED
  BY <1>1, <1>2, <1>3, <1>4, <1>5, <1>6, <1>7, <1>8 DEF serverStep, workerStep, handlerStep

-----------------------------------------------------------------------------
(* What a client may do: put blocks on the wire, take ACKs off it, return  *)
(* the code of an ACK it took.                                             *)
LEMMA ClientStepInv ==
    ASSUME ExchangeInv, UNCHANGED serverVars, FaultTypeOK',
           toServer' \in SUBSET Block, toClient' \in SUBSET toClient,
           \/ UNCHANGED response
           \/ \E m \in toClient : m.code \in Codes /\ response' = m.code
    PROVE  ExchangeInv'
<1>1. ExchangeParts
  BY PartsAreInv
<1>2. NetTypeOK'
  BY <1>1 DEF ExchangeParts, NetTypeOK
<1>3. CacheTypeOK' /\ ObjectTypeOK'
  BY <1>1, CacheSame, ObjectSame DEF ExchangeParts
<1>4. HandlerTypeOK' /\ WholePayloads'
  BY <1>1, HandlerSame DEF ExchangeParts
<1>5. WorkerTypeOK' /\ WorkersHaveState'
  BY <1>1, WorkerSame DEF ExchangeParts
<1>6. response' \in Codes \cup {"none"}
  BY <1>1 DEF ExchangeParts
<1>7. AnswersBacked'
  <2>1. CASE UNCHANGED response
    BY <1>1, <2>1, AnswersSame DEF ExchangeParts
  <2>2. CASE \E m \in toClient : m.code \in Codes /\ response' = m.code
    BY <1>1, <2>2 DEF ExchangeParts, AnswersBacked, Codes
  <2> QED
    BY <2>1, <2>2
<1> QED
  BY <1>2, <1>3, <1>4, <1>5, <1>6, <1>7, PartsAreInvNext DEF ExchangeParts

LEMMA TakeFromRange ==
    ASSUME NEW flight, NEW flight_, NEW m, TakeFrom(flight, flight_, m), FaultTypeOK
    PROVE  /\ m \in flight
           /\ flight_ \in SUBSET flight
           /\ dups' \in 0 .. MaxDup
<1>1. m \in flight /\ flight_ \in SUBSET flight
  BY DEF TakeFrom
<1>2. dups' \in 0 .. MaxDup
  BY NetworkAssumption DEF TakeFrom, FaultTypeOK
<1> QED
  BY <1>1, <1>2
-----------------------------------------------------------------------------
(* How often a block has arrived, as far as it still counts: the runs of   *)
(* the handler it was part of, the localStates that hold it for a run to   *)
(* come, the workers that carry it - and the copy that is in flight.       *)
Holds(l, b) ==
    /\ stage[l] \in {"none", "handler"}
    /\ b \in bufBlock1[l] \/ spawned[l][Block] > 0 \/ stage[l] = "handler"

Holders(b)  == {l \in State : Holds(l, b)}
Carriers(b) == {w \in Worker : wpc[w] # "free" /\ wmsg[w] = b}
InFlight(b) == IF b \in toServer THEN 1 ELSE 0

Arrived(b) == Len(runs) + Cardinality(Holders(b)) + Cardinality(Carriers(b))
Used(b)    == Arrived(b) + InFlight(b)

(* A localState on which the CAS has succeeded lets no other goroutine     *)
(* through: it is run once.                                                *)
CasCloses == \A l \in State : stage[l] # "none" => runnedHandler[l]

LEMMA OneMore ==
    ASSUME NEW S, IsFiniteSet(S), NEW T, NEW x, T \subseteq S \cup {x}
    PROVE  IsFiniteSet(T) /\ Cardinality(T) \in Nat /\ Cardinality(T) <= Cardinality(S) + 1
<1>1. /\ IsFiniteSet(S \cup {x})
      /\ Cardinality(S \cup {x}) <= Cardinality(S) + 1
      /\ Cardinality(S) \in Nat
  <2>1. Cardinality(S) \in Nat
    BY FS_CardinalityType
  <2>2. /\ IsFiniteSet(S \cup {x})
        /\ Cardinality(S \cup {x}) = IF x \in S THEN Cardinality(S) ELSE Cardinality(S) + 1
    BY FS_AddElement
  <2> QED
    BY <2>1, <2>2
<1>2. IsFiniteSet(T) /\ Cardinality(T) <= Cardinality(S \cup {x})
  BY <1>1, FS_Subset
<1>3. Cardinality(T) \in Nat /\ Cardinality(S \cup {x}) \in Nat
  BY <1>1, <1>2, FS_CardinalityType
<1> QED
  BY <1>1, <1>2, <1>3

LEMMA OneLess ==
    ASSUME NEW S, IsFiniteSet(S), NEW x \in S, NEW T, T \subseteq S \ {x}
    PROVE  Cardinality(T) + 1 <= Cardinality(S)
<1>1. /\ IsFiniteSet(S \ {x})
      /\ Cardinality(S \ {x}) = Cardinality(S) - 1
      /\ Cardinality(S) \in Nat
  BY FS_RemoveElement, FS_CardinalityType
<1>2. IsFiniteSet(T) /\ Cardinality(T) <= Cardinality(S \ {x})
  BY <1>1, FS_Subset
<1>3. Cardinality(T) \in Nat /\ Cardinality(S \ {x}) \in Nat
  BY <1>1, <1>2, FS_CardinalityType
<1> QED
  BY <1>1, <1>2, <1>3

LEMMA NoMore ==
    ASSUME NEW S, IsFiniteSet(S), NEW T, T \subseteq S
    PROVE  Cardinality(T) <= Cardinality(S)
  BY FS_Subset

LEMMA HoldersFinite ==
    /\ \A b : IsFiniteSet(Holders(b)) /\ Cardinality(Holders(b)) \in Nat
    /\ \A b : IsFiniteSet(Carriers(b)) /\ Cardinality(Carriers(b)) \in Nat
<1>1. IsFiniteSet(State) /\ IsFiniteSet(Worker)
  BY LocalStateAssumption
<1>2. \A b : Holders(b) \in SUBSET State /\ Carriers(b) \in SUBSET Worker
  BY DEF Holders, Carriers
<1> QED
  BY <1>1, <1>2, FS_Subset, FS_CardinalityType

LEMMA HoldersFiniteNext ==
    /\ \A b : IsFiniteSet(Holders(b)') /\ Cardinality(Holders(b)') \in Nat
    /\ \A b : IsFiniteSet(Carriers(b)') /\ Cardinality(Carriers(b)') \in Nat
<1>1. IsFiniteSet(State) /\ IsFiniteSet(Worker)
  BY LocalStateAssumption
<1>2. \A b : Holders(b)' \in SUBSET State /\ Carriers(b)' \in SUBSET Worker
  BY DEF Holders, Carriers
<1> QED
  BY <1>1, <1>2, FS_Subset, FS_CardinalityType

(* A step that neither holds nor carries a block more often, and calls no  *)
(* handler.                                                                *)
LEMMA ArrivedKept ==
    ASSUME HandlerTypeOK, UNCHANGED runs, NEW b,
           Holders(b)' \subseteq Holders(b), Carriers(b)' \subseteq Carriers(b)
    PROVE  Arrived(b)' <= Arrived(b)
<1>1. Cardinality(Holders(b)') <= Cardinality(Holders(b))
  BY HoldersFinite, NoMore
<1>2. Cardinality(Carriers(b)') <= Cardinality(Carriers(b))
  BY HoldersFinite, NoMore
<1>3. Len(runs) \in Nat
  BY DEF HandlerTypeOK
<1> QED
  BY <1>1, <1>2, <1>3, HoldersFinite, HoldersFiniteNext DEF Arrived

(* processMessage: the block moves from the worker into the localState.    *)
LEMMA BufferedOnce ==
    ASSUME ExchangeInv, NEW w \in Worker, processMessage(w), NEW b \in Block
    PROVE  Arrived(b)' <= Arrived(b)
<1> DEFINE l == wls[w]
           c == wmsg[w]
<1>1. ExchangeParts
  BY PartsAreInv
<1>2. /\ l \in State /\ c \in Block
      /\ UNCHANGED <<runs, stage, wmsg>>
      /\ wpc' = [wpc EXCEPT ![w] = "free"] /\ wpc[w] = "process"
  BY <1>1 DEF ExchangeParts, WorkersHaveState, WorkerTypeOK, processMessage
<1>3. \A k \in State : stage[k] \in {"none", "handler"} /\ Holds(k, b)' => Holds(k, b) \/ (k = l /\ b = c)
  <2>1. CASE NumBlocks > 1 /\ localStateReceiveARQBlock1(l, c)
    <3> DEFINE buf   == bufBlock1[l] \cup {c}
               total == TotalAfter(totalBlocks[l], c)
    <3>1. /\ bufBlock1' = [bufBlock1 EXCEPT ![l] = buf]
          /\ \/ /\ Complete(total, buf)
                /\ spawned' = [spawned EXCEPT ![l][assembleBlocks(buf, total)] = @ + 1]
             \/ UNCHANGED spawned
      BY <2>1 DEF localStateReceiveARQBlock1
    <3>2. buf \in SUBSET Block /\ total \in {-1, NumBlocks}
      <4>1. bufBlock1[l] \in SUBSET Block /\ totalBlocks[l] \in {-1, NumBlocks}
        BY <1>1, <1>2 DEF ExchangeParts, ObjectTypeOK
      <4> QED
        BY <1>2, <4>1, TotalAfterRange
    <3>3. Complete(total, buf) => buf = Block
      <4>1. Complete(total, buf) => assembleBlocks(buf, total) = Block
        BY <3>2, CompleteIsWhole
      <4> QED
        BY <3>2, <4>1 DEF assembleBlocks
    <3> HIDE DEF buf, total
    <3>4. \A k \in State : k # l => bufBlock1'[k] = bufBlock1[k] /\ spawned'[k] = spawned[k]
      BY <1>1, <3>1 DEF ExchangeParts, ObjectTypeOK, HandlerTypeOK
    <3>5. bufBlock1'[l] = buf
      BY <1>1, <1>2, <3>1 DEF ExchangeParts, ObjectTypeOK
    <3>6. b # c => (b \in buf <=> b \in bufBlock1[l])
      BY DEF buf
    <3>7. spawned'[l] = spawned[l] \/ buf = Block
      BY <3>1, <3>3
    <3> QED
      BY <1>2, <3>4, <3>5, <3>6, <3>7 DEF Holds
  <2>2. CASE NumBlocks = 1 /\ receiveWhole(l, c)
    <3>1. b = c
      BY <1>2, <2>2 DEF Block
    <3>2. \A k \in State : k # l => bufBlock1'[k] = bufBlock1[k] /\ spawned'[k] = spawned[k]
      BY <1>1, <2>2 DEF ExchangeParts, ObjectTypeOK, HandlerTypeOK, receiveWhole
    <3> QED
      BY <1>2, <3>1, <3>2 DEF Holds
  <2> QED
    BY <2>1, <2>2 DEF processMessage
<1>4. \A k \in State : Holds(k, b)' => stage[k] \in {"none", "handler"}
  BY <1>2 DEF Holds
<1>5. Carriers(b)' \subseteq Carriers(b) /\ (b = c => w \in Carriers(b) /\ Carriers(b)' \subseteq Carriers(b) \ {w})
  BY <1>1, <1>2 DEF Carriers, ExchangeParts, WorkerTypeOK
<1> HIDE DEF l, c
<1>6. CASE b # c
  <2>1. Holders(b)' \subseteq Holders(b)
    BY <1>3, <1>4, <1>6 DEF Holders
  <2> QED
    BY <1>1, <1>2, <1>5, <2>1, ArrivedKept DEF ExchangeParts
<1>7. CASE b = c
  <2>1. Holders(b)' \subseteq Holders(b) \cup {l}
    BY <1>3, <1>4 DEF Holders
  <2>2. Cardinality(Holders(b)') <= Cardinality(Holders(b)) + 1
    BY <2>1, HoldersFinite, OneMore
  <2>3. Cardinality(Carriers(b)') + 1 <= Cardinality(Carriers(b))
    BY <1>5, <1>7, HoldersFinite, OneLess
  <2>4. Len(runs) \in Nat
    BY <1>1 DEF ExchangeParts, HandlerTypeOK
  <2> QED
    BY <1>2, <2>2, <2>3, <2>4, HoldersFinite, HoldersFiniteNext DEF Arrived
<1> QED
  BY <1>6, <1>7

(* The call of the handler takes every block from the localState.          *)
LEMMA HandledOnce ==
    ASSUME ExchangeInv, NEW l \in State, NEW o \in HandlerOutcomes, requestOnReceive(l, o),
           NEW b \in Block
    PROVE  Arrived(b)' <= Arrived(b)
<1>1. ExchangeParts
  BY PartsAreInv
<1>2. /\ stage[l] = "handler" /\ stage' = [stage EXCEPT ![l] = "delete"]
      /\ UNCHANGED <<bufBlock1, spawned, workerVars>>
      /\ runs' = Append(runs, payload[l])
  BY DEF requestOnReceive
<1>3. l \in Holders(b) /\ Holders(b)' \subseteq Holders(b) \ {l}
  BY <1>1, <1>2 DEF Holders, Holds, ExchangeParts, HandlerTypeOK
<1>4. Carriers(b)' = Carriers(b)
  BY <1>2 DEF Carriers
<1>5. Cardinality(Holders(b)') + 1 <= Cardinality(Holders(b))
  BY <1>3, HoldersFinite, OneLess
<1>6. Len(runs) \in Nat /\ Len(runs') = Len(runs) + 1
  <2>1. runs \in Seq(SUBSET Block) /\ payload[l] \in SUBSET Block
    BY <1>1 DEF ExchangeParts, HandlerTypeOK
  <2> QED
    BY <1>2, <2>1
<1> QED
  BY <1>4, <1>5, <1>6, HoldersFinite, HoldersFiniteNext DEF Arrived

LEMMA ServerUses ==
    ASSUME ExchangeInv, CasCloses, serverStep
    PROVE  /\ CasCloses'
           /\ \A b \in Block : Used(b)' <= Used(b)
<1>1. ExchangeParts
  BY PartsAreInv
<1>2. /\ Len(runs) \in Nat
      /\ \A b : Arrived(b) \in Nat
  <2>1. Len(runs) \in Nat
    BY <1>1 DEF ExchangeParts, HandlerTypeOK
  <2> QED
    BY <2>1, HoldersFinite DEF Arrived
<1>3. /\ Len(runs') \in Nat
      /\ \A b : Arrived(b)' \in Nat
  <2>1. ExchangeParts'
    BY ServerStepInv, PartsAreInvNext
  <2>2. Len(runs') \in Nat
    BY <2>1 DEF ExchangeParts, HandlerTypeOK
  <2> QED
    BY <2>2, HoldersFiniteNext DEF Arrived
<1>4. SUFFICES CasCloses' /\ UNCHANGED toServer /\ \A b \in Block : Arrived(b)' <= Arrived(b)
  BY <1>2, <1>3 DEF Used, InFlight
<1> DEFINE Kept == /\ CasCloses' /\ UNCHANGED <<toServer, runs>>
                   /\ \A b : Holders(b)' \subseteq Holders(b) /\ Carriers(b)' \subseteq Carriers(b)
<1>5. ASSUME Kept
      PROVE  CasCloses' /\ UNCHANGED toServer /\ \A b \in Block : Arrived(b)' <= Arrived(b)
  <2>1. HandlerTypeOK
    BY <1>1 DEF ExchangeParts
  <2> QED
    BY <1>5, <2>1, ArrivedKept
<1> USE DEF CasCloses, Holders, Carriers
<1>6. ASSUME NEW w \in Worker, checkProcessed(w) \/ loadState(w)
      PROVE  Kept
  BY <1>1, <1>6 DEF checkProcessed, loadState, ExchangeParts, WorkerTypeOK, Holds
<1>7. ASSUME NEW w \in Worker, NEW l \in State, storeState(w, l)
      PROVE  Kept
  <2>1. CasCloses'
    BY <1>1, <1>7 DEF storeState, ExchangeParts, ObjectTypeOK, HandlerTypeOK
  <2>2. \A b : Carriers(b)' \subseteq Carriers(b)
    BY <1>1, <1>7 DEF storeState, ExchangeParts, WorkerTypeOK
  <2>3. ~(spawned[l][Block] > 0)
    BY <1>7 DEF storeState, Referenced
  <2>4. \A k \in State : \A b : Holds(k, b)' => Holds(k, b)
    BY <1>1, <1>7, <2>3 DEF storeState, ExchangeParts, ObjectTypeOK, HandlerTypeOK, Holds
  <2> QED
    BY <1>7, <2>1, <2>2, <2>4 DEF storeState
<1>8. ASSUME NEW w \in Worker, processMessage(w)
      PROVE  CasCloses' /\ UNCHANGED toServer /\ \A b \in Block : Arrived(b)' <= Arrived(b)
  <2>1. \A b \in Block : Arrived(b)' <= Arrived(b)
    BY <1>8, BufferedOnce
  <2> QED
    BY <1>8, <2>1 DEF processMessage
<1>9. ASSUME NEW l \in State, NEW p \in SUBSET Block, compareAndSwap(l, p)
      PROVE  Kept
  <2>1. p = Block /\ spawned[l][p] > 0
    BY <1>1, <1>9 DEF compareAndSwap, ExchangeParts, WholePayloads
  <2>2. CasCloses'
    BY <1>1, <1>9 DEF compareAndSwap, ExchangeParts, ObjectTypeOK, HandlerTypeOK
  <2>3. \A k \in State : k # l => UNCHANGED <<spawned[k], stage[k]>>
    BY <1>1, <1>9 DEF compareAndSwap, ExchangeParts, HandlerTypeOK
  <2>4. stage'[l] \in {"none", "handler"} => stage[l] \in {"none", "handler"}
    BY <1>1, <1>9 DEF compareAndSwap, ExchangeParts, HandlerTypeOK
  <2>5. \A k \in State : \A b : Holds(k, b)' => Holds(k, b)
    BY <1>9, <2>1, <2>3, <2>4 DEF compareAndSwap, Holds
  <2> QED
    BY <1>9, <2>2, <2>5 DEF compareAndSwap
<1>10. ASSUME NEW l \in State, noResource(l) \/ deleteState(l) \/ markProcessed(l)
       PROVE  Kept
  BY <1>1, <1>10 DEF noResource, deleteState, markProcessed, ExchangeParts, HandlerTypeOK, Holds
<1>11. ASSUME NEW l \in State, NEW o \in HandlerOutcomes, requestOnReceive(l, o)
       PROVE  CasCloses' /\ UNCHANGED toServer /\ \A b \in Block : Arrived(b)' <= Arrived(b)
  <2>1. \A b \in Block : Arrived(b)' <= Arrived(b)
    BY <1>11, HandledOnce
  <2>2. CasCloses'
    BY <1>1, <1>11 DEF requestOnReceive, ExchangeParts, HandlerTypeOK
  <2> QED
    BY <1>11, <2>1, <2>2 DEF requestOnReceive
<1>12. CASE expireState \/ expireProcessed
  <2>1. Kept
    BY <1>12 DEF expireState, expireProcessed, Holds
  <2> QED
    BY <1>5, <2>1
<1> HIDE DEF Kept, CasCloses, Holders, Carriers
<1> QED
  BY <1>5, <1>6, <1>7, <1>8, <1>9, <1>10, <1>11, <1>12 DEF serverStep, workerStep, handlerStep

LEMMA UsedTypes ==
    ASSUME HandlerTypeOK, NEW b
    PROVE  /\ Arrived(b) \in Nat /\ InFlight(b) \in {0, 1} /\ Used(b) \in Nat
           /\ Len(runs) <= Used(b)
<1>1. Len(runs) \in Nat
  BY DEF HandlerTypeOK
<1>2. Arrived(b) \in Nat /\ Len(runs) <= Arrived(b)
  BY <1>1, HoldersFinite DEF Arrived
<1>3. InFlight(b) \in {0, 1}
  BY DEF InFlight
<1> QED
  BY <1>1, <1>2, <1>3 DEF Used

LEMMA UsedTypesNext ==
    ASSUME HandlerTypeOK', NEW b
    PROVE  Arrived(b)' \in Nat /\ InFlight(b)' \in {0, 1} /\ Used(b)' \in Nat
<1>1. Len(runs') \in Nat
  BY DEF HandlerTypeOK
<1>2. Arrived(b)' \in Nat
  BY <1>1, HoldersFiniteNext DEF Arrived
<1>3. InFlight(b)' \in {0, 1}
  BY DEF InFlight
<1> QED
  BY <1>2, <1>3 DEF Used

(* A delivery moves a datagram to a worker, or costs a duplicate.          *)
LEMMA DeliverUses ==
    ASSUME ExchangeInv, NEW w \in Worker, NEW c \in toServer, Deliver(w, c)
    PROVE  /\ UNCHANGED <<runs, stage, runnedHandler>>
           /\ \/ UNCHANGED dups /\ \A b \in Block : Used(b)' <= Used(b)
              \/ /\ dups' = dups + 1
                 /\ \A b \in Block : Used(b)' <= Used(b) + (IF b = c THEN 1 ELSE 0)
<1>1. /\ UNCHANGED <<cacheVars, objectVars, handlerVars>>
      /\ wpc[w] = "free"
      /\ wpc' = [wpc EXCEPT ![w] = "check"]
      /\ wmsg' = [wmsg EXCEPT ![w] = c]
  BY DEF Deliver, listenLoop
<1>2. WorkerTypeOK /\ HandlerTypeOK /\ HandlerTypeOK' /\ Len(runs) \in Nat
  <2>1. ExchangeInv'
    BY DeliverInv
  <2>2. WorkerTypeOK /\ HandlerTypeOK /\ HandlerTypeOK'
    BY <2>1 DEF ExchangeInv, ExchangeTypeOK, LocalStateTypeOK
  <2>3. Len(runs) \in Nat
    BY <2>2 DEF HandlerTypeOK
  <2> QED
    BY <2>2, <2>3
<1>3. \A b \in Block : Holders(b)' = Holders(b)
  BY <1>1 DEF Holders, Holds
<1>4. \A b \in Block : /\ b # c => Carriers(b)' \subseteq Carriers(b)
                       /\ Carriers(b)' \subseteq Carriers(b) \cup {w}
  BY <1>1, <1>2 DEF Carriers, WorkerTypeOK
<1>5. ASSUME NEW b \in Block
      PROVE  /\ Arrived(b)' <= Arrived(b) + 1
             /\ b # c => Arrived(b)' <= Arrived(b)
  <2>1. Cardinality(Carriers(b)') <= Cardinality(Carriers(b)) + 1
    BY <1>4, HoldersFinite, OneMore
  <2>2. b # c => Cardinality(Carriers(b)') <= Cardinality(Carriers(b))
    BY <1>4, HoldersFinite, NoMore
  <2> QED
    BY <1>1, <1>2, <1>3, <2>1, <2>2, HoldersFinite, HoldersFiniteNext DEF Arrived
<1>6. ASSUME NEW b \in Block
      PROVE  /\ Arrived(b) \in Nat /\ Arrived(b)' \in Nat
             /\ InFlight(b) \in Int /\ InFlight(b)' \in Int
  BY <1>2, UsedTypes, UsedTypesNext
<1>7. CASE toServer' = toServer \ {c} /\ UNCHANGED dups
  <2>1. ASSUME NEW b \in Block
        PROVE  Used(b)' <= Used(b)
    <3>1. /\ InFlight(b)' <= InFlight(b)
          /\ b = c => InFlight(b)' + 1 <= InFlight(b)
      BY <1>7 DEF InFlight
    <3> QED
      BY <1>5, <1>6, <3>1 DEF Used
  <2> QED
    BY <1>1, <1>7, <2>1
<1>8. CASE toServer' = toServer /\ dups' = dups + 1
  <2>1. ASSUME NEW b \in Block
        PROVE  Used(b)' <= Used(b) + (IF b = c THEN 1 ELSE 0)
    <3>1. InFlight(b)' = InFlight(b)
      BY <1>8 DEF InFlight
    <3> QED
      BY <1>5, <1>6, <3>1 DEF Used
  <2> QED
    BY <1>1, <1>8, <2>1
<1> QED
  BY <1>7, <1>8 DEF Deliver, TakeFrom

(* The client and a loss touch only what is in flight.                     *)
LEMMA FlightUses ==
    ASSUME HandlerTypeOK, UNCHANGED serverVars, NEW b, NEW sent \in {0, 1},
           b \in toServer' => b \in toServer \/ sent = 1
    PROVE  Used(b)' <= Used(b) + sent
<1>1. Arrived(b)' = Arrived(b)
  BY DEF Arrived, Holders, Holds, Carriers
<1>2. InFlight(b)' <= InFlight(b) + sent /\ InFlight(b)' \in {0, 1}
  BY DEF InFlight
<1> QED
  BY <1>1, <1>2, UsedTypes DEF Used
=============================================================================
