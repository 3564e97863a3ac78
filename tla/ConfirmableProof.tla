--------------------------- MODULE ConfirmableProof ---------------------------
(***************************************************************************)
(* A confirmable request in one datagram keeps the contract of a request,  *)
(* for any number of attempts, workers and localStates and any bound on    *)
(* the faults of the network; and its handler is not run twice without one *)
(* of the causes that Splits names.                                        *)
(***************************************************************************)
EXTENDS Confirmable, ExchangeProof

USE NumBlocksAssumption
    DEF netVars, faultVars, cacheVars, objectVars, handlerVars, workerVars, serverVars

(* A caller that has an answer has one of the two codes.                   *)
ConfirmableInv ==
    /\ ExchangeInv
    /\ attempts \in 0 .. MaxSendAttempts
    /\ status \in {"idle", "waiting", "done", "failed"}
    /\ status = "idle" => attempts = 0
    /\ status = "done" => response \in Codes
    /\ split \in BOOLEAN

(* What a step does to the client's part: it stutters, goes on waiting,    *)
(* fails, or returns an answer that was on the wire.                       *)
ClientEffect ==
    \/ UNCHANGED <<conVars, response>>
    \/ /\ status \in {"idle", "waiting"}
       /\ status' \in {"waiting", "failed"}
       /\ attempts' \in 0 .. MaxSendAttempts
       /\ UNCHANGED response
    \/ /\ status = "waiting"
       /\ status' = "done"
       /\ UNCHANGED attempts
       /\ \E m \in toClient : m.code \in Codes /\ response' = m.code

(* and to the server's: a step of the client calls no handler.             *)
ServerEffect ==
    \/ UNCHANGED runs
    \/ registered /\ runs' = Append(runs, Block) /\ UNCHANGED <<conVars, response>>

LEMMA ClientEffectInv ==
    ASSUME ConfirmableInv, ExchangeInv', ClientEffect, split' \in BOOLEAN
    PROVE  ConfirmableInv'
  BY DEF ConfirmableInv, ClientEffect, conVars, Codes

LEMMA InitConfirmable ==
    ASSUME ConfirmableInit
    PROVE  ConfirmableInv
<1>1. split \in BOOLEAN
  BY Zenon DEF ConfirmableInit
<1> QED
  BY <1>1, ExchangeInitInv, ConfirmableAssumption DEF ConfirmableInit, ConfirmableInv

LEMMA WriteEffect ==
    ASSUME ConfirmableInv, status \in {"idle", "waiting"}, attempts < MaxSendAttempts,
           write, UNCHANGED <<toClient, serverVars, faultVars, response>>
    PROVE  ExchangeInv' /\ ClientEffect /\ ServerEffect
<1>1. toServer' \in SUBSET Block
  BY DEF write, ConfirmableInv, ExchangeInv, ExchangeTypeOK, LocalStateTypeOK, NetTypeOK
<1>2. FaultTypeOK'
  BY FaultsSame DEF ConfirmableInv, ExchangeInv, ExchangeTypeOK
<1>3. ExchangeInv'
  BY <1>1, <1>2, ClientStepInv DEF ConfirmableInv
<1>4. ClientEffect
  BY ConfirmableAssumption DEF ClientEffect, write, ConfirmableInv
<1> QED
  BY <1>3, <1>4 DEF ServerEffect

(* The history variable is a Boolean.                                      *)
LEMMA SplitType ==
    ASSUME ConfirmableInv, [ConfirmableNext]_confirmableVars
    PROVE  split' \in BOOLEAN
<1>1. UNCHANGED split \/ split' = (split \/ Splits)
  BY DEF ConfirmableNext, FirstSend, Retry, ReadError, receive, Receive, serve, confirmableVars
<1>2. (split \/ Splits) \in BOOLEAN
  BY Zenon
<1> QED
  BY <1>1, <1>2 DEF ConfirmableInv

(* Every step, action by action.                                           *)
LEMMA StepEffect ==
    ASSUME ConfirmableInv, ConfirmableNext
    PROVE  ExchangeInv' /\ ClientEffect /\ ServerEffect
<1>1. CASE FirstSend
  <2>1. attempts < MaxSendAttempts
    BY <1>1, ConfirmableAssumption DEF FirstSend, ConfirmableInv
  <2> QED
    BY <1>1, <2>1, WriteEffect DEF FirstSend
<1>2. CASE Retry
  <2>1. CASE ~LastAttempt /\ write
    <3>1. attempts < MaxSendAttempts
      BY <2>1, ConfirmableAssumption DEF LastAttempt, ConfirmableInv
    <3> QED
      BY <1>2, <2>1, <3>1, WriteEffect DEF Retry
  <2>2. CASE LastAttempt /\ status' = "failed" /\ UNCHANGED <<attempts, toServer>>
    <3>1. toServer' \in SUBSET Block
      BY <2>2 DEF ConfirmableInv, ExchangeInv, ExchangeTypeOK, LocalStateTypeOK, NetTypeOK
    <3>2. FaultTypeOK'
      BY <1>2, FaultsSame DEF Retry, ConfirmableInv, ExchangeInv, ExchangeTypeOK
    <3>3. ExchangeInv'
      BY <1>2, <3>1, <3>2, ClientStepInv DEF Retry, ConfirmableInv
    <3> QED
      BY <1>2, <2>2, <3>3 DEF Retry, ClientEffect, ServerEffect, ConfirmableInv
  <2> QED
    BY <1>2, <2>1, <2>2 DEF Retry
<1>3. CASE ReadError
  <2>1. toServer' \in SUBSET Block
    BY <1>3 DEF ReadError, exchangeVars, ConfirmableInv, ExchangeInv, ExchangeTypeOK,
                LocalStateTypeOK, NetTypeOK
  <2>2. FaultTypeOK'
    BY <1>3, FaultsSame DEF ReadError, exchangeVars, ConfirmableInv, ExchangeInv, ExchangeTypeOK
  <2>3. ExchangeInv'
    BY <1>3, <2>1, <2>2, ClientStepInv DEF ReadError, exchangeVars, ConfirmableInv
  <2> QED
    BY <1>3, <2>3 DEF ReadError, exchangeVars, ClientEffect, ServerEffect, ConfirmableInv
<1>4. CASE receive
  <2>1. PICK m \in toClient : Receive(m)
    BY <1>4 DEF receive
  <2>2. FaultTypeOK
    BY DEF ConfirmableInv, ExchangeInv, ExchangeTypeOK
  <2>3. toClient' \in SUBSET toClient /\ dups' \in 0 .. MaxDup
    BY <2>1, <2>2, TakeFromRange DEF Receive
  <2>4. FaultTypeOK'
    BY <2>1, <2>2, <2>3 DEF Receive, FaultTypeOK
  <2>5. toServer' \in SUBSET Block
    BY <2>1 DEF Receive, ConfirmableInv, ExchangeInv, ExchangeTypeOK, LocalStateTypeOK, NetTypeOK
  <2>6. ExchangeInv'
    BY <2>1, <2>3, <2>4, <2>5, ClientStepInv DEF Receive, ConfirmableInv
  <2> QED
    BY <2>1, <2>6 DEF Receive, ClientEffect, ServerEffect
<1>5. CASE UNCHANGED <<conVars, split>> /\ \E w \in Worker, b \in toServer : Deliver(w, b)
  <2>1. PICK w \in Worker, b \in toServer : Deliver(w, b)
    BY <1>5
  <2>2. ExchangeInv'
    BY <2>1, DeliverInv DEF ConfirmableInv
  <2> QED
    BY <1>5, <2>1, <2>2 DEF Deliver, listenLoop, ClientEffect, ServerEffect
<1>6. CASE UNCHANGED <<conVars, split>> /\ Lose
  BY <1>6, LoseInv DEF Lose, ClientEffect, ServerEffect, ConfirmableInv
<1>7. CASE serve
  BY <1>7, ServerStepInv DEF serve, ClientEffect, ServerEffect, ConfirmableInv
<1> QED
  BY <1>1, <1>2, <1>3, <1>4, <1>5, <1>6, <1>7 DEF ConfirmableNext

LEMMA StutterInv ==
    ASSUME ConfirmableInv, UNCHANGED confirmableVars
    PROVE  ConfirmableInv'
<1>1. toServer' \in SUBSET Block
  BY DEF confirmableVars, exchangeVars, ConfirmableInv, ExchangeInv, ExchangeTypeOK,
         LocalStateTypeOK, NetTypeOK
<1>2. FaultTypeOK'
  BY FaultsSame DEF confirmableVars, exchangeVars, ConfirmableInv, ExchangeInv, ExchangeTypeOK
<1>3. ExchangeInv'
  BY <1>1, <1>2, ClientStepInv DEF confirmableVars, exchangeVars, ConfirmableInv
<1>4. ClientEffect
  BY DEF confirmableVars, exchangeVars, ClientEffect
<1> QED
  BY <1>3, <1>4, ClientEffectInv, SplitType

LEMMA ConfirmableInvariant == ConfirmableSpec => []ConfirmableInv
<1>1. ConfirmableInit => ConfirmableInv
  BY InitConfirmable
<1>2. ConfirmableInv /\ [ConfirmableNext]_confirmableVars => ConfirmableInv'
  BY StepEffect, ClientEffectInv, StutterInv, SplitType
<1> QED
  BY <1>1, <1>2, PTL DEF ConfirmableSpec

(* The variables of sendCON, of the server's caches, localStates and       *)
(* goroutines and of the network keep their types.                         *)
THEOREM ConfirmableTypeCorrect == ConfirmableSpec => []ConfirmableTypeOK
<1>1. ConfirmableInv => ConfirmableTypeOK
  BY DEF ConfirmableInv, ConfirmableTypeOK, ExchangeInv
<1> QED
  BY <1>1, ConfirmableInvariant, PTL

-----------------------------------------------------------------------------
(* At most one run: as long as no step has split the cache accesses of a   *)
(* goroutine, the request is in one of three phases.  At first no entry    *)
(* was stored;                                                             *)
Fresh ==
    /\ storage = None
    /\ ~processed
    /\ runs = <<>>
    /\ \A l \in State : stage[l] = "none" /\ \A p \in SUBSET Block : spawned[l][p] = 0
    /\ \A w \in Worker : wpc[w] # "process"

(* from then on one localState s is the only one there will be, and its    *)
(* runnedHandler tells that a goroutine has passed the CAS:                *)
OnlyState(s) ==
    /\ \A l \in State \ {s} :
           stage[l] = "none" /\ \A p \in SUBSET Block : spawned[l][p] = 0
    /\ \A w \in Worker : wpc[w] # "store" /\ (wpc[w] = "process" => wls[w] = s)
    /\ runnedHandler[s] <=> stage[s] # "none"
    /\ Len(runs) <= 1

(* while it is stored, every datagram comes to it;                         *)
Open(s) ==
    /\ storage = s
    /\ ~processed
    /\ stage[s] \in {"none", "handler", "delete"}
    /\ stage[s] # "delete" => runs = <<>>

(* when it is deleted, no goroutine is on its way to store another, and    *)
(* none sets out any more.                                                 *)
Closed(s) ==
    /\ storage = None
    /\ stage[s] \in {"mark", "done"}
    /\ processed <=> stage[s] = "done"
    /\ \A w \in Worker : wpc[w] # "load"

Phase == Fresh \/ \E s \in State : OnlyState(s) /\ (Open(s) \/ Closed(s))

OnceInv == ConfirmableInv /\ (~split => Phase)

LEMMA OnceTypes ==
    ASSUME ConfirmableInv
    PROVE  /\ CacheTypeOK /\ ObjectTypeOK /\ HandlerTypeOK /\ WorkerTypeOK
           /\ None \notin State
  BY LocalStateAssumption DEF ConfirmableInv, ExchangeInv, ExchangeTypeOK, LocalStateTypeOK

(* Steps that leave the server's side, but for datagrams that enter it.    *)
LEMMA PhaseStable ==
    ASSUME Phase, UNCHANGED <<cacheVars, runnedHandler, spawned, stage, runs, wls>>,
           \A w \in Worker : wpc'[w] \in {wpc[w], "check"}
    PROVE  Phase'
<1>1. Fresh => Fresh'
  BY DEF Fresh
<1>2. ASSUME NEW s \in State
      PROVE  /\ OnlyState(s) => OnlyState(s)'
             /\ Open(s) => Open(s)'
             /\ Closed(s) => Closed(s)'
  BY DEF OnlyState, Open, Closed
<1> QED
  BY <1>1, <1>2 DEF Phase

LEMMA CheckPhase ==
    ASSUME ConfirmableInv, Phase, ~Splits, NEW w \in Worker, checkProcessed(w)
    PROVE  Phase'
<1>1. /\ UNCHANGED <<cacheVars, runnedHandler, spawned, stage, runs, wls>>
      /\ wpc[w] = "check" /\ wpc' = [wpc EXCEPT ![w] = IF processed THEN "free" ELSE "load"]
      /\ wpc \in [Worker -> WorkerSteps]
  BY OnceTypes DEF checkProcessed, WorkerTypeOK
<1>2. Fresh => Fresh'
  BY <1>1 DEF Fresh
<1>3. ASSUME NEW s \in State, OnlyState(s), Open(s)
      PROVE  OnlyState(s)' /\ Open(s)'
  BY <1>1, <1>3 DEF OnlyState, Open
<1>4. ASSUME NEW s \in State, OnlyState(s), Closed(s)
      PROVE  OnlyState(s)' /\ Closed(s)'
  <2>1. processed
    <3>1. SUFFICES ASSUME ~processed PROVE FALSE
      OBVIOUS
    <3>2. stage[s] = "mark" /\ wpc'[w] = "load"
      BY <1>1, <1>4, <3>1 DEF Closed
    <3> QED
      BY <1>1, <3>2 DEF Splits, PassesBetween
  <2> QED
    BY <1>1, <1>4, <2>1 DEF OnlyState, Closed
<1> QED
  BY <1>2, <1>3, <1>4 DEF Phase

LEMMA LoadPhase ==
    ASSUME ConfirmableInv, Phase, NEW w \in Worker, loadState(w)
    PROVE  Phase'
<1>1. /\ UNCHANGED <<cacheVars, runnedHandler, spawned, stage, runs>>
      /\ wpc[w] = "load"
      /\ wls' = [wls EXCEPT ![w] = storage]
      /\ wpc' = [wpc EXCEPT ![w] = IF storage = None THEN "store" ELSE "process"]
      /\ wpc \in [Worker -> WorkerSteps] /\ wls \in [Worker -> State \cup {None}]
      /\ None \notin State
  BY OnceTypes DEF loadState, WorkerTypeOK
<1>2. Fresh => Fresh'
  BY <1>1 DEF Fresh
<1>3. ASSUME NEW s \in State, OnlyState(s), Open(s)
      PROVE  OnlyState(s)' /\ Open(s)'
  BY <1>1, <1>3 DEF OnlyState, Open
<1>4. ASSUME NEW s \in State, Closed(s)
      PROVE  FALSE
  BY <1>1, <1>4 DEF Closed
<1> QED
  BY <1>2, <1>3, <1>4 DEF Phase

(* The one Store.                                                          *)
LEMMA StorePhase ==
    ASSUME ConfirmableInv, Phase, ~Splits, NEW w \in Worker, NEW l \in State, storeState(w, l)
    PROVE  Phase'
<1>1. /\ UNCHANGED <<processed, spawned, runs>>
      /\ wpc[w] = "store"
      /\ storage' = l
      /\ runnedHandler' = [runnedHandler EXCEPT ![l] = FALSE]
      /\ stage' = [stage EXCEPT ![l] = "none"]
      /\ wls' = [wls EXCEPT ![w] = l]
      /\ wpc' = [wpc EXCEPT ![w] = "process"]
      /\ wpc \in [Worker -> WorkerSteps] /\ wls \in [Worker -> State \cup {None}]
      /\ stage \in [State -> Stages] /\ runnedHandler \in [State -> BOOLEAN]
      /\ None \notin State
  BY OnceTypes DEF storeState, WorkerTypeOK, HandlerTypeOK, ObjectTypeOK
<1>2. Fresh
  BY <1>1 DEF Phase, OnlyState
<1>3. ASSUME NEW v \in Worker, v # w
      PROVE  wpc[v] # "store"
  <2>1. wpc'[v] = wpc[v] /\ storage' # storage
    BY <1>1, <1>2, <1>3 DEF Fresh
  <2> QED
    BY <2>1 DEF Splits, CacheMovesUnder
<1>4. OnlyState(l)'
  <2>1. \A k \in State \ {l} :
           stage'[k] = "none" /\ \A p \in SUBSET Block : spawned'[k][p] = 0
    BY <1>1, <1>2 DEF Fresh
  <2>2. \A v \in Worker : wpc'[v] # "store" /\ (wpc'[v] = "process" => wls'[v] = l)
    BY <1>1, <1>2, <1>3 DEF Fresh
  <2>3. runnedHandler'[l] = FALSE /\ stage'[l] = "none"
    BY <1>1
  <2>4. Len(runs') <= 1
    BY <1>1, <1>2 DEF Fresh
  <2> QED
    BY <2>1, <2>2, <2>3, <2>4 DEF OnlyState
<1>5. Open(l)'
  BY <1>1, <1>2 DEF Fresh, Open
<1> QED
  BY <1>4, <1>5 DEF Phase

LEMMA ProcessPhase ==
    ASSUME ConfirmableInv, Phase, NEW w \in Worker, processMessage(w)
    PROVE  Phase'
<1> DEFINE l == wls[w]
<1>1. /\ UNCHANGED <<cacheVars, runnedHandler, stage, runs>>
      /\ wpc[w] = "process"
      /\ spawned' = [spawned EXCEPT ![l][{wmsg[w]}] = @ + 1]
      /\ wls' = [wls EXCEPT ![w] = None]
      /\ wpc' = [wpc EXCEPT ![w] = "free"]
      /\ wpc \in [Worker -> WorkerSteps] /\ wls \in [Worker -> State \cup {None}]
      /\ spawned \in [State -> [SUBSET Block -> Nat]]
  <2>1. receiveWhole(wls[w], wmsg[w])
    BY ConfirmableAssumption DEF processMessage
  <2>2. spawned' = [spawned EXCEPT ![l][{wmsg[w]}] = @ + 1]
    BY <2>1 DEF receiveWhole
  <2> HIDE DEF l
  <2> QED
    BY <2>2, OnceTypes DEF processMessage, WorkerTypeOK, HandlerTypeOK
<1>2. ~Fresh
  BY <1>1 DEF Fresh
<1>3. ASSUME NEW s \in State, OnlyState(s), Open(s) \/ Closed(s)
      PROVE  OnlyState(s)' /\ (Open(s)' \/ Closed(s)')
  <2>1. l = s
    BY <1>1, <1>3 DEF OnlyState
  <2>2. \A k \in State \ {s} : spawned'[k] = spawned[k]
    BY <1>1, <2>1
  <2>3. OnlyState(s)'
    BY <1>1, <1>3, <2>2 DEF OnlyState
  <2>4. (Open(s) => Open(s)') /\ (Closed(s) => Closed(s)')
    BY <1>1 DEF Open, Closed
  <2> QED
    BY <1>3, <2>3, <2>4
<1> QED
  BY <1>2, <1>3 DEF Phase

(* One goroutine passes the CAS of the only localState.                    *)
LEMMA CasPhase ==
    ASSUME ConfirmableInv, Phase, NEW l \in State, NEW p \in SUBSET Block, compareAndSwap(l, p)
    PROVE  Phase'
<1>1. /\ UNCHANGED <<cacheVars, runs, wpc, wls>>
      /\ spawned[l][p] > 0
      /\ spawned' = [spawned EXCEPT ![l][p] = @ - 1]
      /\ \/ /\ ~runnedHandler[l]
            /\ runnedHandler' = [runnedHandler EXCEPT ![l] = TRUE]
            /\ stage' = [stage EXCEPT ![l] = "handler"]
         \/ UNCHANGED <<runnedHandler, stage>>
      /\ spawned \in [State -> [SUBSET Block -> Nat]]
      /\ stage \in [State -> Stages] /\ runnedHandler \in [State -> BOOLEAN]
  BY OnceTypes DEF compareAndSwap, HandlerTypeOK, ObjectTypeOK
<1>2. ~Fresh
  BY <1>1 DEF Fresh
<1>3. ASSUME NEW s \in State, OnlyState(s), Open(s) \/ Closed(s)
      PROVE  OnlyState(s)' /\ (Open(s)' \/ Closed(s)')
  <2>1. l = s
    BY <1>1, <1>3 DEF OnlyState
  <2>2. \A k \in State \ {s} : spawned'[k] = spawned[k] /\ stage'[k] = stage[k]
    BY <1>1, <2>1
  <2>3. CASE UNCHANGED <<runnedHandler, stage>>
    <3>1. OnlyState(s)'
      BY <1>1, <1>3, <2>2, <2>3 DEF OnlyState
    <3> QED
      BY <1>1, <1>3, <2>3, <3>1 DEF Open, Closed
  <2>4. CASE /\ ~runnedHandler[l]
             /\ runnedHandler' = [runnedHandler EXCEPT ![l] = TRUE]
             /\ stage' = [stage EXCEPT ![l] = "handler"]
    <3>1. runnedHandler'[s] /\ stage'[s] = "handler" /\ stage[s] = "none"
      BY <1>1, <1>3, <2>1, <2>4 DEF OnlyState
    <3>2. OnlyState(s)'
      BY <1>1, <1>3, <2>2, <3>1 DEF OnlyState
    <3>3. Open(s)'
      BY <1>1, <1>3, <3>1 DEF Open, Closed
    <3> QED
      BY <3>2, <3>3
  <2> QED
    BY <1>1, <2>3, <2>4
<1> QED
  BY <1>2, <1>3 DEF Phase

(* The handler, run or not.                                                *)
LEMMA HandlerPhase ==
    ASSUME ConfirmableInv, Phase, NEW l \in State,
           noResource(l) \/ \E o \in HandlerOutcomes : requestOnReceive(l, o)
    PROVE  Phase'
<1>1. /\ UNCHANGED <<cacheVars, runnedHandler, spawned, wpc, wls>>
      /\ stage[l] = "handler"
      /\ stage' = [stage EXCEPT ![l] = "delete"]
      /\ UNCHANGED runs \/ runs' = Append(runs, payload[l])
      /\ stage \in [State -> Stages]
  BY OnceTypes DEF noResource, requestOnReceive, HandlerTypeOK
<1>2. ~Fresh
  BY <1>1 DEF Fresh
<1>3. ASSUME NEW s \in State, OnlyState(s), Open(s) \/ Closed(s)
      PROVE  OnlyState(s)' /\ Open(s)'
  <2>1. l = s /\ Open(s)
    BY <1>1, <1>3 DEF OnlyState, Closed
  <2>2. stage'[s] = "delete" /\ \A k \in State \ {s} : stage'[k] = stage[k]
    BY <1>1, <2>1
  <2>3. Len(runs') <= 1
    <3>1. runs = <<>> /\ payload[l] \in SUBSET Block /\ runs \in Seq(SUBSET Block)
      BY <1>1, <2>1, OnceTypes DEF Open, HandlerTypeOK
    <3> DEFINE x == payload[l]
    <3> HIDE DEF x
    <3>2. Len(Append(runs, x)) = 1
      BY <3>1 DEF x
    <3>3. CASE runs' = Append(runs, x)
      BY <3>2, <3>3
    <3>4. CASE UNCHANGED runs
      BY <3>1, <3>4
    <3> QED
      BY <1>1, <3>3, <3>4 DEF x
  <2>4. OnlyState(s)'
    BY <1>1, <1>3, <2>1, <2>2, <2>3 DEF OnlyState
  <2> QED
    BY <1>1, <2>1, <2>2, <2>4 DEF Open
<1> QED
  BY <1>2, <1>3 DEF Phase

(* The Delete finds no goroutine before its Load or Store.                 *)
LEMMA DeletePhase ==
    ASSUME ConfirmableInv, Phase, ~Splits, NEW l \in State, deleteState(l)
    PROVE  Phase'
<1>1. /\ UNCHANGED <<processed, runnedHandler, spawned, runs, wpc, wls>>
      /\ stage[l] = "delete"
      /\ storage' = None
      /\ stage' = [stage EXCEPT ![l] = "mark"]
      /\ stage \in [State -> Stages]
      /\ None \notin State
  BY OnceTypes DEF deleteState, HandlerTypeOK
<1>2. ~Fresh
  BY <1>1 DEF Fresh
<1>3. ASSUME NEW s \in State, OnlyState(s), Open(s) \/ Closed(s)
      PROVE  OnlyState(s)' /\ Closed(s)'
  <2>1. l = s /\ Open(s)
    BY <1>1, <1>3 DEF OnlyState, Closed
  <2>2. stage'[s] = "mark" /\ \A k \in State \ {s} : stage'[k] = stage[k]
    BY <1>1, <2>1
  <2>3. ASSUME NEW w \in Worker, wpc[w] = "load"
        PROVE  FALSE
    <3>1. storage # None /\ storage' = None /\ wpc'[w] = wpc[w]
      BY <1>1, <2>1 DEF Open
    <3> QED
      BY <2>3, <3>1 DEF Splits, CacheMovesUnder
  <2>4. OnlyState(s)'
    BY <1>1, <1>3, <2>1, <2>2 DEF OnlyState
  <2> QED
    BY <1>1, <2>1, <2>2, <2>3, <2>4 DEF Open, Closed
<1> QED
  BY <1>2, <1>3 DEF Phase

LEMMA MarkPhase ==
    ASSUME ConfirmableInv, Phase, NEW l \in State, markProcessed(l)
    PROVE  Phase'
<1>1. /\ UNCHANGED <<storage, runnedHandler, spawned, runs, wpc, wls>>
      /\ stage[l] = "mark"
      /\ processed'
      /\ stage' = [stage EXCEPT ![l] = "done"]
      /\ stage \in [State -> Stages]
  BY OnceTypes DEF markProcessed, HandlerTypeOK
<1>2. ~Fresh
  BY <1>1 DEF Fresh
<1>3. ASSUME NEW s \in State, OnlyState(s), Open(s) \/ Closed(s)
      PROVE  OnlyState(s)' /\ Closed(s)'
  <2>1. l = s /\ Closed(s)
    BY <1>1, <1>3 DEF OnlyState, Open
  <2>2. stage'[s] = "done" /\ \A k \in State \ {s} : stage'[k] = stage[k]
    BY <1>1, <2>1
  <2>3. OnlyState(s)'
    BY <1>1, <1>3, <2>1, <2>2 DEF OnlyState
  <2> QED
    BY <1>1, <2>1, <2>2, <2>3 DEF Closed
<1> QED
  BY <1>2, <1>3 DEF Phase

LEMMA OnceNextInv ==
    ASSUME OnceInv, [ConfirmableNext]_confirmableVars
    PROVE  OnceInv'
<1>1. ConfirmableInv /\ ConfirmableInv'
  BY StepEffect, ClientEffectInv, StutterInv, SplitType DEF OnceInv
<1>2. SUFFICES ASSUME ~split' PROVE Phase'
  BY <1>1 DEF OnceInv
<1>3. CASE serve
  <2>1. ~split /\ ~Splits
    BY <1>2, <1>3 DEF serve
  <2>2. Phase
    BY <2>1 DEF OnceInv
  <2>3. ASSUME NEW w \in Worker, workerStep(w) PROVE Phase'
    BY <1>1, <2>1, <2>2, <2>3, CheckPhase, LoadPhase, StorePhase, ProcessPhase DEF workerStep
  <2>4. ASSUME NEW l \in State, handlerStep(l) PROVE Phase'
    BY <1>1, <2>1, <2>2, <2>4, CasPhase, HandlerPhase, DeletePhase, MarkPhase DEF handlerStep
  <2> QED
    BY <1>3, <2>1, <2>3, <2>4 DEF serve, serverStep, Splits
<1>4. ASSUME UNCHANGED <<split, cacheVars, runnedHandler, spawned, stage, runs, wls>>,
             \A w \in Worker : wpc'[w] \in {wpc[w], "check"}
      PROVE  Phase'
  BY <1>2, <1>4, PhaseStable DEF OnceInv
<1>5. CASE UNCHANGED <<split, serverVars>>
  BY <1>4, <1>5
<1>6. CASE FirstSend \/ Retry \/ ReadError \/ receive
  BY <1>5, <1>6 DEF FirstSend, Retry, ReadError, receive, Receive, exchangeVars
<1>7. CASE UNCHANGED <<conVars, split>> /\ \E w \in Worker, b \in toServer : Deliver(w, b)
  <2>1. PICK w \in Worker, b \in toServer : Deliver(w, b)
    BY <1>7
  <2>2. wpc' = [wpc EXCEPT ![w] = "check"] /\ wpc \in [Worker -> WorkerSteps]
    BY <1>1, <2>1, OnceTypes DEF Deliver, listenLoop, WorkerTypeOK
  <2>3. \A v \in Worker : wpc'[v] \in {wpc[v], "check"}
    BY <2>2
  <2> QED
    BY <1>4, <1>7, <2>1, <2>3 DEF Deliver, listenLoop
<1>8. CASE UNCHANGED <<conVars, split>> /\ Lose
  BY <1>5, <1>8 DEF Lose
<1>9. CASE UNCHANGED confirmableVars
  BY <1>5, <1>9 DEF confirmableVars, exchangeVars
<1> QED
  BY <1>3, <1>6, <1>7, <1>8, <1>9 DEF ConfirmableNext

(* However many goroutines have the datagrams of a request in hand, and    *)
(* however often it is sent and repeated: its handler runs a second time   *)
(* only after an entry has expired or the cache accesses of one goroutine  *)
(* were split by those of another, in a way that Splits names              *)
(* (localstate.go:56-71, server.go:520-523, storage.go:79-90).             *)
THEOREM RequestHandledOnce == ConfirmableSpec => []HandledOnceUnlessSplit
<1>1. ConfirmableInit => OnceInv
  <2> SUFFICES ASSUME ConfirmableInit PROVE ConfirmableInv /\ Fresh
    BY DEF OnceInv, Phase
  <2> QED
    BY InitConfirmable DEF ConfirmableInit, ExchangeInit, LocalStateInit, Fresh
<1>2. OnceInv /\ [ConfirmableNext]_confirmableVars => OnceInv'
  BY OnceNextInv
<1>3. OnceInv => HandledOnceUnlessSplit
  BY DEF OnceInv, Phase, Fresh, OnlyState, HandledOnceUnlessSplit
<1> QED
  BY <1>1, <1>2, <1>3, PTL DEF ConfirmableSpec

-----------------------------------------------------------------------------
(* The refinement: a step with these effects is a step of the contract.    *)
USE DEF Contract!ContractNext, Contract!Handle, Contract!Succeed, Contract!Refuse, Contract!Fail

LEMMA EffectIsContract ==
    ASSUME ConfirmableInv, ConfirmableInv', ClientEffect, ServerEffect
    PROVE  Contract!ContractNext \/ UNCHANGED <<runs, Outcome>>
<1>1. CASE UNCHANGED <<conVars, response>>
  <2>1. Outcome' = Outcome
    BY <1>1 DEF Outcome, conVars
  <2>2. registered => Outcome # "notFound"
    BY DEF Outcome, ConfirmableInv, ExchangeInv, AnswersBacked, Codes
  <2> QED
    BY <2>1, <2>2 DEF ServerEffect
<1>2. CASE UNCHANGED runs /\ ~UNCHANGED <<conVars, response>>
  <2>1. Outcome = "pending"
    BY <1>2 DEF ClientEffect, Outcome
  <2>2. CASE status' = "waiting"
    BY <1>2, <2>1, <2>2 DEF Outcome
  <2>3. CASE status' = "failed"
    <3>1. Outcome' = "error"
      BY <2>3 DEF Outcome
    <3> QED
      BY <1>2, <2>1, <3>1
  <2>4. CASE status' = "done"
    <3>1. /\ response' = "Response" => runs # <<>>
          /\ response' = "NotFound" => runs = <<>>
      BY <1>2 DEF ConfirmableInv, ExchangeInv, AnswersBacked
    <3>2. \/ response' = "Response" /\ Outcome' = "ok"
          \/ response' = "NotFound" /\ Outcome' = "notFound"
      BY <2>4 DEF Outcome, ConfirmableInv, Codes
    <3> QED
      BY <1>2, <2>1, <3>1, <3>2
  <2> QED
    BY <1>2, <2>2, <2>3, <2>4 DEF ClientEffect
<1> QED
  BY <1>1, <1>2 DEF ServerEffect

(* The caller gets what a request promises (RequestContract): the handler  *)
(* saw nothing but the whole payload, an answer has its cause and is       *)
(* final.                                                                  *)
THEOREM ConfirmableRefinement == ConfirmableSpec => ImplementsContract
<1>1. ConfirmableInit => Contract!ContractInit
  BY DEF ConfirmableInit, ExchangeInit, LocalStateInit, Contract!ContractInit, Outcome
<1>2. ASSUME ConfirmableInv, ConfirmableInv', [ConfirmableNext]_confirmableVars
      PROVE  [Contract!ContractNext]_<<runs, Outcome>>
  <2>1. CASE UNCHANGED confirmableVars
    BY <2>1 DEF confirmableVars, conVars, exchangeVars, Outcome
  <2>2. CASE ConfirmableNext
    BY <1>2, <2>2, StepEffect, EffectIsContract
  <2> QED
    BY <1>2, <2>1, <2>2
<1> QED
  BY <1>1, <1>2, ConfirmableInvariant, PTL
     DEF ConfirmableSpec, ImplementsContract, Contract!ContractSpec
=============================================================================
