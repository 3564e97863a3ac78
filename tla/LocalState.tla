----------------------------- MODULE LocalState -----------------------------
(***************************************************************************)
(* The receiving side of a server for the datagrams of ONE request, that   *)
(* is for one key sender+token: server.go listenLoop and                   *)
(* processLocalState, localstate.go, layerRequest.go and the two caches    *)
(* StorageLocalStates and ProcessedMessages (storage.go shardedCache).     *)
(* Everything here is keyed by sender+token, so requests with different    *)
(* keys do not interact; tokens are 6 random bytes and taken as unique.    *)
(*                                                                         *)
(* Every datagram is handled by a goroutine of its own (a Worker), and     *)
(* the handler runs in yet another one; the caches are shared.  A step of  *)
(* the model is one access to shared state.  processMessage holds ls.mx    *)
(* from start to end and is one step.                                      *)
(*                                                                         *)
(* The scheme is plain coap: localStateSecurityInputLayer lets the message *)
(* through unchanged.                                                      *)
(***************************************************************************)
EXTENDS Transfer, Network, Sequences

CONSTANTS Worker,              \* slots of the listenLoop semaphore (maxParallel)
          State,               \* localState objects alive at the same time
          None,                \* no localState
          Resource,            \* {TRUE}, {FALSE} or both: is the path registered
          HandlerOutcomes,     \* what the resource handler may do
          StateMayExpire,      \* TRUE: 3 minutes may pass since an entry was stored
          ProcessedMayExpire   \* TRUE: processedTTL (10 s) may pass

ASSUME LocalStateAssumption ==
    /\ IsFiniteSet(Worker)
    /\ IsFiniteSet(State)
    /\ None \notin State
    /\ Resource \in SUBSET BOOLEAN
    /\ HandlerOutcomes \in SUBSET {"response", "nothing", "panic"}
    /\ StateMayExpire \in BOOLEAN
    /\ ProcessedMayExpire \in BOOLEAN

VARIABLES registered,     \* getResourceForPathAndMethod finds a resource
          processed,      \* ProcessedMessages has the key
          storage,        \* StorageLocalStates' entry for the key, or None
          bufBlock1, totalBlocks, runnedHandler,  \* fields of the localStates
          spawned,        \* respHandler goroutines before the CAS, by payload
          stage, payload, \* the goroutine that passed it
          wpc, wmsg, wls, \* the Workers: next step, datagram, localState
          runs,           \* the payloads the resource handler was called with
          serverUp        \* FALSE once a panic has ended the process

cacheVars   == <<processed, storage>>
objectVars  == <<bufBlock1, totalBlocks, runnedHandler>>
handlerVars == <<registered, spawned, stage, payload, runs, serverUp>>
workerVars  == <<wpc, wmsg, wls>>
serverVars  == <<cacheVars, objectVars, handlerVars, workerVars>>

(* What travels to the client; blocks, by number, travel to the server.    *)
Ack == [code : {"Continue"}, block : Block] \cup [code : {"Response", "NotFound"}]

Stages == {"none", "handler", "delete", "mark", "done"}
WorkerSteps == {"free", "check", "load", "store", "process"}

NetTypeOK ==
    /\ toServer \in SUBSET Block
    /\ toClient \in SUBSET Ack

CacheTypeOK ==
    /\ processed \in BOOLEAN
    /\ storage \in State \cup {None}

ObjectTypeOK ==
    /\ bufBlock1 \in [State -> SUBSET Block]
    /\ totalBlocks \in [State -> {-1, NumBlocks}]
    /\ runnedHandler \in [State -> BOOLEAN]

HandlerTypeOK ==
    /\ registered \in BOOLEAN
    /\ spawned \in [State -> [SUBSET Block -> Nat]]
    /\ stage \in [State -> Stages]
    /\ payload \in [State -> SUBSET Block]
    /\ runs \in Seq(SUBSET Block)
    /\ serverUp \in BOOLEAN

WorkerTypeOK ==
    /\ wpc \in [Worker -> WorkerSteps]
    /\ wmsg \in [Worker -> Block]
    /\ wls \in [Worker -> State \cup {None}]

LocalStateTypeOK ==
    NetTypeOK /\ CacheTypeOK /\ ObjectTypeOK /\ HandlerTypeOK /\ WorkerTypeOK

LocalStateInit ==
    /\ registered \in Resource
    /\ processed = FALSE
    /\ storage = None
    /\ bufBlock1 = [l \in State |-> {}]
    /\ totalBlocks = [l \in State |-> -1]
    /\ runnedHandler = [l \in State |-> FALSE]
    /\ spawned = [l \in State |-> [p \in SUBSET Block |-> 0]]
    /\ stage = [l \in State |-> "none"]
    /\ payload = [l \in State |-> {}]
    /\ wpc = [w \in Worker |-> "free"]
    /\ wmsg = [w \in Worker |-> 0]
    /\ wls = [w \in Worker |-> None]
    /\ runs = <<>>
    /\ serverUp = TRUE

-----------------------------------------------------------------------------
(* listenLoop: read a datagram, take a semaphore slot, start a goroutine.  *)
(* (The composing module takes b out of the network.)                      *)
listenLoop(w, b) ==
    /\ serverUp
    /\ wpc[w] = "free"
    /\ wpc' = [wpc EXCEPT ![w] = "check"]
    /\ wmsg' = [wmsg EXCEPT ![w] = b]
    /\ UNCHANGED <<cacheVars, objectVars, handlerVars, wls>>

(* processLocalState: ProcessedMessages.Get(id); a retransmission of a     *)
(* request already answered ends here and frees its slot.                  *)
checkProcessed(w) ==
    /\ serverUp
    /\ wpc[w] = "check"
    /\ wpc' = [wpc EXCEPT ![w] = IF processed THEN "free" ELSE "load"]
    /\ UNCHANGED <<netVars, cacheVars, objectVars, handlerVars, wmsg, wls>>

(* shardedCache.LoadOrStore is a Load and, when that misses, a Store: two  *)
(* steps, with no lock around them.                                        *)
loadState_AlwaysMisses(w) ==
    /\ serverUp
    /\ wpc[w] = "load"
    /\ wpc' = [wpc EXCEPT ![w] = "store"]
    /\ UNCHANGED <<netVars, cacheVars, objectVars, handlerVars, wmsg, wls>>

loadState(w) ==
    /\ serverUp
    /\ wpc[w] = "load"
    /\ wls' = [wls EXCEPT ![w] = storage]
    /\ wpc' = [wpc EXCEPT ![w] = IF storage = None THEN "store" ELSE "process"]
    /\ UNCHANGED <<netVars, cacheVars, objectVars, handlerVars, wmsg>>

(* An object some goroutine or the cache still points at.                  *)
Referenced(l) ==
    \/ storage = l
    \/ \E w \in Worker : wls[w] = l
    \/ \E p \in SUBSET Block : spawned[l][p] > 0
    \/ stage[l] \in {"handler", "delete", "mark"}

(* The Store, of the localState newLocalState made: an identity that is    *)
(* free, with its fields set to their initial values.                      *)
storeState(w, l) ==
    /\ serverUp
    /\ wpc[w] = "store"
    /\ ~Referenced(l)
    /\ bufBlock1' = [bufBlock1 EXCEPT ![l] = {}]
    /\ totalBlocks' = [totalBlocks EXCEPT ![l] = -1]
    /\ runnedHandler' = [runnedHandler EXCEPT ![l] = FALSE]
    /\ stage' = [stage EXCEPT ![l] = "none"]
    /\ payload' = [payload EXCEPT ![l] = {}]
    /\ storage' = l
    /\ wls' = [wls EXCEPT ![w] = l]
    /\ wpc' = [wpc EXCEPT ![w] = "process"]
    /\ UNCHANGED <<netVars, processed, registered, spawned, runs, serverUp, wmsg>>

(* localStateReceiveARQBlock1: buffer the block; when the payload is       *)
(* complete start respHandler with it, else acknowledge the block.         *)
localStateReceiveARQBlock1(l, b) ==
    LET buf   == bufBlock1[l] \cup {b}
        total == TotalAfter(totalBlocks[l], b)
        whole == assembleBlocks(buf, total)
    IN  /\ bufBlock1' = [bufBlock1 EXCEPT ![l] = buf]
        /\ totalBlocks' = [totalBlocks EXCEPT ![l] = total]
        /\ \/ /\ Complete(total, buf)
              /\ spawned' = [spawned EXCEPT ![l][whole] = @ + 1]
              /\ UNCHANGED toClient
           \/ /\ ~Complete(total, buf)
              /\ toClient' = toClient \cup {[code |-> "Continue", block |-> b]}
              /\ UNCHANGED spawned

(* A request in one datagram has no Block1 option and is not buffered.     *)
receiveWhole(l, b) ==
    /\ spawned' = [spawned EXCEPT ![l][{b}] = @ + 1]
    /\ UNCHANGED <<bufBlock1, totalBlocks, toClient>>

(* processMessage with localStateMessageHandlerSelector, under ls.mx; then *)
(* the goroutine ends and its semaphore slot is free.                      *)
processMessage(w) ==
    /\ serverUp
    /\ wpc[w] = "process"
    /\ \/ /\ NumBlocks > 1
          /\ localStateReceiveARQBlock1(wls[w], wmsg[w])
       \/ /\ NumBlocks = 1
          /\ receiveWhole(wls[w], wmsg[w])
    /\ wpc' = [wpc EXCEPT ![w] = "free"]
    /\ wls' = [wls EXCEPT ![w] = None]
    /\ UNCHANGED <<toServer, cacheVars, runnedHandler, registered, stage, payload,
                   runs, serverUp, wmsg>>

-----------------------------------------------------------------------------
(* respHandler with the message p: CompareAndSwap(&ls.runnedHandler, 0, 1) *)
(* lets one goroutine of a localState through, the others return.          *)
compareAndSwap_Unchecked(l, p) ==
    /\ serverUp
    /\ spawned[l][p] > 0
    /\ spawned' = [spawned EXCEPT ![l][p] = @ - 1]
    /\ runnedHandler' = [runnedHandler EXCEPT ![l] = TRUE]
    /\ stage' = [stage EXCEPT ![l] = "handler"]
    /\ payload' = [payload EXCEPT ![l] = p]
    /\ UNCHANGED <<netVars, cacheVars, bufBlock1, totalBlocks, registered, runs,
                   serverUp, workerVars>>

compareAndSwap(l, p) ==
    /\ serverUp
    /\ spawned[l][p] > 0
    /\ spawned' = [spawned EXCEPT ![l][p] = @ - 1]
    /\ \/ /\ ~runnedHandler[l]
          /\ runnedHandler' = [runnedHandler EXCEPT ![l] = TRUE]
          /\ stage' = [stage EXCEPT ![l] = "handler"]
          /\ payload' = [payload EXCEPT ![l] = p]
       \/ /\ runnedHandler[l]
          /\ UNCHANGED <<runnedHandler, stage, payload>>
    /\ UNCHANGED <<netVars, cacheVars, bufBlock1, totalBlocks, registered, runs,
                   serverUp, workerVars>>

(* requestOnReceive without a resource: noResource answers 4.04.           *)
noResource_IgnoresRegistry(l) ==
    /\ serverUp
    /\ stage[l] = "handler"
    /\ toClient' = toClient \cup {[code |-> "NotFound"]}
    /\ stage' = [stage EXCEPT ![l] = "delete"]
    /\ UNCHANGED <<toServer, cacheVars, objectVars, registered, spawned, payload,
                   runs, serverUp, workerVars>>

noResource(l) ==
    /\ serverUp
    /\ stage[l] = "handler"
    /\ ~registered
    /\ toClient' = toClient \cup {[code |-> "NotFound"]}
    /\ stage' = [stage EXCEPT ![l] = "delete"]
    /\ UNCHANGED <<toServer, cacheVars, objectVars, registered, spawned, payload,
                   runs, serverUp, workerVars>>

(* requestOnReceive with one: the resource's handler is called with the    *)
(* payload; returnResultFromResource sends its result as an ACK, a nil     *)
(* result sends nothing.  A panic is on a goroutine without recover.       *)
requestOnReceive(l, outcome) ==
    /\ serverUp
    /\ stage[l] = "handler"
    /\ registered
    /\ runs' = Append(runs, payload[l])
    /\ serverUp' = (outcome # "panic")
    /\ toClient' = IF outcome = "response" THEN toClient \cup {[code |-> "Response"]}
                                           ELSE toClient
    /\ stage' = [stage EXCEPT ![l] = "delete"]
    /\ UNCHANGED <<toServer, cacheVars, objectVars, registered, spawned, payload,
                   workerVars>>

(* The deferred StorageLocalStates.Delete(id), then ProcessedMessages.Set  *)
deleteState(l) ==
    /\ serverUp
    /\ stage[l] = "delete"
    /\ storage' = None
    /\ stage' = [stage EXCEPT ![l] = "mark"]
    /\ UNCHANGED <<netVars, processed, objectVars, registered, spawned, payload,
                   runs, serverUp, workerVars>>

markProcessed(l) ==
    /\ serverUp
    /\ stage[l] = "mark"
    /\ processed' = TRUE
    /\ stage' = [stage EXCEPT ![l] = "done"]
    /\ UNCHANGED <<netVars, storage, objectVars, registered, spawned, payload,
                   runs, serverUp, workerVars>>

-----------------------------------------------------------------------------
(* The caches' time to live.  An entry past its expiresAt reads as absent  *)
(* whether or not cleanupLoop has removed it; LoadOrStore does not renew   *)
(* expiresAt, so it counts from the first block.                           *)
expireState ==
    /\ StateMayExpire
    /\ serverUp
    /\ storage # None
    /\ storage' = None
    /\ UNCHANGED <<netVars, processed, objectVars, handlerVars, workerVars>>

expireProcessed ==
    /\ ProcessedMayExpire
    /\ serverUp
    /\ processed
    /\ processed' = FALSE
    /\ UNCHANGED <<netVars, storage, objectVars, handlerVars, workerVars>>

(* The steps of the goroutine of Worker w, and of respHandler for l.       *)
workerStep(w) ==
    \/ checkProcessed(w)
    \/ loadState(w)
    \/ \E l \in State : storeState(w, l)
    \/ processMessage(w)

handlerStep(l) ==
    \/ \E p \in SUBSET Block : compareAndSwap(l, p)
    \/ noResource(l)
    \/ \E o \in HandlerOutcomes : requestOnReceive(l, o)
    \/ deleteState(l)
    \/ markProcessed(l)

ServerIdle ==
    /\ \A w \in Worker : wpc[w] = "free"
    /\ \A l \in State :
          /\ \A p \in SUBSET Block : spawned[l][p] = 0
          /\ stage[l] \in {"none", "done"}
=============================================================================
