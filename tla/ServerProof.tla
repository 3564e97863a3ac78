---------------------------- MODULE ServerProof ----------------------------
(***************************************************************************)
(* The server's sockets, and what it sends through them.  Lifecycle: the   *)
(* safety of the sockets, for any number of refreshes, whichever of Listen *)
(* and ListenTCP the program calls, and whether binding may fail or not.   *)
(* Server.Send: its counts, and the session that a coaps message leaves on *)
(* both sides.                                                             *)
(***************************************************************************)
EXTENDS Lifecycle, MCServerSend, TLAPS

(* Lifecycle.                                                              *)

(* A loop is only started once there is a socket; the first one by Listen. *)
LoopsHaveSocket ==
    /\ \A l \in Loop : lpc[l] # "none" => sr # NoSocket
    /\ lpc[0] # "none" => listen \notin {"idle", "bound"}

(* Sockets are never bound twice: Listen's is not s.sr's before it is      *)
(* stored there, and s.sr's number is Listen's or an earlier refresh's.    *)
SrIsKnown ==
    /\ listen \in {"idle", "bound"} => sr # 0
    /\ sr # NoSocket => sr = 0 \/ sr \in 2 .. refreshes + 1

(* The loop that was started for a socket.                                 *)
loopOf(s) == IF s = 0 THEN 0 ELSE s - 1

(* NeverDeaf, with a witness: no other loop is needed to read from s.sr.   *)
OwnLoopServes == sr \in open => loopOf(sr) \in Loop /\ Serves(loopOf(sr))

BoundIsOpen == listen = "bound" => 0 \in open

(* Without ListenTCP there are no TCP listeners, and the one open socket   *)
(* is s.sr's, or Listen's on its way there.                                *)
OneUdpSocket ==
    listenTCP = "idle" =>
        /\ tcpSockets = {}
        /\ open \subseteq (IF listen = "bound" THEN {0} ELSE {sr})

LifecycleInv ==
    /\ LifecycleTypeOK
    /\ LoopsHaveSocket
    /\ SrIsKnown
    /\ OwnLoopServes
    /\ BoundIsOpen
    /\ OneUdpSocket

-----------------------------------------------------------------------------
LEMMA LifecycleInitInv == LifecycleInit => LifecycleInv
<1> SUFFICES ASSUME LifecycleInit PROVE LifecycleInv
  OBVIOUS
<1>1. LifecycleTypeOK
  <2>1. lpc \in [Loop -> {"none", "top", "reading", "handling", "ended"}]
    BY DEF LifecycleInit
  <2>2. lconn \in [Loop -> Socket \cup {NoSocket}]
    BY DEF LifecycleInit
  <2>3. \A l \in Loop : lpc[l] = "reading" => lconn[l] # NoSocket
    BY DEF LifecycleInit
  <2>4. refreshes \in 0 .. MaxRefreshes
    BY LifecycleAssumption DEF LifecycleInit
  <2> QED
    BY <2>1, <2>2, <2>3, <2>4 DEF LifecycleInit, LifecycleTypeOK
<1>2. LoopsHaveSocket
  <2>1. 0 \in Loop
    BY LifecycleAssumption DEF Loop
  <2> QED
    BY <2>1 DEF LifecycleInit, LoopsHaveSocket
<1>3. SrIsKnown /\ OwnLoopServes /\ BoundIsOpen /\ OneUdpSocket
  BY LifecycleAssumption
     DEF LifecycleInit, SrIsKnown, OwnLoopServes, BoundIsOpen, OneUdpSocket
<1> QED
  BY <1>1, <1>2, <1>3 DEF LifecycleInv

(* Listen.                                                                 *)
LEMMA ListenInv ==
    ASSUME LifecycleInv, ListenBind \/ ListenStart
    PROVE  LifecycleInv'
<1> USE LifecycleAssumption DEF LifecycleInv
<1>1. 0 \in Socket /\ 0 \in Loop
  BY DEF Socket, Loop
<1>2. CASE ListenBind
  <2>1. LifecycleTypeOK' /\ LoopsHaveSocket'
    BY <1>1, <1>2 DEF ListenBind, LifecycleTypeOK, LoopsHaveSocket
  <2>2. SrIsKnown' /\ BoundIsOpen'
    BY <1>2 DEF ListenBind, SrIsKnown, BoundIsOpen
  <2>3. OwnLoopServes'
    BY <1>2 DEF ListenBind, SrIsKnown, OwnLoopServes, Serves, loopOf
  <2>4. OneUdpSocket'
    BY <1>2 DEF ListenBind, OneUdpSocket, free
  <2> QED
    BY <2>1, <2>2, <2>3, <2>4
<1>3. CASE ListenStart
  <2>1. LifecycleTypeOK' /\ LoopsHaveSocket'
    BY <1>1, <1>3 DEF ListenStart, LifecycleTypeOK, LoopsHaveSocket
  <2>2. SrIsKnown' /\ BoundIsOpen' /\ OneUdpSocket'
    BY <1>3 DEF ListenStart, SrIsKnown, BoundIsOpen, OneUdpSocket
  <2>3. sr' = 0 /\ lpc'[0] = "top"
    BY <1>1, <1>3 DEF ListenStart, LifecycleTypeOK
  <2>4. OwnLoopServes'
    BY <1>1, <2>3 DEF OwnLoopServes, Serves, loopOf
  <2> QED
    BY <2>1, <2>2, <2>4
<1> QED
  BY <1>2, <1>3

(* ListenTCP.                                                              *)
LEMMA ListenTCPInv ==
    ASSUME LifecycleInv, ListenTCPBind \/ ListenTCPStart \/ AcceptEnds
    PROVE  LifecycleInv'
<1> USE LifecycleAssumption DEF LifecycleInv
<1>1. 1 \in Socket
  BY DEF Socket
<1>2. UNCHANGED <<sr, listen, lpc, lconn, refreshes>>
  BY DEF ListenTCPBind, ListenTCPStart, AcceptEnds
<1>3. LifecycleTypeOK'
  BY <1>1 DEF ListenTCPBind, ListenTCPStart, AcceptEnds, LifecycleTypeOK
<1>4. LoopsHaveSocket' /\ SrIsKnown'
  BY <1>2 DEF LoopsHaveSocket, SrIsKnown
<1>5. open' \in {open, open \cup {1}}
  BY DEF ListenTCPBind, ListenTCPStart, AcceptEnds
<1>6. sr # 1
  BY DEF SrIsKnown, LifecycleTypeOK
<1>7. OwnLoopServes'
  BY <1>2, <1>5, <1>6 DEF OwnLoopServes, Serves, loopOf
<1>8. BoundIsOpen'
  BY <1>2, <1>5 DEF BoundIsOpen
<1>9. OneUdpSocket'
  BY <1>2 DEF ListenTCPBind, ListenTCPStart, AcceptEnds, OneUdpSocket
<1> QED
  BY <1>3, <1>4, <1>7, <1>8, <1>9

(* A loop: it ends only where it reads from a socket that is closed.       *)
LEMMA LoopInv ==
    ASSUME LifecycleInv, NEW l \in Loop, loopStep(l)
    PROVE  LifecycleInv'
<1> USE LifecycleAssumption DEF LifecycleInv
<1>1. UNCHANGED <<sr, tcpLn, open, tcpSockets, listenTCP, refreshes, refreshed, closed>>
  BY DEF loopStep, LoopTop, LoopRead, LoopHandled, LoopEnds
<1>2. 0 \in Loop
  BY DEF Loop
<1>3. /\ lpc[l] # "none"
      /\ \A k \in Loop : k # l => lpc'[k] = lpc[k] /\ lconn'[k] = lconn[k]
  BY DEF loopStep, LoopTop, LoopRead, LoopHandled, LoopEnds, LifecycleTypeOK
<1>4. \/ listen' = listen
      \/ listen \notin {"idle", "bound"} /\ listen' = "returned"
  BY <1>3 DEF loopStep, LoopTop, LoopRead, LoopHandled, LoopEnds, LoopsHaveSocket
<1>5. LifecycleTypeOK'
  <2>1. CASE LoopTop(l)
    BY <2>1 DEF LoopTop, LifecycleTypeOK, LoopsHaveSocket
  <2>2. CASE LoopRead(l) \/ LoopHandled(l) \/ LoopEnds(l)
    BY <2>2 DEF LoopRead, LoopHandled, LoopEnds, LifecycleTypeOK
  <2> QED
    BY <2>1, <2>2 DEF loopStep
<1>6. LoopsHaveSocket'
  BY <1>1, <1>2, <1>3, <1>4 DEF LoopsHaveSocket
<1>7. SrIsKnown' /\ BoundIsOpen' /\ OneUdpSocket'
  BY <1>1, <1>4 DEF SrIsKnown, BoundIsOpen, OneUdpSocket
<1>8. OwnLoopServes'
  <2>1. CASE loopOf(sr) # l
    BY <1>1, <1>3, <2>1 DEF OwnLoopServes, Serves
  <2>2. CASE loopOf(sr) = l /\ sr \in open
    <3>1. Serves(l)
      BY <2>2 DEF OwnLoopServes
    <3>2. Serves(l)'
      BY <2>2, <3>1
         DEF Serves, loopStep, LoopTop, LoopRead, LoopHandled, LoopEnds, LifecycleTypeOK
    <3> QED
      BY <1>1, <2>2, <3>2 DEF OwnLoopServes
  <2> QED
    BY <1>1, <2>1, <2>2 DEF OwnLoopServes
<1> QED
  BY <1>5, <1>6, <1>7, <1>8

(* Without ListenTCP, Refresh finds its address free once Listen has left  *)
(* s.sr to it.                                                             *)
LEMMA NothingElseOpen ==
    ASSUME LifecycleInv, listen # "bound", listenTCP = "idle"
    PROVE  closeOld = {} /\ free(closeOld, IsTCP)
  BY DEF LifecycleInv, OneUdpSocket, closeOld, free, IsTCP

LEMMA RefreshInv ==
    ASSUME LifecycleInv, Refresh
    PROVE  LifecycleInv'
<1> USE LifecycleAssumption DEF LifecycleInv
<1> DEFINE s == refreshes + 2
<1>1. /\ s \in Socket /\ refreshes' = refreshes + 1
      /\ refreshes' \in Loop /\ refreshes' \in 1 .. MaxRefreshes
  BY DEF Refresh, Socket, Loop, LifecycleTypeOK
<1>2. /\ s \notin {0, 1} /\ sr # s
  BY DEF SrIsKnown, LifecycleTypeOK
<1>3. UNCHANGED <<tcpLn, listen, listenTCP, lconn, closed>>
  BY DEF Refresh
<1>4. CASE /\ free(closeOld, IsTCP)
           /\ open' = closeOld \cup {s}
           /\ tcpSockets' = (IF IsTCP THEN tcpSockets \cup {s} ELSE tcpSockets)
           /\ sr' = s
           /\ lpc' = [lpc EXCEPT ![refreshes'] = "top"]
           /\ refreshed' = "ok"
  <2>1. LifecycleTypeOK'
    <3>1. open' \subseteq Socket /\ tcpSockets' \subseteq Socket
      BY <1>1, <1>4 DEF LifecycleTypeOK, closeOld
    <3>2. lpc' \in [Loop -> {"none", "top", "reading", "handling", "ended"}]
      BY <1>1, <1>4 DEF LifecycleTypeOK
    <3>3. \A l \in Loop : lpc'[l] = "reading" => lconn'[l] # NoSocket
      BY <1>1, <1>3, <1>4 DEF LifecycleTypeOK
    <3>4. refreshes' \in 0 .. MaxRefreshes /\ sr' \in Socket /\ refreshed' = "ok"
      BY <1>1, <1>4 DEF LifecycleTypeOK
    <3> QED
      BY <1>3, <3>1, <3>2, <3>3, <3>4 DEF LifecycleTypeOK
  <2>2. LoopsHaveSocket' /\ SrIsKnown'
    BY <1>1, <1>3, <1>4 DEF LoopsHaveSocket, SrIsKnown, LifecycleTypeOK
  <2>3. loopOf(sr') = refreshes' /\ lpc'[refreshes'] = "top"
    BY <1>1, <1>2, <1>4 DEF loopOf, LifecycleTypeOK
  <2>4. OwnLoopServes'
    BY <1>1, <2>3 DEF OwnLoopServes, Serves, loopOf
  <2>5. BoundIsOpen'
    BY <1>3, <1>4 DEF BoundIsOpen, SrIsKnown, closeOld
  <2>6. OneUdpSocket'
    <3>1. CASE listen = "bound" /\ listenTCP = "idle"
      <4>1. 0 \in closeOld /\ tcpSockets = {}
        BY <3>1 DEF BoundIsOpen, SrIsKnown, OneUdpSocket, closeOld
      <4> QED
        BY <1>4, <3>1, <4>1 DEF free, IsTCP
    <3>2. CASE listen # "bound" /\ listenTCP = "idle"
      BY <1>3, <1>4, <3>2, NothingElseOpen DEF OneUdpSocket, IsTCP
    <3> QED
      BY <1>3, <3>1, <3>2 DEF OneUdpSocket
  <2> QED
    BY <2>1, <2>2, <2>4, <2>5, <2>6
<1>5. CASE /\ open' = closeOld
           /\ refreshed' \in {"taken", "inUse"}
           /\ UNCHANGED <<sr, tcpSockets, lpc>>
  <2>1. LifecycleTypeOK'
    <3>1. open' \subseteq Socket /\ refreshes' \in 0 .. MaxRefreshes
      BY <1>1, <1>5 DEF LifecycleTypeOK, closeOld
    <3> QED
      BY <1>3, <1>5, <3>1 DEF LifecycleTypeOK
  <2>2. LoopsHaveSocket'
    BY <1>3, <1>5 DEF LoopsHaveSocket
  <2>3. SrIsKnown'
    BY <1>1, <1>3, <1>5 DEF LifecycleTypeOK, SrIsKnown
  <2>4. OwnLoopServes'
    BY <1>5 DEF OwnLoopServes, closeOld
  <2>5. BoundIsOpen' /\ OneUdpSocket'
    BY <1>3, <1>5 DEF BoundIsOpen, OneUdpSocket, SrIsKnown, closeOld
  <2> QED
    BY <2>1, <2>2, <2>3, <2>4, <2>5
<1> QED
  BY <1>4, <1>5 DEF Refresh, startLoop

LEMMA CloseInv ==
    ASSUME LifecycleInv, Close
    PROVE  LifecycleInv'
<1> USE LifecycleAssumption DEF LifecycleInv
<1>1. LifecycleTypeOK' /\ LoopsHaveSocket' /\ SrIsKnown' /\ OneUdpSocket'
  BY DEF Close, LifecycleTypeOK, LoopsHaveSocket, SrIsKnown, OneUdpSocket
<1>2. OwnLoopServes'
  BY DEF Close, OwnLoopServes, Serves
<1>3. BoundIsOpen'
  BY DEF Close, BoundIsOpen, SrIsKnown, LifecycleTypeOK
<1> QED
  BY <1>1, <1>2, <1>3

LEMMA LifecycleNextInv == LifecycleInv /\ [LifecycleNext]_lifecycleVars => LifecycleInv'
<1> SUFFICES ASSUME LifecycleInv, [LifecycleNext]_lifecycleVars PROVE LifecycleInv'
  OBVIOUS
<1>1. CASE UNCHANGED lifecycleVars
  BY <1>1 DEF lifecycleVars, LifecycleInv, LifecycleTypeOK, LoopsHaveSocket, SrIsKnown,
              OwnLoopServes, Serves, BoundIsOpen, OneUdpSocket
<1>2. CASE \E l \in Loop : loopStep(l)
  BY <1>2, LoopInv
<1> QED
  BY <1>1, <1>2, ListenInv, ListenTCPInv, RefreshInv, CloseInv DEF LifecycleNext

LEMMA LifecycleInvariant == LifecycleSpec => []LifecycleInv
  BY LifecycleInitInv, LifecycleNextInv, PTL DEF LifecycleSpec

-----------------------------------------------------------------------------
(* The sockets, the loops and the places of Listen and ListenTCP keep      *)
(* their types; a loop never reads from s.sr before there is one           *)
(* (server.go:553-556).                                                    *)
THEOREM LifecycleTypeCorrect == LifecycleSpec => []LifecycleTypeOK
<1>1. LifecycleInv => LifecycleTypeOK
  BY DEF LifecycleInv
<1> QED
  BY <1>1, LifecycleInvariant, PTL

(* However often the socket is replaced under the loops, an open current   *)
(* socket has one that reads from it, the one that was started for it      *)
(* (server.go:222-226, 553-560).                                           *)
THEOREM NeverDeafAlways == LifecycleSpec => []NeverDeaf
<1>1. LifecycleInv => NeverDeaf
  BY DEF LifecycleInv, OwnLoopServes, NeverDeaf
<1> QED
  BY <1>1, LifecycleInvariant, PTL

(* A UDP server has no socket but s.sr's and the one Listen is about to    *)
(* store there (server.go:75-96, 203-222).                                 *)
THEOREM NoSocketForgottenEver == LifecycleSpec => []NoSocketForgotten
<1>1. LifecycleInv => NoSocketForgotten
  BY DEF LifecycleInv, OneUdpSocket, NoSocketForgotten
<1> QED
  BY <1>1, LifecycleInvariant, PTL

(* No Refresh of a running UDP server finds its address taken by the       *)
(* server itself (server.go:203-216).                                      *)
THEOREM RefreshAlwaysRecreates == LifecycleSpec => RefreshRecreates
<1>1. ASSUME LifecycleInv, [LifecycleNext]_lifecycleVars, refreshes' # refreshes,
             listen = "running", listenTCP = "idle"
      PROVE  refreshed' # "inUse"
  <2>1. refreshes \in Nat
    BY <1>1, LifecycleAssumption DEF LifecycleInv, LifecycleTypeOK
  <2>2. Refresh
    BY <1>1, <2>1
       DEF LifecycleNext, lifecycleVars, ListenBind, ListenStart, ListenTCPBind, ListenTCPStart,
           AcceptEnds, loopStep, LoopTop, LoopRead, LoopHandled, LoopEnds, Close
  <2>3. free(closeOld, IsTCP)
    BY <1>1, NothingElseOpen
  <2> QED
    BY <2>2, <2>3 DEF Refresh
<1>2. LifecycleInv /\ [LifecycleNext]_lifecycleVars
        => (refreshes' # refreshes /\ listen = "running" /\ listenTCP = "idle"
              => refreshed' # "inUse")
  BY <1>1
<1> QED
  BY <1>2, LifecycleInvariant, PTL DEF LifecycleSpec, RefreshRecreates

-----------------------------------------------------------------------------
(* The server's part of send: what LocalState's variables hold, and that a *)
(* goroutine in processMessage has a localState.                           *)
ReceiverTypes ==
    /\ LocalStateTypeOK
    /\ \A w \in Worker : wpc[w] = "process" => wls[w] \in State

(* Parts that a step leaves.                                               *)
LEMMA ReceiverStays ==
    /\ ObjectTypeOK /\ UNCHANGED objectVars => ObjectTypeOK'
    /\ HandlerTypeOK /\ UNCHANGED handlerVars => HandlerTypeOK'
    /\ CacheTypeOK /\ UNCHANGED cacheVars => CacheTypeOK'
    /\ NetTypeOK /\ UNCHANGED netVars => NetTypeOK'
    /\ ReceiverTypes /\ UNCHANGED workerVars =>
          WorkerTypeOK' /\ \A w \in Worker : wpc'[w] = "process" => wls'[w] \in State
  <1>1. ObjectTypeOK /\ UNCHANGED objectVars => ObjectTypeOK'
    BY DEF ObjectTypeOK, objectVars
  <1>2. HandlerTypeOK /\ UNCHANGED handlerVars => HandlerTypeOK'
    BY DEF HandlerTypeOK, handlerVars
  <1>3. CacheTypeOK /\ UNCHANGED cacheVars => CacheTypeOK'
    BY DEF CacheTypeOK, cacheVars
  <1>4. NetTypeOK /\ UNCHANGED netVars => NetTypeOK'
    BY DEF NetTypeOK, netVars
  <1>5. ReceiverTypes /\ UNCHANGED workerVars =>
           WorkerTypeOK' /\ \A w \in Worker : wpc'[w] = "process" => wls'[w] \in State
    BY DEF ReceiverTypes, LocalStateTypeOK, WorkerTypeOK, workerVars
  <1> QED
    BY <1>1, <1>2, <1>3, <1>4, <1>5

LEMMA WorkerStepTypes ==
    ASSUME ReceiverTypes, NumBlocks = 1, NEW w \in Worker, workerStep(w)
    PROVE  ReceiverTypes'
  <1> USE DEF ReceiverTypes, LocalStateTypeOK
  <1>1. CASE checkProcessed(w) \/ loadState(w)
    <2>1. UNCHANGED <<netVars, cacheVars, objectVars, handlerVars>>
      BY <1>1 DEF checkProcessed, loadState
    <2>2. WorkerTypeOK' /\ \A v \in Worker : wpc'[v] = "process" => wls'[v] \in State
      BY <1>1 DEF checkProcessed, loadState, WorkerTypeOK, WorkerSteps, CacheTypeOK
    <2> QED
      BY <2>1, <2>2, ReceiverStays
  <1>2. ASSUME NEW l \in State, storeState(w, l) PROVE ReceiverTypes'
    <2>1. NetTypeOK' /\ CacheTypeOK'
      BY <1>2 DEF storeState, NetTypeOK, netVars, CacheTypeOK
    <2>2. ObjectTypeOK'
      BY <1>2 DEF storeState, ObjectTypeOK
    <2>3. HandlerTypeOK'
      BY <1>2 DEF storeState, HandlerTypeOK, Stages
    <2>4. WorkerTypeOK' /\ \A v \in Worker : wpc'[v] = "process" => wls'[v] \in State
      BY <1>2 DEF storeState, WorkerTypeOK, WorkerSteps
    <2> QED
      BY <2>1, <2>2, <2>3, <2>4
  <1>3. CASE processMessage(w)
    <2>1. wls[w] \in State /\ wmsg[w] \in Block
      BY <1>3 DEF processMessage, WorkerTypeOK
    <2>2. receiveWhole(wls[w], wmsg[w])
      BY <1>3 DEF processMessage
    <2>3. UNCHANGED <<netVars, cacheVars, objectVars, registered, stage, payload, runs, serverUp>>
      BY <1>3, <2>2 DEF processMessage, receiveWhole, netVars, objectVars
    <2>4. spawned' \in [State -> [SUBSET Block -> Nat]]
      <3> DEFINE p == {wmsg[w]}
                 f == [spawned[wls[w]] EXCEPT ![p] = spawned[wls[w]][p] + 1]
      <3>1. spawned' = [spawned EXCEPT ![wls[w]] = f]
        BY <2>2 DEF receiveWhole
      <3>2. p \in SUBSET Block
        BY <2>1
      <3>3. f \in [SUBSET Block -> Nat]
        BY <2>1, <3>2 DEF HandlerTypeOK
      <3> QED
        BY <3>1, <3>3 DEF HandlerTypeOK
    <2>5. WorkerTypeOK' /\ \A v \in Worker : wpc'[v] = "process" => wls'[v] \in State
      BY <1>3, LocalStateAssumption DEF processMessage, WorkerTypeOK, WorkerSteps
    <2>6. HandlerTypeOK'
      BY <2>3, <2>4 DEF HandlerTypeOK
    <2> QED
      BY <2>3, <2>5, <2>6, ReceiverStays
  <1> QED
    BY <1>1, <1>2, <1>3 DEF workerStep

LEMMA SwapTypes ==
    ASSUME ReceiverTypes, NEW l \in State, NEW p \in SUBSET Block, compareAndSwap(l, p)
    PROVE  ReceiverTypes'
  <1> USE DEF ReceiverTypes, LocalStateTypeOK
  <1>1. UNCHANGED <<netVars, cacheVars, workerVars>>
    BY DEF compareAndSwap
  <1>2. spawned' \in [State -> [SUBSET Block -> Nat]]
    <2>1. spawned[l] \in [SUBSET Block -> Nat] /\ spawned[l][p] > 0
      BY DEF compareAndSwap, HandlerTypeOK
    <2> DEFINE f == [spawned[l] EXCEPT ![p] = spawned[l][p] - 1]
    <2>2. spawned' = [spawned EXCEPT ![l] = f]
      BY DEF compareAndSwap
    <2>3. f \in [SUBSET Block -> Nat]
      BY <2>1
    <2> QED
      BY <2>2, <2>3 DEF HandlerTypeOK
  <1>3. /\ stage' \in [State -> Stages] /\ payload' \in [State -> SUBSET Block]
        /\ UNCHANGED <<registered, runs, serverUp>>
    BY DEF compareAndSwap, HandlerTypeOK, Stages
  <1>4. HandlerTypeOK'
    BY <1>2, <1>3 DEF HandlerTypeOK
  <1>5. ObjectTypeOK'
    BY DEF compareAndSwap, ObjectTypeOK
  <1> QED
    BY <1>1, <1>4, <1>5, ReceiverStays

LEMMA HandlerStepTypes ==
    ASSUME ReceiverTypes, NEW l \in State,
           deleteState(l) \/ markProcessed(l) \/ HandOver(l)
    PROVE  ReceiverTypes'
  <1> USE DEF ReceiverTypes, LocalStateTypeOK
  <1>1. UNCHANGED <<netVars, objectVars, workerVars, registered, spawned, payload, runs, serverUp>>
    BY DEF deleteState, markProcessed, HandOver
  <1>2. stage' \in [State -> Stages]
    BY DEF deleteState, markProcessed, HandOver, HandlerTypeOK, Stages, handlerVars
  <1>3. HandlerTypeOK'
    BY <1>1, <1>2 DEF HandlerTypeOK
  <1>4. storage' \in State \cup {None}
    BY DEF deleteState, markProcessed, HandOver, CacheTypeOK, cacheVars
  <1>5. processed' \in BOOLEAN
    BY DEF deleteState, markProcessed, HandOver, CacheTypeOK, cacheVars
  <1> QED
    BY <1>1, <1>3, <1>4, <1>5, ReceiverStays DEF CacheTypeOK

(* What the caller, the peer and the network do leaves the server alone.   *)
LEMMA ArrivalTypes ==
    ASSUME ReceiverTypes, toServer' \in SUBSET Block, UNCHANGED toClient,
           \/ UNCHANGED serverVars
           \/ \E w \in Worker, b \in Block : listenLoop(w, b)
    PROVE  ReceiverTypes'
  <1> USE DEF ReceiverTypes, LocalStateTypeOK
  <1>1. NetTypeOK'
    BY DEF NetTypeOK
  <1>2. UNCHANGED <<cacheVars, objectVars, handlerVars>>
    BY DEF listenLoop, serverVars
  <1>3. WorkerTypeOK' /\ \A v \in Worker : wpc'[v] = "process" => wls'[v] \in State
    <2>1. CASE UNCHANGED serverVars
      BY <2>1, ReceiverStays DEF serverVars
    <2>2. ASSUME NEW w \in Worker, NEW b \in Block, listenLoop(w, b)
          PROVE  WorkerTypeOK' /\ \A v \in Worker : wpc'[v] = "process" => wls'[v] \in State
      BY <2>2 DEF listenLoop, WorkerTypeOK, WorkerSteps
    <2> QED
      BY <2>1, <2>2
  <1> QED
    BY <1>1, <1>2, <1>3, ReceiverStays

-----------------------------------------------------------------------------
(* send itself: it has written at most one datagram more than its loop had *)
(* turns, and goes on only while a turn is left.                           *)
CallTypes ==
    /\ hello \in BOOLEAN
    /\ spc \in {"idle", "register", "select", "resend", "delete", "returned"}
    /\ turns \in 0 .. Retries + 1
    /\ sends \in 0 .. turns + 1
    /\ result \in {"none", "response", "timeout", "error"}
    /\ requests \in 0 .. sends
    /\ answered \in BOOLEAN
    /\ spc = "idle" => sends = 0 /\ turns = 0
    /\ spc \in {"register", "select", "resend"} => turns <= Retries

SendTypes == ReceiverTypes /\ FaultTypeOK /\ CallTypes

LEMMA SendTypesInit == ServerSendInit => SendTypes
  <1> SUFFICES ASSUME ServerSendInit PROVE SendTypes
    OBVIOUS
  <1> USE DEF ServerSendInit, LocalStateInit, NetworkInit
  <1>1. NetTypeOK
    BY DEF NetTypeOK
  <1>2. processed \in BOOLEAN /\ answered \in BOOLEAN /\ serverUp \in BOOLEAN
    BY Zenon
  <1>3. CacheTypeOK
    BY <1>2 DEF CacheTypeOK
  <1>4. ObjectTypeOK
    <2>1. runnedHandler \in [State -> BOOLEAN]
      BY Zenon
    <2>2. bufBlock1 \in [State -> SUBSET Block] /\ totalBlocks \in [State -> {-1, NumBlocks}]
      OBVIOUS
    <2> QED
      BY <2>1, <2>2 DEF ObjectTypeOK
  <1>5. HandlerTypeOK
    <2>1. registered \in BOOLEAN
      BY LocalStateAssumption
    <2>2. spawned \in [State -> [SUBSET Block -> Nat]] /\ stage \in [State -> Stages]
      BY DEF Stages
    <2>3. payload \in [State -> SUBSET Block] /\ runs \in Seq(SUBSET Block)
      OBVIOUS
    <2> QED
      BY <1>2, <2>1, <2>2, <2>3 DEF HandlerTypeOK
  <1>6. WorkerTypeOK /\ \A w \in Worker : wpc[w] # "process"
    BY ServerSendAssumption DEF WorkerTypeOK, WorkerSteps, Block
  <1>7. FaultTypeOK
    BY NetworkAssumption DEF FaultTypeOK
  <1>8. hello \in BOOLEAN /\ turns \in 0 .. Retries + 1
    BY ServerSendAssumption
  <1>9. CallTypes
    BY <1>2, <1>8 DEF CallTypes
  <1> QED
    BY <1>1, <1>3, <1>4, <1>5, <1>6, <1>7, <1>9 DEF SendTypes, ReceiverTypes, LocalStateTypeOK

LEMMA BqWriteTypes ==
    ASSUME CallTypes, bqWrite
    PROVE  CallTypes'
  BY DEF CallTypes, bqWrite, sendVars

LEMMA CallTypesStays ==
    ASSUME CallTypes, UNCHANGED sendVars
    PROVE  CallTypes'
  BY DEF CallTypes, sendVars

LEMMA SendTypesCaller ==
    ASSUME SendTypes, FirstSend \/ Register \/ Timeout \/ Resend \/ Return
    PROVE  SendTypes'
  <1> USE ServerSendAssumption DEF SendTypes
  <1>1. UNCHANGED <<serverVars, netVars, faultVars>>
    BY DEF FirstSend, Register, Timeout, Resend, Return
  <1>2. ReceiverTypes' /\ FaultTypeOK'
    BY <1>1, ArrivalTypes DEF ReceiverTypes, LocalStateTypeOK, NetTypeOK, netVars, FaultTypeOK,
       faultVars
  <1>3. CASE FirstSend
    BY <1>2, <1>3 DEF FirstSend, sendTo, CallTypes
  <1>4. CASE Register \/ Timeout \/ Return
    BY <1>2, <1>4 DEF Register, Timeout, Return, timerFires, CallTypes
  <1>5. CASE Resend
    BY <1>2, <1>5 DEF Resend, sendTo, lastTurn, CallTypes
  <1> QED
    BY <1>3, <1>4, <1>5

LEMMA SendTypesNext ==
    ASSUME SendTypes, [ServerSendNext]_serverSendVars
    PROVE  SendTypes'
  <1> USE ServerSendAssumption DEF SendTypes
  <1>0. toServer \in SUBSET Block
    BY DEF ReceiverTypes, LocalStateTypeOK, NetTypeOK
  <1>1. CASE FirstSend \/ Register \/ Timeout \/ Resend \/ Return
    BY <1>1, SendTypesCaller
  <1>2. CASE PeerReceives
    <2>1. toServer' \in SUBSET Block /\ UNCHANGED <<toClient, serverVars>>
      BY <1>0, <1>2 DEF PeerReceives
    <2>2. ReceiverTypes' /\ FaultTypeOK'
      BY <1>2, <2>1, ArrivalTypes DEF PeerReceives, FaultTypeOK, faultVars
    <2>3. CallTypes'
      BY <1>2 DEF PeerReceives, CallTypes
    <2> QED
      BY <2>2, <2>3
  <1>3. CASE LoseRequest
    <2>1. toServer' \in SUBSET Block /\ UNCHANGED <<toClient, serverVars>>
      BY <1>0, <1>3 DEF LoseRequest, netVars
    <2>2. ReceiverTypes' /\ FaultTypeOK'
      BY <1>3, <2>1, ArrivalTypes, NetworkAssumption DEF LoseRequest, FaultTypeOK
    <2>3. CallTypes'
      BY <1>3 DEF LoseRequest, CallTypes
    <2> QED
      BY <2>2, <2>3
  <1>4. CASE ReceiveHello
    <2>1. toServer' \in SUBSET Block /\ UNCHANGED <<toClient, serverVars>>
      BY <1>0, <1>4 DEF ReceiveHello, TakeFrom
    <2>2. FaultTypeOK'
      BY <1>4, NetworkAssumption DEF ReceiveHello, TakeFrom, FaultTypeOK
    <2> QED
      BY <1>4, <2>1, <2>2, ArrivalTypes, BqWriteTypes DEF ReceiveHello
  <1>5. CASE Receive
    <2>1. PICK w \in Worker, b \in toServer : TakeFrom(toServer, toServer', b) /\ listenLoop(w, b)
      BY <1>5 DEF Receive
    <2>2. toServer' \in SUBSET Block /\ UNCHANGED <<toClient, sendVars>> /\ b \in Block
      BY <1>0, <1>5, <2>1 DEF Receive, TakeFrom
    <2>3. FaultTypeOK'
      BY <1>5, <2>1, NetworkAssumption DEF Receive, TakeFrom, FaultTypeOK
    <2>4. ReceiverTypes'
      BY <2>1, <2>2, ArrivalTypes
    <2> QED
      BY <2>2, <2>3, <2>4, CallTypesStays
  <1>6. ASSUME NEW l \in State, HandOver(l) PROVE SendTypes'
    BY <1>6, HandlerStepTypes, BqWriteTypes DEF HandOver, FaultTypeOK, faultVars
  <1>7. CASE listenStep
    <2>1. UNCHANGED <<sendVars, faultVars>>
      BY <1>7 DEF listenStep
    <2>2. ReceiverTypes'
      <3>1. CASE \E w \in Worker : workerStep(w)
        BY <3>1, WorkerStepTypes
      <3>2. CASE \E l \in State : \E p \in SUBSET Block : compareAndSwap(l, p)
        BY <3>2, SwapTypes
      <3>3. CASE \E l \in State : deleteState(l) \/ markProcessed(l)
        BY <3>3, HandlerStepTypes
      <3>4. CASE expireProcessed
        BY <3>4 DEF expireProcessed, ReceiverTypes, LocalStateTypeOK, CacheTypeOK, NetTypeOK,
           ObjectTypeOK, HandlerTypeOK, WorkerTypeOK, netVars, objectVars, handlerVars, workerVars
      <3> QED
        BY <1>7, <3>1, <3>2, <3>3, <3>4 DEF listenStep
    <2> QED
      BY <2>1, <2>2, CallTypesStays DEF FaultTypeOK, faultVars
  <1>8. CASE UNCHANGED serverSendVars
    <2>1. UNCHANGED <<sendVars, serverVars, toServer, toClient, faultVars>>
      BY <1>8 DEF serverSendVars, netVars
    <2> QED
      BY <1>0, <2>1, ArrivalTypes, CallTypesStays DEF FaultTypeOK, faultVars
  <1> QED
    BY <1>1, <1>2, <1>3, <1>4, <1>5, <1>6, <1>7, <1>8 DEF ServerSendNext

LEMMA SendTypesSuffice == SendTypes => ServerSendTypeOK
  BY ServerSendAssumption DEF SendTypes, ReceiverTypes, CallTypes, ServerSendTypeOK

-----------------------------------------------------------------------------
(* Server.Send of a coaps message.                                         *)

(* The types, with what keeps the count of the turns within bounds.        *)
SecureSendTypeInv ==
    /\ SecureSendTypeOK
    /\ phase = "select" => turn < waits
    /\ phase \in {"sendTo", "write"} => turn <= waits
    /\ phase = "write" /\ what = "request" => held # NoSession

LEMMA WaitsRange == waits \in 1 .. ExtraRetries + 1
  BY SecureSendAssumption DEF waits

LEMMA SecureSendTypeInit == SecureSendInit => SecureSendTypeInv
  <1> SUFFICES ASSUME SecureSendInit PROVE SecureSendTypeInv
    OBVIOUS
  <1>1. OldKeys \in Keys /\ [c |-> 0, s |-> 1] \in Keys
    BY DEF Keys, OldKeys
  <1>2. session \in Keys \cup {NoSession} /\ peerSession \in Keys \cup {NoSession}
    BY <1>1 DEF SecureSendInit
  <1>3. turn \in 0 .. ExtraRetries + 1 /\ troubles \in 0 .. MaxTroubles
    BY SecureSendAssumption DEF SecureSendInit
  <1>4. /\ phase = "handshake" /\ what = "request" /\ round = 1 /\ held = NoSession
        /\ outcome = "none" /\ peerKeys = 1
        /\ outbound = {} /\ inbound = {} /\ harm = {}
    BY DEF SecureSendInit
  <1>5. seen \in BOOLEAN /\ peerSeen \in BOOLEAN
    BY Zenon DEF SecureSendInit
  <1> QED
    BY <1>2, <1>3, <1>4, <1>5 DEF SecureSendTypeInv, SecureSendTypeOK

LEMMA TroubleRange ==
    ASSUME SecureSendTypeOK, NEW k \in {"loss", "repeat", "early", "expiry"},
           trouble(k) \/ UNCHANGED troubleVars
    PROVE  troubles' \in 0 .. MaxTroubles /\ harm' \subseteq {"loss", "repeat", "early", "expiry"}
  <1>1. CASE trouble(k)
    <2>1. troubles' = troubles + 1 /\ troubles < MaxTroubles /\ harm' = harm \cup {k}
      BY <1>1 DEF trouble
    <2> QED
      BY <2>1, SecureSendAssumption DEF SecureSendTypeOK
  <1>2. CASE UNCHANGED troubleVars
    BY <1>2 DEF troubleVars, SecureSendTypeOK
  <1> QED
    BY <1>1, <1>2

(* The caller.                                                             *)
LEMMA CallerTypes ==
    ASSUME SecureSendTypeInv, callerStep \/ Timer
    PROVE  SecureSendTypeInv'
  <1> USE SecureSendAssumption DEF SecureSendTypeInv, SecureSendTypeOK, peerVars, flightVars,
          troubleVars
  <1>1. CASE Handshake
    BY <1>1, WaitsRange DEF Handshake, beginSend, waits
  <1>2. CASE SendTo
    BY <1>2 DEF SendTo, sessionError, return, waits
  <1>3. CASE Write
    <2>1. outbound' \subseteq Outbound /\ session' \in Keys \cup {NoSession}
      BY <1>3 DEF Write, Outbound
    <2>2. waits' = waits
      BY <1>3 DEF Write, waits
    <2>3. turn = waits \/ turn < waits
      BY <1>3, WaitsRange DEF Write
    <2> QED
      BY <1>3, <2>1, <2>2, <2>3 DEF Write, return
  <1>4. CASE Store
    BY <1>4, WaitsRange DEF Store, beginSend, waits
  <1>5. CASE Timer
    <2>1. waits' = waits
      BY <1>5 DEF Timer, waits
    <2>2. turn + 1 <= waits /\ turn' = turn + 1
      BY <1>5, WaitsRange DEF Timer, nextTurn
    <2>3. troubles' \in 0 .. MaxTroubles /\ harm' \subseteq {"loss", "repeat", "early", "expiry"}
      BY <1>5, TroubleRange DEF Timer
    <2> QED
      BY <1>5, <2>1, <2>2, <2>3, WaitsRange DEF Timer
  <1> QED
    BY <1>1, <1>2, <1>3, <1>4, <1>5 DEF callerStep

(* A step that leaves what the caller counts.                              *)
LEMMA CallerStays ==
    ASSUME SecureSendTypeInv, UNCHANGED <<what, round, turn>>,
           UNCHANGED <<phase, held>> \/ phase' \in {"store", "returned"}
    PROVE  /\ phase' = "select" => turn' < waits'
           /\ phase' \in {"sendTo", "write"} => turn' <= waits'
           /\ phase' = "write" /\ what' = "request" => held' # NoSession
  BY DEF SecureSendTypeInv, waits

LEMMA ReceiveTypes ==
    ASSUME SecureSendTypeInv, receive
    PROVE  SecureSendTypeInv'
  <1> USE DEF SecureSendTypeInv, SecureSendTypeOK, peerVars
  <1>1. PICK m \in inbound : takeInbound(m)
    BY DEF receive, ReceivePeerHello, ReceiveRejection, ReceiveResponse
  <1>2. troubles' \in 0 .. MaxTroubles /\ harm' \subseteq {"loss", "repeat", "early", "expiry"}
    BY <1>1, TroubleRange DEF takeInbound
  <1>3. inbound' \subseteq Inbound
    BY <1>1 DEF takeInbound
  <1>4. CASE ReceivePeerHello
    <2>1. held' \in Keys \cup {NoSession}
      BY <1>4 DEF ReceivePeerHello, Inbound
    <2>2. UNCHANGED <<phase, held>> \/ phase' = "store"
      BY <1>4 DEF ReceivePeerHello
    <2> QED
      BY <1>2, <1>3, <1>4, <2>1, <2>2, CallerStays DEF ReceivePeerHello
  <1>5. CASE ReceiveRejection
    BY <1>2, <1>3, <1>5, CallerStays DEF ReceiveRejection, callerVars, forgetSession
  <1>6. CASE ReceiveResponse
    <2>1. /\ UNCHANGED <<phase, held>> \/ phase' = "returned"
          /\ outcome' \in {outcome, "response"}
          /\ session' \in {session, NoSession}
          /\ seen' \in BOOLEAN
          /\ phase' \in {phase, "returned"}
      BY <1>6 DEF ReceiveResponse, return
    <2> QED
      BY <1>2, <1>3, <1>6, <2>1, CallerStays DEF ReceiveResponse
  <1> QED
    BY <1>4, <1>5, <1>6 DEF receive

LEMMA PeerTypes ==
    ASSUME SecureSendTypeInv, peerStep
    PROVE  SecureSendTypeInv'
  <1> USE DEF SecureSendTypeInv, SecureSendTypeOK, callerVars
  <1>1. PICK m \in outbound : takeOutbound(m)
    BY DEF peerStep, PeerHandshakes, PeerHandles
  <1>2. troubles' \in 0 .. MaxTroubles /\ harm' \subseteq {"loss", "repeat", "early", "expiry"}
    BY <1>1, TroubleRange DEF takeOutbound
  <1>3. outbound' \subseteq Outbound
    BY <1>1 DEF takeOutbound
  <1>4. CASE PeerHandshakes
    <2>1. keyPair \in Nat
      BY DEF keyPair, Keys
    <2>2. PICK k \in Keys : /\ peerSession' = k
                            /\ inbound' = inbound \cup {[kind |-> "peerHello", keys |-> k]}
      BY <1>4, <2>1 DEF PeerHandshakes, Outbound, Keys
    <2>3. inbound' \subseteq Inbound
      BY <2>2 DEF Inbound
    <2>4. peerKeys' \in Nat
      BY <1>4, <2>1 DEF PeerHandshakes
    <2> QED
      BY <1>2, <1>3, <1>4, <2>2, <2>3, <2>4, CallerStays DEF PeerHandshakes
  <1>5. CASE PeerHandles
    <2>1. PICK n \in outbound : n.kind = "request" /\ n.keys \in Keys
            /\ inbound' \in {inbound, inbound \cup {[kind |-> "response", keys |-> n.keys]},
                             inbound \cup {[kind |-> "unauthorized"]}}
      BY <1>5 DEF PeerHandles, Outbound
    <2>2. inbound' \subseteq Inbound
      BY <2>1 DEF Inbound
    <2>3. peerSession' \in Keys \cup {NoSession} /\ peerSeen' \in BOOLEAN
      BY <1>5 DEF PeerHandles
    <2> QED
      BY <1>2, <1>3, <1>5, <2>2, <2>3, CallerStays DEF PeerHandles
  <1> QED
    BY <1>4, <1>5 DEF peerStep

LEMMA TroubleTypes ==
    ASSUME SecureSendTypeInv, LoseOne \/ SessionExpires
    PROVE  SecureSendTypeInv'
  <1> USE DEF SecureSendTypeInv, SecureSendTypeOK, callerVars, peerVars, flightVars
  <1>1. troubles' \in 0 .. MaxTroubles /\ harm' \subseteq {"loss", "repeat", "early", "expiry"}
    BY TroubleRange DEF LoseOne, SessionExpires
  <1>2. CASE LoseOne
    BY <1>1, <1>2, CallerStays DEF LoseOne
  <1>3. CASE SessionExpires
    BY <1>1, <1>3, CallerStays DEF SessionExpires
  <1> QED
    BY <1>2, <1>3

LEMMA SecureSendTypeNext ==
    ASSUME SecureSendTypeInv, [SecureSendNext]_secureVars
    PROVE  SecureSendTypeInv'
  <1>1. CASE UNCHANGED secureVars
    BY <1>1 DEF SecureSendTypeInv, SecureSendTypeOK, waits, secureVars, callerVars, peerVars,
       flightVars, troubleVars
  <1> QED
    BY <1>1, CallerTypes, ReceiveTypes, PeerTypes, TroubleTypes DEF SecureSendNext

-----------------------------------------------------------------------------
(* The datagrams.                                                          *)
NewHello(n)   == [kind |-> "hello", c |-> n]
SealedWith(k) == [kind |-> "request", keys |-> k]
HelloBack(k)  == [kind |-> "peerHello", keys |-> k]
OpensWith(k)  == [kind |-> "response", keys |-> k]
Unauthorized  == [kind |-> "unauthorized"]

(* Both sides kept the session of an earlier Send, and use it.             *)
Kept ==
    /\ round = 1 /\ what = "request" /\ phase # "store"
    /\ session = OldKeys /\ peerSession = OldKeys
    /\ held \in {NoSession, OldKeys}
    /\ phase = "write" => held = OldKeys
    /\ outbound \subseteq {SealedWith(OldKeys)}
    /\ inbound \subseteq {OpensWith(OldKeys)}

(* This server has none and waits for a PeerHello: there is no request yet *)
(* that could be rejected.                                                 *)
Asking ==
    /\ round = 1 /\ phase # "store"
    /\ IF phase = "handshake" THEN outbound = {} ELSE what = "hello"
    /\ session = NoSession /\ held = NoSession /\ ~peerSeen
    /\ outbound \subseteq {NewHello(1)}
    /\ inbound = {}

(* The peer made a key pair for the first hello; everything under way is   *)
(* of that session.                                                        *)
Opened ==
    /\ round = 1 /\ phase # "handshake"
    /\ peerSession \in Keys /\ peerSession.c = 1
    /\ held \in {NoSession, peerSession}
    /\ phase = "store" \/ (phase = "write" /\ what = "request") => held = peerSession
    /\ \/ what = "hello" /\ session = NoSession
       \/ what = "request" /\ session = peerSession /\ phase # "store"
    /\ outbound \subseteq {NewHello(1), SealedWith(peerSession)}
    /\ inbound \subseteq {HelloBack(peerSession), OpensWith(peerSession)}

(* The peer does not have the session this server kept: no hello was sent  *)
(* under round 1, and none will be.                                        *)
Lost ==
    /\ round = 1 /\ what = "request" /\ phase # "store" /\ ~peerSeen
    /\ session \in {NoSession, OldKeys} /\ held \in {NoSession, OldKeys}
    /\ phase = "handshake" => session = OldKeys /\ flightVars = <<{}, {}>>
    /\ phase = "write" => held = OldKeys
    /\ peerSession # OldKeys
    /\ outbound \subseteq {SealedWith(OldKeys)}
    /\ inbound \subseteq {Unauthorized}

(* The second round, after Lost: every hello is of this round, so a late   *)
(* one cannot change the session that the response was sealed with.        *)
Repairing ==
    /\ round = 2
    /\ session # NoSession => session.c = 2
    /\ phase = "store" \/ (phase = "write" /\ what = "request") => held # NoSession /\ held.c = 2
    /\ peerSession # OldKeys
    /\ peerSeen => peerSession # NoSession /\ peerSession.c = 2
    /\ \A m \in outbound : \/ m = NewHello(2)
                           \/ m.kind = "request" /\ (m.keys = OldKeys \/ m.keys.c = 2)
    /\ \A m \in inbound : m.kind = "peerHello" => m.keys.c = 2

(* A peer that answered keeps the session it answered with, and a caller   *)
(* that has the response has that session.                                 *)
AnswerPins ==
    /\ peerSeen => peerSession # NoSession
    /\ \A m \in inbound : m.kind = "response" => peerSeen /\ m.keys = peerSession
    /\ outcome = "response" => phase = "returned" /\ seen /\ peerSeen /\ session = peerSession

AgreementModes == Kept \/ Asking \/ Opened \/ Lost \/ Repairing

AgreementInv == "expiry" \notin harm => AnswerPins /\ AgreementModes

(* Each datagram is of its own kind, and carries what it was made with.    *)
LEMMA KindsDiffer ==
    ASSUME NEW k, NEW n
    PROVE  /\ NewHello(n).kind = "hello" /\ NewHello(n).c = n
           /\ SealedWith(k).kind = "request" /\ SealedWith(k).keys = k
           /\ HelloBack(k).kind = "peerHello" /\ HelloBack(k).keys = k
           /\ OpensWith(k).kind = "response" /\ OpensWith(k).keys = k
           /\ Unauthorized.kind = "unauthorized"
  BY DEF NewHello, SealedWith, HelloBack, OpensWith, Unauthorized

LEMMA SendAgreeInit == SecureSendInit => AgreementInv
  <1> SUFFICES ASSUME SecureSendInit PROVE AnswerPins /\ AgreementModes
    BY DEF AgreementInv, AgreementModes
  <1>1. /\ phase = "handshake" /\ what = "request" /\ round = 1 /\ held = NoSession
        /\ outcome = "none" /\ outbound = {} /\ inbound = {} /\ flightVars = <<{}, {}>>
        /\ session \in {NoSession, OldKeys}
    BY DEF SecureSendInit, flightVars
  <1>2. ~seen /\ ~peerSeen
    BY DEF SecureSendInit
  <1>3. AnswerPins
    BY <1>1, <1>2 DEF AnswerPins
  <1>4. CASE session = NoSession
    BY <1>1, <1>2, <1>3, <1>4 DEF AgreementModes, Asking
  <1>5. CASE session = OldKeys /\ peerSession = OldKeys
    BY <1>1, <1>2, <1>3, <1>5 DEF AgreementModes, Kept
  <1>6. CASE session = OldKeys /\ peerSession # OldKeys
    BY <1>1, <1>2, <1>3, <1>6 DEF AgreementModes, Lost
  <1> QED
    BY <1>1, <1>4, <1>5, <1>6

(* The caller.                                                             *)
LEMMA CallerPins ==
    ASSUME SecureSendTypeInv, AnswerPins, callerStep \/ Timer
    PROVE  AnswerPins'
  BY DEF AnswerPins, callerStep, Handshake, SendTo, Write, Store, Timer, beginSend, sessionError,
     return, peerVars, flightVars

LEMMA CallerModes ==
    ASSUME SecureSendTypeInv, AgreementModes, callerStep \/ Timer
    PROVE  AgreementModes'
  <1> USE NoSessionAssumption DEF peerVars, flightVars
  <1>0. OldKeys \in Keys /\ OldKeys # NoSession
    BY DEF OldKeys, Keys
  <1>1. CASE Handshake
    <2> USE <1>1 DEF Handshake, beginSend
    <2>1. Kept => Kept'
      BY <1>0 DEF Kept
    <2>2. Asking => Asking'
      BY DEF Asking
    <2>3. ~Opened
      BY DEF Opened
    <2>4. Lost => Lost'
      BY <1>0 DEF Lost
    <2>5. Repairing => Repairing'
      BY DEF Repairing
    <2> QED
      BY <2>1, <2>2, <2>3, <2>4, <2>5 DEF AgreementModes
  <1>2. CASE SendTo
    <2> USE <1>2 DEF SendTo, sessionError, return
    <2>1. Kept => Kept'
      BY <1>0 DEF Kept
    <2>2. Asking => Asking'
      BY DEF Asking
    <2>3. Opened => Opened'
      BY DEF Opened
    <2>4. Lost => Lost' \/ Repairing'
      <3> SUFFICES ASSUME Lost PROVE Lost' \/ Repairing'
        OBVIOUS
      <3>1. CASE session = NoSession
        <4>1. /\ phase' = "handshake" /\ round' = 2
              /\ UNCHANGED <<session, peerSession, peerSeen, outbound, inbound>>
          BY <3>1 DEF Lost
        <4>2. \A m \in outbound : m.kind = "request" /\ m.keys = OldKeys
          BY KindsDiffer DEF Lost
        <4>3. \A m \in inbound : m.kind # "peerHello"
          BY KindsDiffer DEF Lost
        <4> QED
          BY <3>1, <4>1, <4>2, <4>3 DEF Lost, Repairing
      <3>2. CASE session # NoSession
        BY <3>2 DEF Lost
      <3> QED
        BY <3>1, <3>2
    <2>5. Repairing => Repairing'
      BY DEF Repairing
    <2> QED
      BY <2>1, <2>2, <2>3, <2>4, <2>5 DEF AgreementModes
  <1>3. CASE Write
    <2>0. /\ phase = "write" /\ phase' \in {"select", "returned"}
          /\ UNCHANGED <<what, round, held, peerSession, peerSeen, inbound>>
          /\ \/ what = "hello" /\ outbound' = outbound \cup {NewHello(round)} /\ session' = session
             \/ what = "request" /\ outbound' = outbound \cup {SealedWith(held)} /\ session' = held
      BY <1>3 DEF Write, return, NewHello, SealedWith, SecureSendTypeInv, SecureSendTypeOK
    <2>1. Kept => Kept'
      BY <2>0 DEF Kept
    <2>2. Asking => Asking'
      BY <2>0 DEF Asking
    <2>3. Opened => Opened'
      BY <2>0 DEF Opened
    <2>4. Lost => Lost'
      BY <2>0 DEF Lost
    <2>5. Repairing => Repairing'
      BY <2>0, KindsDiffer DEF Repairing
    <2> QED
      BY <2>1, <2>2, <2>3, <2>4, <2>5 DEF AgreementModes
  <1>4. CASE Store
    <2> USE <1>4 DEF Store, beginSend
    <2>1. ~Kept /\ ~Asking /\ ~Lost
      BY DEF Kept, Asking, Lost
    <2>2. Opened => Opened'
      BY DEF Opened
    <2>3. Repairing => Repairing'
      BY DEF Repairing
    <2> QED
      BY <2>1, <2>2, <2>3 DEF AgreementModes
  <1>5. CASE Timer
    <2> USE <1>5 DEF Timer
    <2>1. Kept => Kept'
      BY DEF Kept
    <2>2. Asking => Asking'
      BY DEF Asking
    <2>3. Opened => Opened'
      BY DEF Opened
    <2>4. Lost => Lost'
      BY DEF Lost
    <2>5. Repairing => Repairing'
      BY DEF Repairing
    <2> QED
      BY <2>1, <2>2, <2>3, <2>4, <2>5 DEF AgreementModes
  <1> QED
    BY <1>1, <1>2, <1>3, <1>4, <1>5 DEF callerStep

(* listenLoop.                                                             *)
LEMMA ReceivePins ==
    ASSUME SecureSendTypeInv, AnswerPins, receive
    PROVE  AnswerPins'
  <1>1. inbound' \subseteq inbound
    BY DEF receive, ReceivePeerHello, ReceiveRejection, ReceiveResponse, takeInbound
  <1>2. CASE ReceivePeerHello
    BY <1>1, <1>2 DEF AnswerPins, ReceivePeerHello, peerVars
  <1>3. CASE ReceiveRejection
    BY <1>1, <1>3 DEF AnswerPins, ReceiveRejection, callerVars, peerVars
  <1>4. CASE ReceiveResponse
    BY <1>1, <1>4 DEF AnswerPins, ReceiveResponse, return, peerVars
  <1> QED
    BY <1>2, <1>3, <1>4 DEF receive

LEMMA ReceiveModes ==
    ASSUME SecureSendTypeInv, AgreementModes, AnswerPins, receive
    PROVE  AgreementModes'
  <1> USE DEF peerVars
  <1>1. inbound' \subseteq inbound /\ UNCHANGED <<what, round, outbound, peerSession, peerSeen>>
    BY DEF receive, ReceivePeerHello, ReceiveRejection, ReceiveResponse, takeInbound, callerVars
  <1>2. CASE ReceivePeerHello
    <2>1. PICK m \in inbound :
            /\ m.kind = "peerHello"
            /\ \/ phase' = "store" /\ held' = m.keys /\ what = "hello" /\ m.keys.c = round
               \/ UNCHANGED <<phase, held>>
      BY <1>2 DEF ReceivePeerHello
    <2>2. UNCHANGED session
      BY <1>2 DEF ReceivePeerHello
    <2>3. ~Kept /\ ~Asking /\ ~Lost
      BY <2>1, KindsDiffer DEF Kept, Asking, Lost
    <2>4. m.keys \in Keys
      BY <2>1 DEF SecureSendTypeInv, SecureSendTypeOK, Inbound
    <2>5. Opened => Opened'
      BY <1>1, <2>1, <2>2, KindsDiffer DEF Opened
    <2>6. Repairing => Repairing'
      BY <1>1, <2>1, <2>2, <2>4, NoSessionAssumption DEF Repairing
    <2> QED
      BY <2>3, <2>5, <2>6 DEF AgreementModes
  <1>3. CASE ReceiveRejection
    <2>1. PICK m \in inbound : m.kind = "unauthorized"
      BY <1>3 DEF ReceiveRejection
    <2>2. session' \in {session, NoSession} /\ UNCHANGED <<phase, held>>
      BY <1>3 DEF ReceiveRejection, forgetSession, callerVars
    <2>3. ~Kept /\ ~Asking /\ ~Opened
      BY <2>1, KindsDiffer DEF Kept, Asking, Opened
    <2>4. Lost => Lost'
      BY <1>1, <2>1, <2>2 DEF Lost, flightVars
    <2>5. Repairing => Repairing'
      BY <1>1, <2>2 DEF Repairing
    <2> QED
      BY <2>3, <2>4, <2>5 DEF AgreementModes
  <1>4. CASE ReceiveResponse
    <2>1. PICK m \in inbound :
            /\ m.kind = "response"
            /\ session' = session \/ (session' = NoSession /\ session # m.keys)
            /\ phase' = phase \/ phase' = "returned"
            /\ held' = held
      BY <1>4 DEF ReceiveResponse, return
    <2>2. ~Asking /\ ~Lost
      BY <2>1, KindsDiffer DEF Asking, Lost
    <2>3. Kept => Kept'
      BY <1>1, <2>1, KindsDiffer DEF Kept
    <2>4. Opened => Opened'
      BY <1>1, <2>1, KindsDiffer DEF Opened
    <2>5. Repairing => Repairing'
      BY <1>1, <2>1 DEF Repairing
    <2> QED
      BY <2>2, <2>3, <2>4, <2>5 DEF AgreementModes
  <1> QED
    BY <1>2, <1>3, <1>4 DEF receive

(* The peer.                                                               *)
LEMMA PeerPins ==
    ASSUME SecureSendTypeInv, AnswerPins, AgreementModes, peerStep
    PROVE  AnswerPins'
  <1> USE DEF callerVars
  <1>1. CASE PeerHandshakes
    <2>1. PICK m \in outbound :
            /\ m.kind = "hello"
            /\ peerSession' = [c |-> m.c, s |-> keyPair]
            /\ inbound' = inbound \cup {HelloBack(peerSession')}
      BY <1>1 DEF PeerHandshakes, HelloBack
    <2>2. peerSession' # NoSession
      <3>1. m.c \in 1 .. 2 /\ keyPair \in Nat
        BY <2>1 DEF SecureSendTypeInv, SecureSendTypeOK, Outbound, keyPair, Keys
      <3> QED
        BY <2>1, <3>1, NoSessionAssumption DEF Keys
    <2>3. ASSUME peerSeen PROVE peerSession' = peerSession
      <3>1. peerSession # NoSession /\ peerSession \in Keys
        BY <2>3 DEF AnswerPins, SecureSendTypeInv, SecureSendTypeOK
      <3>2. m.c = peerSession.c
        BY <2>1, <2>3, KindsDiffer DEF AgreementModes, Kept, Asking, Opened, Lost, Repairing
      <3> QED
        BY <2>1, <3>1, <3>2 DEF keyPair, Keys
    <2> QED
      BY <1>1, <2>1, <2>2, <2>3, KindsDiffer DEF PeerHandshakes, AnswerPins
  <1>2. CASE PeerHandles
    <2>1. PICK m \in outbound :
            /\ m.kind = "request"
            /\ \/ peerSeen /\ UNCHANGED <<peerSession, peerSeen, inbound>>
               \/ /\ ~peerSeen /\ peerSession = m.keys /\ peerSeen' /\ UNCHANGED peerSession
                  /\ inbound' = inbound \cup {OpensWith(m.keys)}
               \/ /\ ~peerSeen /\ UNCHANGED peerSeen
                  /\ inbound' = inbound \cup {Unauthorized}
      BY <1>2 DEF PeerHandles, OpensWith, Unauthorized
    <2>2. m.keys # NoSession
      BY <2>1, NoSessionAssumption DEF SecureSendTypeInv, SecureSendTypeOK, Outbound
    <2>3. UNCHANGED <<callerVars, session, seen>>
      BY <1>2 DEF PeerHandles
    <2> QED
      BY <2>1, <2>2, <2>3, KindsDiffer DEF AnswerPins
  <1> QED
    BY <1>1, <1>2 DEF peerStep

LEMMA PeerModes ==
    ASSUME SecureSendTypeInv, AnswerPins, AgreementModes, peerStep
    PROVE  AgreementModes'
  <1> USE DEF callerVars
  <1>0. /\ OldKeys \in Keys /\ OldKeys # NoSession /\ OldKeys.c = 0
        /\ peerSession \in Keys \cup {NoSession}
    BY NoSessionAssumption DEF OldKeys, Keys, SecureSendTypeInv, SecureSendTypeOK
  <1>1. CASE PeerHandshakes
    <2>1. PICK m \in outbound :
            /\ m.kind = "hello"
            /\ peerSession' = [c |-> m.c, s |-> keyPair]
            /\ inbound' = inbound \cup {HelloBack(peerSession')}
      BY <1>1 DEF PeerHandshakes, HelloBack
    <2>2. UNCHANGED <<callerVars, session, peerSeen>> /\ outbound' \subseteq outbound
      BY <1>1 DEF PeerHandshakes, takeOutbound
    <2>3. m.c \in 1 .. 2 /\ peerSession' \in Keys /\ peerSession'.c = m.c
      <3>1. m.c \in 1 .. 2 /\ keyPair \in Nat
        BY <2>1 DEF SecureSendTypeInv, SecureSendTypeOK, Outbound, keyPair, Keys
      <3> QED
        BY <2>1, <3>1 DEF Keys
    <2>4. ~Kept /\ ~Lost
      BY <2>1, KindsDiffer DEF Kept, Lost
    <2>5. Asking => Opened'
      <3> SUFFICES ASSUME Asking PROVE Opened'
        OBVIOUS
      <3>1. m = NewHello(1) /\ m.c = 1 /\ phase # "handshake"
        BY <2>1, KindsDiffer DEF Asking
      <3> QED
        BY <2>1, <2>2, <2>3, <3>1 DEF Asking, Opened
    <2>6. Opened => Opened'
      <3> SUFFICES ASSUME Opened PROVE Opened'
        OBVIOUS
      <3>1. m.c = 1
        BY <2>1, KindsDiffer DEF Opened
      <3>2. peerSession' = peerSession
        BY <1>0, <2>1, <3>1, NoSessionAssumption DEF Opened, keyPair, Keys
      <3> QED
        BY <2>1, <2>2, <3>2 DEF Opened
    <2>7. Repairing => Repairing'
      <3> SUFFICES ASSUME Repairing PROVE Repairing'
        OBVIOUS
      <3>1. m.c = 2
        BY <2>1, KindsDiffer DEF Repairing
      <3>2. peerSession' # NoSession /\ peerSession' # OldKeys /\ peerSession'.c = 2
        BY <1>0, <2>3, <3>1, NoSessionAssumption
      <3> QED
        BY <2>1, <2>2, <3>2, KindsDiffer DEF Repairing
    <2> QED
      BY <2>4, <2>5, <2>6, <2>7 DEF AgreementModes
  <1>2. CASE PeerHandles
    <2>1. PICK m \in outbound :
            /\ m.kind = "request"
            /\ \/ peerSeen /\ UNCHANGED <<peerSession, peerSeen, inbound>>
               \/ /\ ~peerSeen /\ peerSession = m.keys /\ peerSeen' /\ UNCHANGED peerSession
                  /\ inbound' = inbound \cup {OpensWith(m.keys)}
               \/ /\ ~peerSeen /\ peerSession # m.keys /\ UNCHANGED peerSeen
                  /\ peerSession' = NoSession
                  /\ inbound' = inbound \cup {Unauthorized}
      BY <1>2 DEF PeerHandles, OpensWith, Unauthorized
    <2>2. UNCHANGED <<callerVars, session>> /\ outbound' \subseteq outbound
      BY <1>2 DEF PeerHandles, takeOutbound
    <2>3. m.keys \in Keys
      BY <2>1 DEF SecureSendTypeInv, SecureSendTypeOK, Outbound
    <2>4. Kept => Kept'
      BY <2>1, <2>2, KindsDiffer DEF Kept
    <2>5. ~Asking
      BY <2>1, KindsDiffer DEF Asking
    <2>6. Opened => Opened'
      BY <2>1, <2>2, KindsDiffer DEF Opened
    <2>7. Lost => Lost'
      BY <1>0, <2>1, <2>2, KindsDiffer DEF Lost, flightVars
    <2>8. Repairing => Repairing'
      <3> SUFFICES ASSUME Repairing PROVE Repairing'
        OBVIOUS
      <3>1. m.keys = OldKeys \/ m.keys.c = 2
        BY <2>1, KindsDiffer DEF Repairing
      <3>2. /\ peerSession' # OldKeys
            /\ peerSeen' => peerSession' # NoSession /\ peerSession'.c = 2
        BY <1>0, <2>1, <2>3, <3>1, NoSessionAssumption DEF Repairing
      <3>3. \A n \in inbound' : n.kind = "peerHello" => n.keys.c = 2
        BY <2>1, KindsDiffer DEF Repairing
      <3> QED
        BY <2>2, <3>2, <3>3 DEF Repairing
    <2> QED
      BY <2>4, <2>5, <2>6, <2>7, <2>8 DEF AgreementModes
  <1> QED
    BY <1>1, <1>2 DEF peerStep

(* A lost datagram is one fewer to speak of.                               *)
LEMMA LossAgrees ==
    ASSUME SecureSendTypeInv, AnswerPins, AgreementModes, LoseOne
    PROVE  AnswerPins' /\ AgreementModes'
  <1>1. outbound' \subseteq outbound /\ inbound' \subseteq inbound
    BY DEF LoseOne
  <1>2. UNCHANGED <<callerVars, session, seen, peerVars>>
    BY DEF LoseOne
  <1>3. AnswerPins'
    BY <1>1, <1>2 DEF AnswerPins, callerVars, peerVars
  <1>4. /\ Kept => Kept'
        /\ Asking => Asking'
        /\ Opened => Opened'
    BY <1>1, <1>2 DEF Kept, Asking, Opened, callerVars, peerVars
  <1>5. Lost => Lost'
    BY <1>1, <1>2 DEF Lost, callerVars, peerVars, flightVars
  <1>6. Repairing => Repairing'
    BY <1>1, <1>2 DEF Repairing, callerVars, peerVars
  <1> QED
    BY <1>3, <1>4, <1>5, <1>6 DEF AgreementModes

LEMMA SendAgreeNext ==
    ASSUME SecureSendTypeInv, AgreementInv, [SecureSendNext]_secureVars
    PROVE  AgreementInv'
  <1> SUFFICES ASSUME "expiry" \notin harm' PROVE AnswerPins' /\ AgreementModes'
    BY DEF AgreementInv, AgreementModes
  <1>1. "expiry" \notin harm
    BY DEF SecureSendNext, callerStep, Handshake, SendTo, Write, Store, Timer, receive,
       ReceivePeerHello, ReceiveRejection, ReceiveResponse, takeInbound, peerStep, PeerHandshakes,
       PeerHandles, takeOutbound, LoseOne, SessionExpires, trouble, troubleVars, secureVars
  <1>2. AnswerPins /\ AgreementModes
    BY <1>1 DEF AgreementInv, AgreementModes
  <1>3. ~SessionExpires
    BY DEF SessionExpires, trouble
  <1>4. CASE UNCHANGED secureVars
    BY <1>2, <1>4 DEF AnswerPins, AgreementModes, Kept, Asking, Opened, Lost, Repairing, secureVars,
       callerVars, peerVars, flightVars
  <1> QED
    BY <1>2, <1>3, <1>4, CallerPins, CallerModes, ReceivePins, ReceiveModes, PeerPins, PeerModes,
       LossAgrees DEF SecureSendNext

LEMMA SendAgreeInvariant == SecureSendSpec => [](SecureSendTypeInv /\ AgreementInv)
  BY SecureSendTypeInit, SecureSendTypeNext, SendAgreeInit, SendAgreeNext, PTL DEF SecureSendSpec

-----------------------------------------------------------------------------
(* Whichever kind of call the program makes.                               *)
LEMMA SendTypesInvariant == MCSpec => [](SendTypes /\ SecureSendTypeInv)
  <1>1. MCInit => SendTypes /\ SecureSendTypeInv
    BY SendTypesInit, SecureSendTypeInit DEF MCInit
  <1>2. /\ SendTypes /\ SecureSendTypeInv
        /\ [coap(ServerSendNext) \/ coaps(SecureSendNext)]_MCVars
        => (SendTypes /\ SecureSendTypeInv)'
    <2> SUFFICES ASSUME SendTypes, SecureSendTypeInv,
                        [coap(ServerSendNext) \/ coaps(SecureSendNext)]_MCVars
                 PROVE  SendTypes' /\ SecureSendTypeInv'
      OBVIOUS
    <2>1. [ServerSendNext]_serverSendVars /\ [SecureSendNext]_secureVars
      BY DEF coap, coaps, MCVars
    <2> QED
      BY <2>1, SendTypesNext, SecureSendTypeNext
  <1> QED
    BY <1>1, <1>2, PTL DEF MCSpec

(* send writes at most retries + 2 datagrams, of a coaps message's hello   *)
(* and first request two, and every variable of Server.Send and of the     *)
(* loop that serves it keeps its type (server.go:361-435).                 *)
THEOREM ServerSendTypeCorrect == MCSpec => []TypeOK
  <1>1. SendTypes /\ SecureSendTypeInv => TypeOK
    BY SendTypesSuffice DEF SecureSendTypeInv, TypeOK
  <1> QED
    BY <1>1, SendTypesInvariant, PTL

(* When Server.Send has returned a response both sides hold the session it *)
(* was sealed with, whatever was lost, repeated or late, unless a session  *)
(* expired meanwhile (server.go:361-398, 438-502; security.go:160-184).    *)
THEOREM ServerEndsInAgreement == SecureSendSpec => []EndsInAgreement
  <1>1. SecureSendTypeInv /\ AgreementInv => EndsInAgreement
    BY DEF AgreementInv, AnswerPins, EndsInAgreement
  <1> QED
    BY <1>1, SendAgreeInvariant, PTL
=============================================================================
