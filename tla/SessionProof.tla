---------------------------- MODULE SessionProof -----------------------------
(***************************************************************************)
(* The sessions of a coaps request, for any number of attempts, of         *)
(* datagrams lost or delivered twice, of sessions that expire, of          *)
(* goroutines, and with or without a private key at the server.            *)
(***************************************************************************)
EXTENDS Session, TLAPS

HelloSteps == {"renewHello", "sendHello", "storeHello"}

RequestSteps == {"renew", "open", "handler", "reply", "renewReply", "mark"}

(* What a goroutine holds: a datagram that fits its step, and a session    *)
(* where it is about to use one.                                           *)
StepOK(w) ==
    /\ wpc[w] # "free" => wmsg[w] \in Hello \cup Request
    /\ wpc[w] \in HelloSteps => wmsg[w] \in Hello
    /\ wpc[w] \in RequestSteps => wmsg[w] \in Request
    /\ wpc[w] \in HelloSteps \cup {"renew", "open", "renewReply"} => wses[w] \in Keys

TypeInv ==
    /\ SessionTypeOK
    /\ cpc = "request" => sealed \in Keys
    /\ \A w \in Worker : StepOK(w)

LEMMA Datagrams ==
    /\ \A c \in 1 .. 2 : [kind |-> "hello", c |-> c] \in Hello
    /\ \A k \in Keys : [kind |-> "request", keys |-> k] \in Request
    /\ \A c \in 1 .. 2, s \in Nat : [kind |-> "peerHello", c |-> c, s |-> s] \in PeerHello
    /\ \A k \in Keys : [kind |-> "response", keys |-> k] \in Response
  BY DEF Hello, Request, PeerHello, Response

LEMMA Kinds ==
    /\ \A m \in Hello : m.kind = "hello" /\ m.c \in 1 .. 2
    /\ \A m \in Request : m.kind = "request" /\ m.keys \in Keys
    /\ \A m \in PeerHello : m.kind = "peerHello" /\ m.c \in 1 .. 2 /\ m.s \in Nat
    /\ \A m \in Response : m.kind = "response" /\ m.keys \in Keys
    /\ Unauthorized.kind = "unauthorized"
  BY DEF Hello, Request, PeerHello, Response, Unauthorized

LEMMA SessionKeys ==
    /\ \A c \in 1 .. 2, s \in Nat : [c |-> c, s |-> s] \in Keys
    /\ \A k \in Keys : k.c \in 0 .. 2 /\ k.s \in Nat
    /\ OldKeys \in Keys
  BY DEF Keys, OldKeys

LEMMA TypeInitInv ==
    ASSUME SessionInit
    PROVE  TypeInv
  <1>1. wpc \in [Worker -> WorkerSteps]
    BY DEF SessionInit, WorkerSteps
  <1>2. csess \in Keys \cup {None} /\ ssess \in Keys \cup {None} /\ sealed \in Keys \cup {None}
    BY SessionKeys DEF SessionInit
  <1>3. wmsg \in [Worker -> Hello \cup Request \cup {None}]
    BY DEF SessionInit
  <1>4. wses \in [Worker -> Keys \cup {None}]
    BY DEF SessionInit
  <1>5. attempts \in 0 .. MaxAttempts /\ forgets \in 0 .. MaxForgets /\ FaultTypeOK
    BY SessionAssumption, NetworkAssumption DEF SessionInit, NetworkInit, FaultTypeOK
  <1>6. handled \in BOOLEAN /\ processed \in BOOLEAN /\ overlap \in BOOLEAN
    BY DEF SessionInit
  <1>7. /\ toServer \in SUBSET (Hello \cup Request)
        /\ toClient \in SUBSET (PeerHello \cup Response \cup {Unauthorized})
    BY DEF SessionInit, NetworkInit
  <1>8. /\ cpc \in {"handshake", "hello", "prepare", "request", "done", "failed"}
        /\ round \in 1 .. 2 /\ helloTry \in 1 .. 2 /\ freshKeys \in Nat
        /\ cpc # "request"
    BY DEF SessionInit
  <1>9. \A w \in Worker : StepOK(w)
    BY DEF SessionInit, StepOK, HelloSteps, RequestSteps
  <1> QED
    BY <1>1, <1>2, <1>3, <1>4, <1>5, <1>6, <1>7, <1>8, <1>9 DEF TypeInv, SessionTypeOK

(* What a delivery leaves in flight.                                       *)
LEMMA TakeFromType ==
    ASSUME NEW flight, NEW flight_, NEW m, TakeFrom(flight, flight_, m), dups \in 0 .. MaxDup
    PROVE  m \in flight /\ flight_ \subseteq flight /\ dups' \in 0 .. MaxDup
  BY NetworkAssumption DEF TakeFrom

(* The client's actions keep their hands off the server.                   *)
LEMMA ClientTypes ==
    ASSUME TypeInv, HandshakeHit \/ HandshakeMiss \/ Prepare \/ ClientTimeout
    PROVE  TypeInv'
  <1> USE DEF TypeInv, SessionTypeOK
  <1>0. \A w \in Worker : StepOK(w)'
    BY DEF HandshakeHit, HandshakeMiss, Prepare, ClientTimeout, StepOK, serverVars, workerVars
  <1>1. CASE HandshakeHit
    BY <1>0, <1>1 DEF HandshakeHit, serverVars, workerVars, handlerVars, netVars, faultVars,
       FaultTypeOK
  <1>2. CASE HandshakeMiss
    BY <1>0, <1>2, Datagrams, SessionAssumption
       DEF HandshakeMiss, serverVars, workerVars, handlerVars, faultVars, FaultTypeOK
  <1>3. CASE Prepare
    BY <1>0, <1>3, Datagrams, SessionAssumption
       DEF Prepare, sessionError, serverVars, workerVars, handlerVars, faultVars, FaultTypeOK
  <1>4. CASE ClientTimeout
    BY <1>0, <1>4, Datagrams, SessionAssumption
       DEF ClientTimeout, waiting, lastAttempt, nextAttempt, serverVars, workerVars,
           handlerVars, faultVars, FaultTypeOK
  <1> QED
    BY <1>1, <1>2, <1>3, <1>4

LEMMA ReceiveTypes ==
    ASSUME TypeInv, clientReceive
    PROVE  TypeInv'
  <1>1. /\ toClient' \subseteq toClient /\ FaultTypeOK'
        /\ UNCHANGED <<sealed, serverVars, forgets>>
    <2>1. dups \in 0 .. MaxDup /\ losses \in 0 .. MaxLosses
      BY DEF TypeInv, SessionTypeOK, FaultTypeOK
    <2>2. CASE ReceivePeerHello
      BY <2>1, <2>2, TakeFromType DEF ReceivePeerHello, FaultTypeOK
    <2>3. CASE ReceiveUnauthorized
      BY <2>1, <2>3, TakeFromType DEF ReceiveUnauthorized, FaultTypeOK
    <2>4. CASE ReceiveResponse
      BY <2>1, <2>4, TakeFromType DEF ReceiveResponse, FaultTypeOK
    <2> QED
      BY <2>2, <2>3, <2>4 DEF clientReceive
  <1>2. \A w \in Worker : StepOK(w)'
    BY <1>1 DEF TypeInv, StepOK, serverVars, workerVars
  <1>3. /\ cpc' \in {"handshake", "hello", "prepare", "request", "done", "failed"}
        /\ round' \in 1 .. 2 /\ helloTry' \in 1 .. 2 /\ attempts' \in 0 .. MaxAttempts
        /\ csess' \in Keys \cup {None}
        /\ toServer' \in SUBSET (Hello \cup Request)
        /\ cpc' = "request" => cpc = "request"
    <2>1. /\ cpc \in {"handshake", "hello", "prepare", "request", "done", "failed"}
          /\ round \in 1 .. 2 /\ helloTry \in 1 .. 2 /\ attempts \in 0 .. MaxAttempts
          /\ csess \in Keys \cup {None}
          /\ toServer \in SUBSET (Hello \cup Request)
          /\ toClient \in SUBSET (PeerHello \cup Response \cup {Unauthorized})
      BY DEF TypeInv, SessionTypeOK
    <2>2. toServer \cup helloAgain \in SUBSET (Hello \cup Request)
      BY <2>1, Datagrams DEF helloAgain, waiting
    <2>3. CASE ReceivePeerHello
      <3>1. PICK m \in toClient :
              /\ m.kind = "peerHello"
              /\ IF cpc = "hello" /\ m.c = round
                 THEN /\ csess' = [c |-> m.c, s |-> m.s]
                      /\ cpc' = "prepare"
                 ELSE UNCHANGED <<csess, cpc>>
        BY <2>3 DEF ReceivePeerHello
      <3>2. m \in PeerHello
        BY <2>1, <3>1, Kinds
      <3>3. [c |-> m.c, s |-> m.s] \in Keys
        BY <3>2, Kinds, SessionKeys
      <3> QED
        BY <2>1, <2>3, <3>1, <3>3 DEF ReceivePeerHello
    <2>4. CASE ReceiveUnauthorized
      BY <2>1, <2>2, <2>4, SessionAssumption
         DEF ReceiveUnauthorized, forgetRejected, rejected, sessionError
    <2>5. CASE ReceiveResponse
      BY <2>1, <2>2, <2>5, SessionAssumption DEF ReceiveResponse, rejected, sessionError
    <2> QED
      BY <1>1, <2>3, <2>4, <2>5 DEF clientReceive
  <1> QED
    BY <1>1, <1>2, <1>3
       DEF TypeInv, SessionTypeOK, serverVars, workerVars, handlerVars

LEMMA DeliverTypes ==
    ASSUME TypeInv, Deliver
    PROVE  TypeInv'
  <1>1. PICK w \in Worker, m \in toServer :
           /\ wpc[w] = "free"
           /\ TakeFrom(toServer, toServer', m)
           /\ wpc' = [wpc EXCEPT ![w] = "start"]
           /\ wmsg' = [wmsg EXCEPT ![w] = m]
           /\ overlap' = (overlap \/ \E v \in Worker : wpc[v] # "free")
           /\ UNCHANGED <<clientVars, ssess, freshKeys, wses, handlerVars, toClient, losses,
                          forgets>>
    BY DEF Deliver
  <1>2. /\ toServer' \subseteq toServer /\ FaultTypeOK' /\ m \in Hello \cup Request
    BY <1>1, TakeFromType DEF TypeInv, SessionTypeOK, FaultTypeOK
  <1>3. wpc' \in [Worker -> WorkerSteps] /\ wmsg' \in [Worker -> Hello \cup Request \cup {None}]
    BY <1>1, <1>2 DEF TypeInv, SessionTypeOK, WorkerSteps
  <1>4. overlap' \in BOOLEAN
    BY <1>1
  <1>5. ASSUME NEW v \in Worker
        PROVE  StepOK(v)'
    <2>1. CASE v = w
      BY <1>1, <1>2, <2>1 DEF StepOK, HelloSteps, RequestSteps, TypeInv, SessionTypeOK
    <2>2. CASE v # w
      BY <1>1, <2>2 DEF StepOK, TypeInv, SessionTypeOK
    <2> QED
      BY <2>1, <2>2
  <1> QED
    BY <1>1, <1>2, <1>3, <1>4, <1>5 DEF TypeInv, SessionTypeOK, clientVars, handlerVars

LEMMA FaultTypes ==
    ASSUME TypeInv, Forget \/ Lose
    PROVE  TypeInv'
  <1>1. CASE Forget
    <2>1. \A w \in Worker : StepOK(w)'
      BY <1>1 DEF Forget, TypeInv, StepOK, workerVars
    <2> QED
      BY <1>1, <2>1, SessionAssumption
         DEF Forget, TypeInv, SessionTypeOK, FaultTypeOK, workerVars, handlerVars, netVars,
             faultVars
  <1>2. CASE Lose
    <2>1. \A w \in Worker : StepOK(w)'
      BY <1>2 DEF Lose, TypeInv, StepOK, serverVars, workerVars
    <2>2. toServer' \subseteq toServer /\ toClient' \subseteq toClient /\ FaultTypeOK'
      BY <1>2, NetworkAssumption DEF Lose, LoseDatagram, TypeInv, SessionTypeOK, FaultTypeOK
    <2> QED
      BY <1>2, <2>1, <2>2
         DEF Lose, TypeInv, SessionTypeOK, clientVars, serverVars, workerVars, handlerVars
  <1> QED
    BY <1>1, <1>2

(* A goroutine's step is its own: it changes no other's state.             *)
LEMMA OthersStay ==
    ASSUME TypeInv, NEW w \in Worker, workerStep(w)
    PROVE  /\ UNCHANGED <<clientVars, toServer, dups, losses, overlap, forgets>>
           /\ wpc[w] # "free"
           /\ \/ goto(w, wpc'[w])
              \/ finish(w)
           /\ \A v \in Worker \ {w} : wpc'[v] = wpc[v] /\ wmsg'[v] = wmsg[v] /\ wses'[v] = wses[v]
           /\ wses' \in [Worker -> Keys \cup {None}] \/ wses'[w] \notin Keys \cup {None}
  <1> USE DEF finish, goto
  <1>1. /\ DOMAIN wpc = Worker /\ DOMAIN wmsg = Worker
        /\ wses \in [Worker -> Keys \cup {None}]
    BY DEF TypeInv, SessionTypeOK
  <1>2. UNCHANGED <<clientVars, dups, losses, overlap, forgets>>
    BY DEF workerStep, faultVars
  <1>3. CASE HelloStart(w)
    BY <1>1, <1>2, <1>3 DEF HelloStart, netVars
  <1>4. CASE RenewHello(w) \/ SendHello(w) \/ StoreHello(w)
    BY <1>1, <1>2, <1>4 DEF RenewHello, SendHello, StoreHello, netVars
  <1>5. CASE RequestStart(w)
    BY <1>1, <1>2, <1>5 DEF RequestStart, netVars
  <1>6. CASE Renew(w) \/ Open(w)
    BY <1>1, <1>2, <1>6 DEF Renew, Open, netVars
  <1>7. CASE Handle(w) \/ Reply(w)
    BY <1>1, <1>2, <1>7 DEF Handle, Reply, netVars
  <1>8. CASE RenewReply(w) \/ Mark(w)
    BY <1>1, <1>2, <1>8 DEF RenewReply, Mark, netVars
  <1> QED
    BY <1>3, <1>4, <1>5, <1>6, <1>7, <1>8 DEF workerStep

(* What a step must do at w for the types to hold afterwards.              *)
StepTypes(w) ==
    /\ wpc'[w] \in WorkerSteps
    /\ wses'[w] \in Keys \cup {None}
    /\ ssess' \in Keys \cup {None}
    /\ freshKeys' \in Nat
    /\ handled' \in BOOLEAN /\ processed' \in BOOLEAN
    /\ toClient' \in SUBSET (PeerHello \cup Response \cup {Unauthorized})
    /\ StepOK(w)'

LEMMA StepTypesSuffice ==
    ASSUME TypeInv, NEW w \in Worker, StepTypes(w), workerStep(w)
    PROVE  TypeInv'
  <1>1. /\ UNCHANGED <<clientVars, toServer, dups, losses, overlap, forgets>>
        /\ goto(w, wpc'[w]) \/ finish(w)
        /\ \A v \in Worker \ {w} : wpc'[v] = wpc[v] /\ wmsg'[v] = wmsg[v] /\ wses'[v] = wses[v]
        /\ wses' \in [Worker -> Keys \cup {None}]
    BY OthersStay DEF StepTypes
  <1>2. /\ wpc' \in [Worker -> WorkerSteps]
        /\ wmsg' \in [Worker -> Hello \cup Request \cup {None}]
    BY <1>1 DEF StepTypes, TypeInv, SessionTypeOK, goto, finish, WorkerSteps
  <1>3. ASSUME NEW v \in Worker
        PROVE  StepOK(v)'
    <2>1. CASE v = w
      BY <2>1 DEF StepTypes
    <2>2. CASE v # w
      BY <1>1, <2>2 DEF StepOK, TypeInv
    <2> QED
      BY <2>1, <2>2
  <1> QED
    BY <1>1, <1>2, <1>3 DEF StepTypes, TypeInv, SessionTypeOK, FaultTypeOK, clientVars

LEMMA WorkerTypes ==
    ASSUME TypeInv, NEW w \in Worker, workerStep(w)
    PROVE  TypeInv'
  <1> SUFFICES StepTypes(w)
    BY StepTypesSuffice
  <1>1. /\ wpc \in [Worker -> WorkerSteps]
        /\ wmsg \in [Worker -> Hello \cup Request \cup {None}]
        /\ wses \in [Worker -> Keys \cup {None}]
        /\ ssess \in Keys \cup {None}
        /\ freshKeys \in Nat
        /\ handled \in BOOLEAN /\ processed \in BOOLEAN
        /\ toClient \in SUBSET (PeerHello \cup Response \cup {Unauthorized})
        /\ StepOK(w)
    BY DEF TypeInv, SessionTypeOK
  <1>2. wmsg[w] \in Hello => \A s \in Nat : [c |-> wmsg[w].c, s |-> s] \in Keys
    BY Kinds, SessionKeys
  <1>3. wpc[w] \in HelloSteps =>
           /\ storedKeys(w) \in Keys
           /\ [kind |-> "peerHello", c |-> wmsg[w].c, s |-> wses[w].s] \in PeerHello
    BY <1>1, Kinds, SessionKeys, Datagrams DEF StepOK, storedKeys
  <1> USE DEF StepTypes, StepOK, finish, goto, send, HelloSteps, RequestSteps, WorkerSteps
  <1>4. CASE HelloStart(w)
    <2>1. wmsg[w] \in Hello
      BY <1>1, <1>4, Kinds DEF HelloStart
    <2>2. freshKeys' \in Nat
      BY <1>1, <1>4 DEF HelloStart
    <2> QED
      BY <1>1, <1>2, <1>4, <2>1, <2>2 DEF HelloStart, handlerVars, netVars
  <1>5. CASE RenewHello(w)
    BY <1>1, <1>5 DEF RenewHello, handlerVars, netVars
  <1>6. CASE SendHello(w)
    BY <1>1, <1>3, <1>6 DEF SendHello, handlerVars
  <1>7. CASE StoreHello(w)
    BY <1>1, <1>3, <1>7 DEF StoreHello, handlerVars, netVars
  <1>8. CASE RequestStart(w)
    <2>1. wmsg[w] \in Request
      BY <1>1, <1>8, Kinds DEF RequestStart
    <2> QED
      BY <1>1, <1>8, <2>1 DEF RequestStart, handlerVars
  <1>9. CASE Renew(w) \/ Open(w)
    BY <1>1, <1>9 DEF Renew, Open, handlerVars, netVars
  <1>10. CASE Handle(w)
    BY <1>1, <1>10 DEF Handle, netVars
  <1>11. CASE Reply(w)
    BY <1>1, <1>11 DEF Reply, handlerVars, netVars
  <1>12. CASE RenewReply(w)
    BY <1>1, <1>12, Datagrams DEF RenewReply, handlerVars
  <1>13. CASE Mark(w)
    BY <1>1, <1>13 DEF Mark, netVars
  <1> QED
    BY <1>4, <1>5, <1>6, <1>7, <1>8, <1>9, <1>10, <1>11, <1>12, <1>13 DEF workerStep

LEMMA TypeNextInv ==
    ASSUME TypeInv, [SessionNext]_sessionVars
    PROVE  TypeInv'
  <1>1. CASE UNCHANGED sessionVars
    <2>1. \A w \in Worker : StepOK(w)'
      BY <1>1 DEF TypeInv, StepOK, sessionVars, serverVars, workerVars
    <2> QED
      BY <1>1, <2>1 DEF TypeInv, SessionTypeOK, FaultTypeOK, sessionVars, clientVars, serverVars,
         workerVars, handlerVars, netVars, faultVars
  <1> QED
    BY <1>1, ClientTypes, ReceiveTypes, DeliverTypes, WorkerTypes, FaultTypes DEF SessionNext

LEMMA TypeInvariant == SessionSpec => []TypeInv
  BY TypeInitInv, TypeNextInv, PTL DEF SessionSpec

(* Every variable keeps its type.                                          *)
THEOREM SessionTypeCorrect == SessionSpec => []SessionTypeOK
  <1>1. TypeInv => SessionTypeOK
    BY DEF TypeInv
  <1> QED
    BY <1>1, TypeInvariant, PTL

(* The second round of Send uses what the new handshake gave it, whatever  *)
(* datagrams arrive late or twice, with any number of goroutines at the    *)
(* server (transport.go:77-90, security.go:132-139).                       *)
THEOREM RetryAlwaysUsesNewSession == SessionSpec => []RetryUsesNewSession
  <1>1. SessionInit => RetryUsesNewSession
    BY DEF SessionInit, RetryUsesNewSession
  <1>2. ASSUME TypeInv, RetryUsesNewSession, [SessionNext]_sessionVars
        PROVE  RetryUsesNewSession'
    <2> USE DEF RetryUsesNewSession
    <2>1. CASE UNCHANGED clientVars
      BY <1>2, <2>1 DEF clientVars
    <2>2. CASE HandshakeHit \/ HandshakeMiss
      BY <1>2, <2>2 DEF HandshakeHit, HandshakeMiss
    <2>3. CASE Prepare
      BY <1>2, <2>3 DEF Prepare, sessionError
    <2>4. CASE ClientTimeout
      BY <1>2, <2>4 DEF ClientTimeout
    <2>5. CASE ReceivePeerHello
      BY <1>2, <2>5 DEF ReceivePeerHello
    <2>6. CASE ReceiveUnauthorized
      BY <1>2, <2>6 DEF ReceiveUnauthorized, forgetRejected, rejected, sessionError
    <2>7. CASE ReceiveResponse
      BY <1>2, <2>7 DEF ReceiveResponse, rejected, sessionError
    <2>8. CASE Forget
      BY <1>2, <2>8 DEF Forget
    <2>9. CASE Deliver \/ (\E w \in Worker : workerStep(w)) \/ Lose
      BY <2>1, <2>9 DEF Deliver, workerStep, Lose
    <2> QED
      BY <1>2, <2>1, <2>2, <2>3, <2>4, <2>5, <2>6, <2>7, <2>8, <2>9
         DEF SessionNext, clientReceive, sessionVars
  <1> QED
    BY <1>1, <1>2, TypeInvariant, PTL DEF SessionSpec

-----------------------------------------------------------------------------
(* The session of one goroutine at a time.                                 *)

(* Datagrams that the server has not received or not finished with.        *)
underWay == toServer \cup {wmsg[w] : w \in {v \in Worker : wpc[v] # "free"}}

hellos   == {m \in underWay : m.kind = "hello"}
requests == {m \in underWay : m.kind = "request"}

peerHellos == {m \in toClient : m.kind = "peerHello"}
responses  == {m \in toClient : m.kind = "response"}

OneWorker == \A v, w \in Worker : wpc[v] # "free" /\ wpc[w] # "free" => v = w

(* What the goroutine found is still what is stored; a request that was    *)
(* answered is not opened again.                                           *)
StoredIsFound(w) ==
    /\ wpc[w] \in {"renewHello", "renew", "open", "renewReply"} => wses[w] = ssess
    /\ wpc[w] \in {"sendHello", "storeHello"} => ssess \in {None, wses[w]}
    /\ processed => wpc[w] \notin RequestSteps

(* One goroutine at a time finds what is stored.                           *)
AloneAndFound == OneWorker /\ \A w \in Worker : StoredIsFound(w)

(* T is what the server stores, or is about to store.                      *)
Holds(T) ==
    /\ (\A w \in Worker : wpc[w] \notin HelloSteps) => ssess = T
    /\ \A w \in Worker : wpc[w] \in HelloSteps => storedKeys(w) = T

(* Both sides have the same session, or the client will take the one the   *)
(* server has: no request can be rejected.                                 *)
AgreedOn(T) ==
    /\ round = 1
    /\ Unauthorized \notin toClient
    /\ \A m \in hellos : m.c = 1
    /\ \A m \in requests : m.keys = T
    /\ \A m \in peerHellos : T = [c |-> m.c, s |-> m.s] /\ m.c = 1
    /\ \A m \in responses : m.keys = T
    /\ csess = None => /\ requests = {} /\ responses = {}
                       /\ cpc \in {"handshake", "hello", "failed"}
    /\ csess # None => csess = T /\ cpc # "hello"
    /\ csess # None /\ hellos # {} => T.c = 1
    /\ cpc = "handshake" => peerHellos = {} /\ hellos = {}
    /\ cpc = "request" => sealed = T

(* The client has the session of an earlier Send, the server has none.     *)
Lost ==
    /\ round = 1
    /\ ssess = None
    /\ csess # None
    /\ cpc \notin {"hello", "done"}
    /\ hellos = {} /\ peerHellos = {} /\ responses = {}
    /\ \A w \in Worker : wpc[w] \in {"free", "start"}

(* The response to the request was sent with K, and nothing will change    *)
(* the server's session any more.                                          *)
Answered(K) ==
    /\ K \in Keys
    /\ ssess = K
    /\ processed \/ \E w \in Worker : wpc[w] = "mark"

(* The client has thrown its session away and makes a new one.             *)
Repair ==
    /\ round = 2
    /\ \A m \in hellos : m.c = 2
    /\ ssess # None => ssess.c = 2
    /\ \A m \in responses : Answered(m.keys)
    /\ cpc = "done" => Answered(csess)

Sequential ==
    /\ AloneAndFound
    /\ (\E T \in Keys \cup {None} : Holds(T) /\ AgreedOn(T)) \/ Lost \/ Repair

SequentialInv == ~overlap /\ forgets = 0 => Sequential

LEMMA UnderWayOfWorker ==
    ASSUME TypeInv, NEW w \in Worker, workerStep(w)
    PROVE  underWay' \subseteq underWay /\ hellos' \subseteq hellos /\ requests' \subseteq requests
  <1>1. /\ UNCHANGED toServer
        /\ wpc[w] # "free"
        /\ goto(w, wpc'[w]) \/ finish(w)
        /\ \A v \in Worker \ {w} : wpc'[v] = wpc[v] /\ wmsg'[v] = wmsg[v]
    BY OthersStay
  <1>2. wpc'[w] # "free" => wmsg'[w] = wmsg[w]
    BY <1>1 DEF goto, finish, TypeInv, SessionTypeOK
  <1>3. underWay' \subseteq underWay
    BY <1>1, <1>2 DEF underWay
  <1> QED
    BY <1>3 DEF hellos, requests

LEMMA WorkerAlone ==
    ASSUME TypeInv, AloneAndFound, NEW w \in Worker, workerStep(w)
    PROVE  /\ AloneAndFound'
           /\ \A v \in Worker \ {w} : wpc[v] = "free" /\ wpc'[v] = "free"
  <1>1. /\ wpc[w] # "free"
        /\ \A v \in Worker \ {w} : wpc'[v] = wpc[v] /\ wmsg'[v] = wmsg[v] /\ wses'[v] = wses[v]
    BY OthersStay
  <1>2. \A v \in Worker \ {w} : wpc[v] = "free" /\ wpc'[v] = "free"
    BY <1>1 DEF AloneAndFound, OneWorker
  <1>3. OneWorker'
    BY <1>2 DEF OneWorker
  <1>4. \A v \in Worker \ {w} : StoredIsFound(v)'
    BY <1>2 DEF StoredIsFound, RequestSteps
  <1>5. StoredIsFound(w)'
    <2> USE DEF StoredIsFound, finish, goto, RequestSteps, AloneAndFound
    <2>1. /\ wpc \in [Worker -> WorkerSteps]
          /\ wses \in [Worker -> Keys \cup {None}]
      BY DEF TypeInv, SessionTypeOK
    <2>2. CASE HelloStart(w)
      BY <2>1, <2>2 DEF HelloStart, handlerVars
    <2>3. CASE RenewHello(w) \/ SendHello(w) \/ StoreHello(w)
      BY <2>1, <2>3 DEF RenewHello, SendHello, StoreHello, handlerVars
    <2>4. CASE RequestStart(w)
      BY <2>1, <2>4 DEF RequestStart, handlerVars
    <2>5. CASE Renew(w) \/ Open(w)
      BY <2>1, <2>5 DEF Renew, Open, handlerVars
    <2>6. CASE Handle(w) \/ Reply(w)
      BY <2>1, <2>6 DEF Handle, Reply, handlerVars
    <2>7. CASE RenewReply(w) \/ Mark(w)
      BY <2>1, <2>7 DEF RenewReply, Mark, handlerVars
    <2> QED
      BY <2>2, <2>3, <2>4, <2>5, <2>6, <2>7 DEF workerStep
  <1> QED
    BY <1>2, <1>3, <1>4, <1>5 DEF AloneAndFound

(* What the server holds, when no other goroutine runs.                    *)
LEMMA HoldsAlone ==
    ASSUME NEW w \in Worker, NEW T, \A v \in Worker \ {w} : wpc[v] = "free"
    PROVE  Holds(T) <=> IF wpc[w] \in HelloSteps THEN storedKeys(w) = T ELSE ssess = T
  BY DEF Holds, HelloSteps

(* A goroutine's datagram is under way until it is done with it.           *)
LEMMA ItsDatagram ==
    ASSUME TypeInv, NEW w \in Worker, wpc[w] # "free"
    PROVE  /\ wmsg[w].kind = "hello" => wmsg[w] \in hellos /\ wmsg[w] \in Hello
           /\ wmsg[w].kind = "request" => wmsg[w] \in requests /\ wmsg[w] \in Request
           /\ wpc[w] \in HelloSteps => wmsg[w] \in hellos /\ wmsg[w] \in Hello
           /\ wpc[w] \in RequestSteps => wmsg[w] \in requests /\ wmsg[w] \in Request
  <1>1. wmsg[w] \in underWay
    BY DEF underWay
  <1>2. StepOK(w)
    BY DEF TypeInv
  <1>3. wmsg[w] \in Hello \cup Request
    BY <1>2 DEF StepOK
  <1>4. wpc[w] \in HelloSteps => wmsg[w] \in Hello
    BY <1>2 DEF StepOK
  <1>5. wpc[w] \in RequestSteps => wmsg[w] \in Request
    BY <1>2 DEF StepOK
  <1> QED
    BY <1>1, <1>3, <1>4, <1>5, Kinds DEF hellos, requests

(* AgreedOn, when the client rests and nothing but answers of T is sent.   *)
LEMMA AgreedStays ==
    ASSUME NEW T, AgreedOn(T), UNCHANGED clientVars,
           hellos' \subseteq hellos, requests' \subseteq requests,
           Unauthorized \notin toClient',
           \A m \in peerHellos' : T = [c |-> m.c, s |-> m.s] /\ m.c = 1,
           \A m \in responses' : m.keys = T,
           csess = None => responses' = {},
           cpc = "handshake" => peerHellos' = {}
    PROVE  AgreedOn(T)'
  BY DEF AgreedOn, clientVars

LEMMA AgreedHelloStart ==
    ASSUME TypeInv, AloneAndFound, NEW T \in Keys \cup {None}, Holds(T), AgreedOn(T),
           NEW w \in Worker, workerStep(w), HelloStart(w)
    PROVE  \E T_ \in Keys \cup {None} : Holds(T_)' /\ AgreedOn(T_)'
  <1>1. /\ \A v \in Worker \ {w} : wpc[v] = "free" /\ wpc'[v] = "free"
        /\ hellos' \subseteq hellos /\ requests' \subseteq requests
        /\ UNCHANGED clientVars
    BY WorkerAlone, UnderWayOfWorker, OthersStay
  <1>2. /\ wpc[w] = "start" /\ wmsg[w].kind = "hello" /\ UNCHANGED <<ssess, toClient>>
        /\ wpc'[w] \in {"renewHello", "sendHello"}
        /\ UNCHANGED wmsg
        /\ \/ ssess # None /\ wses'[w] = ssess
           \/ ssess = None /\ wses'[w] = [c |-> wmsg[w].c, s |-> freshKeys'] /\ freshKeys' \in Nat
    BY DEF HelloStart, goto, TypeInv, SessionTypeOK, netVars
  <1>3. wmsg[w] \in hellos /\ wmsg[w].c = 1
    BY <1>2, ItsDatagram DEF AgreedOn
  <1>4. ssess = T
    BY <1>1, <1>2 DEF Holds, HelloSteps
  <1>5. wses'[w].s \in Nat /\ storedKeys(w)' = [c |-> 1, s |-> wses'[w].s]
    BY <1>2, <1>3, SessionKeys DEF storedKeys, TypeInv, SessionTypeOK
  <1>6. PICK T_ \in Keys : T_ = [c |-> 1, s |-> wses'[w].s]
    BY <1>5, SessionKeys
  <1>7. Holds(T_)'
    BY <1>1, <1>2, <1>5, <1>6 DEF Holds, HelloSteps
  <1>8. AgreedOn(T_)'
    <2>1. CASE T = T_
      BY <1>1, <1>2, <2>1, AgreedStays DEF AgreedOn, peerHellos, responses
    <2>2. CASE T # T_
      <3>1. csess = None
        <4> SUFFICES ASSUME csess # None PROVE FALSE
          OBVIOUS
        <4>1. ssess \in Keys /\ ssess.c = 1 /\ ssess = csess
          BY <1>3, <1>4 DEF AgreedOn, TypeInv, SessionTypeOK
        <4>2. wses'[w] = ssess
          BY <1>2, <4>1, NoneAssumption
        <4> QED
          BY <1>4, <1>6, <2>2, <4>1, <4>2 DEF Keys
      <3>2. peerHellos = {}
        <4> SUFFICES ASSUME NEW m \in peerHellos PROVE FALSE
          OBVIOUS
        <4>1. T = [c |-> m.c, s |-> m.s] /\ m.c = 1 /\ m \in PeerHello
          BY Kinds DEF AgreedOn, peerHellos, TypeInv, SessionTypeOK
        <4>2. T = [c |-> 1, s |-> T.s] /\ T \in Keys
          BY <4>1, Kinds, SessionKeys
        <4>3. wses'[w] = T
          BY <1>2, <1>4, <4>2, NoneAssumption
        <4> QED
          BY <1>6, <2>2, <4>2, <4>3
      <3> QED
        BY <1>1, <1>2, <3>1, <3>2 DEF AgreedOn, clientVars, peerHellos, responses
    <2> QED
      BY <2>1, <2>2
  <1> QED
    BY <1>6, <1>7, <1>8

LEMMA AgreedWorker ==
    ASSUME TypeInv, AloneAndFound, NEW T \in Keys \cup {None}, Holds(T), AgreedOn(T),
           NEW w \in Worker, workerStep(w), ~HelloStart(w)
    PROVE  Holds(T)' /\ AgreedOn(T)'
  <1>1. /\ \A v \in Worker \ {w} : wpc[v] = "free" /\ wpc'[v] = "free"
        /\ hellos' \subseteq hellos /\ requests' \subseteq requests
        /\ UNCHANGED clientVars
        /\ StoredIsFound(w)
    BY WorkerAlone, UnderWayOfWorker, OthersStay DEF AloneAndFound
  <1>2. /\ wpc \in [Worker -> WorkerSteps] /\ wmsg \in [Worker -> Hello \cup Request \cup {None}]
        /\ wses \in [Worker -> Keys \cup {None}] /\ ssess \in Keys \cup {None}
    BY DEF TypeInv, SessionTypeOK
  <1>3. wpc[w] \in HelloSteps => storedKeys(w) = T
    BY DEF Holds
  <1>4. wpc[w] \notin HelloSteps => ssess = T
    BY <1>1 DEF Holds, HelloSteps
  (* No request can be rejected. *)
  <1>5. wmsg[w] \in requests => wmsg[w].keys = T /\ T # None /\ csess # None
    BY Kinds, NoneAssumption DEF AgreedOn
  <1>6. CASE UNCHANGED <<ssess, toClient>> /\ wpc[w] \notin HelloSteps /\ wpc'[w] \notin HelloSteps
    <2>1. Holds(T)'
      BY <1>1, <1>4, <1>6 DEF Holds, HelloSteps
    <2>2. AgreedOn(T)'
      BY <1>1, <1>6, AgreedStays DEF AgreedOn, peerHellos, responses
    <2> QED
      BY <2>1, <2>2
  <1> USE DEF finish, goto
  <1>7. CASE RenewHello(w)
    <2>1. UNCHANGED <<ssess, toClient>> /\ storedKeys(w)' = storedKeys(w) /\ wpc'[w] \in HelloSteps
          /\ wpc[w] \in HelloSteps
      BY <1>1, <1>2, <1>7 DEF RenewHello, netVars, StoredIsFound, storedKeys, HelloSteps
    <2>2. Holds(T)'
      BY <1>1, <1>3, <2>1 DEF Holds, HelloSteps
    <2>3. AgreedOn(T)'
      BY <1>1, <2>1, AgreedStays DEF AgreedOn, peerHellos, responses
    <2> QED
      BY <2>2, <2>3
  <1>8. CASE SendHello(w)
    <2> DEFINE h == [kind |-> "peerHello", c |-> wmsg[w].c, s |-> wses[w].s]
    <2>1. /\ UNCHANGED ssess /\ storedKeys(w)' = storedKeys(w) /\ wpc'[w] \in HelloSteps
          /\ wpc[w] \in HelloSteps /\ toClient' = toClient \cup {h}
      BY <1>1, <1>2, <1>8 DEF SendHello, send, storedKeys, HelloSteps
    <2>2. wmsg[w] \in hellos /\ wmsg[w].c = 1
      BY <2>1, ItsDatagram DEF HelloSteps, AgreedOn
    <2>3. T = [c |-> h.c, s |-> h.s] /\ h.c = 1
      BY <1>3, <2>1, <2>2 DEF storedKeys
    <2>4. cpc # "handshake"
      BY <2>2 DEF AgreedOn
    <2>5. /\ peerHellos' = peerHellos \cup {h} /\ responses' = responses
          /\ Unauthorized \notin toClient'
      BY <2>1 DEF peerHellos, responses, AgreedOn, Unauthorized
    <2> HIDE DEF h
    <2>6. Holds(T)'
      BY <1>1, <1>3, <2>1 DEF Holds, HelloSteps
    <2>7. \A m \in peerHellos' : T = [c |-> m.c, s |-> m.s] /\ m.c = 1
      BY <2>3, <2>5 DEF AgreedOn
    <2>8. /\ \A m \in responses' : m.keys = T
          /\ csess = None => responses' = {}
      BY <2>5 DEF AgreedOn
    <2>9. AgreedOn(T)'
      BY <1>1, <2>4, <2>5, <2>7, <2>8, AgreedStays
    <2> QED
      BY <2>6, <2>9
  <1>9. CASE StoreHello(w)
    <2>1. ssess' = T /\ UNCHANGED toClient /\ wpc'[w] = "free"
      BY <1>2, <1>3, <1>9 DEF StoreHello, netVars, HelloSteps
    <2>2. Holds(T)'
      BY <1>1, <2>1 DEF Holds, HelloSteps
    <2>3. AgreedOn(T)'
      BY <1>1, <2>1, AgreedStays DEF AgreedOn, peerHellos, responses
    <2> QED
      BY <2>2, <2>3
  <1>10. CASE RequestStart(w)
    <2>1. ssess # None
      BY <1>4, <1>5, <1>10, ItsDatagram DEF RequestStart, HelloSteps
    <2> QED
      BY <1>2, <1>6, <1>10, <2>1 DEF RequestStart, HelloSteps
  <1>11. CASE Renew(w)
    BY <1>1, <1>2, <1>6, <1>11 DEF Renew, StoredIsFound, netVars, HelloSteps
  <1>12. CASE Open(w)
    <2>1. wses[w] = wmsg[w].keys
      BY <1>1, <1>4, <1>5, <1>12, ItsDatagram DEF Open, StoredIsFound, HelloSteps, RequestSteps
    <2> QED
      BY <1>2, <1>6, <1>12, <2>1 DEF Open, HelloSteps
  <1>13. CASE Handle(w) \/ Reply(w) \/ Mark(w)
    BY <1>2, <1>6, <1>13 DEF Handle, Reply, Mark, netVars, HelloSteps
  <1>14. CASE RenewReply(w)
    <2> DEFINE a == [kind |-> "response", keys |-> wses[w]]
    <2>1. wses[w] = ssess /\ ssess = T /\ wmsg[w] \in requests
      BY <1>1, <1>4, <1>14, ItsDatagram DEF RenewReply, StoredIsFound, HelloSteps, RequestSteps
    <2>2. ssess' = T /\ toClient' = toClient \cup {a} /\ wpc'[w] = "mark" /\ a.keys = T
      BY <1>2, <1>14, <2>1 DEF RenewReply, send
    <2>3. /\ peerHellos' = peerHellos /\ responses' = responses \cup {a}
          /\ Unauthorized \notin toClient'
      BY <2>2 DEF peerHellos, responses, AgreedOn, Unauthorized
    <2> HIDE DEF a
    <2>4. Holds(T)'
      BY <1>1, <2>2 DEF Holds, HelloSteps
    <2>5. AgreedOn(T)'
      BY <1>1, <1>5, <2>1, <2>2, <2>3, AgreedStays DEF AgreedOn
    <2> QED
      BY <2>4, <2>5
  <1> QED
    BY <1>7, <1>8, <1>9, <1>10, <1>11, <1>12, <1>13, <1>14 DEF workerStep

LEMMA LostWorker ==
    ASSUME TypeInv, AloneAndFound, Lost, NEW w \in Worker, workerStep(w)
    PROVE  Lost'
  <1>1. /\ \A v \in Worker \ {w} : wpc'[v] = "free"
        /\ hellos' \subseteq hellos
        /\ UNCHANGED clientVars
        /\ wpc[w] # "free"
    BY WorkerAlone, UnderWayOfWorker, OthersStay
  <1>2. wpc[w] = "start"
    BY <1>1 DEF Lost
  <1>3. wmsg[w].kind # "hello"
    BY <1>1, ItsDatagram DEF Lost
  <1>4. RequestStart(w)
    BY <1>2, <1>3 DEF workerStep, HelloStart, RenewHello, SendHello, StoreHello, Renew, Open,
       Handle, Reply, RenewReply, Mark
  <1>5. wpc'[w] = "free" /\ UNCHANGED ssess /\ toClient' \subseteq toClient \cup {Unauthorized}
    BY <1>4 DEF Lost, RequestStart, finish, send, TypeInv, SessionTypeOK
  <1>6. peerHellos' = {} /\ responses' = {}
    BY <1>5 DEF Lost, peerHellos, responses, Unauthorized
  <1> QED
    BY <1>1, <1>5, <1>6 DEF Lost, clientVars

LEMMA RepairWorker ==
    ASSUME TypeInv, AloneAndFound, Repair, NEW w \in Worker, workerStep(w)
    PROVE  Repair'
  <1>1. /\ \A v \in Worker \ {w} : wpc[v] = "free" /\ wpc'[v] = "free"
        /\ hellos' \subseteq hellos
        /\ UNCHANGED clientVars
        /\ wpc[w] # "free"
        /\ StoredIsFound(w)
    BY WorkerAlone, UnderWayOfWorker, OthersStay DEF AloneAndFound
  <1>2. /\ wpc \in [Worker -> WorkerSteps] /\ wmsg \in [Worker -> Hello \cup Request \cup {None}]
        /\ wses \in [Worker -> Keys \cup {None}] /\ ssess \in Keys \cup {None}
        /\ wpc[w] \in HelloSteps => wses[w] \in Keys
        /\ wpc[w] = "renewReply" => wses[w] \in Keys
    BY DEF TypeInv, SessionTypeOK, StepOK
  <1> SUFFICES /\ ssess' # None => ssess'.c = 2
               /\ \A m \in responses' : Answered(m.keys)'
               /\ \A K : Answered(K) => Answered(K)'
    BY <1>1 DEF Repair, clientVars
  <1> USE DEF finish, goto
  <1>3. CASE UNCHANGED ssess /\ responses' = responses
             /\ (processed \/ wpc[w] = "mark" => processed' \/ wpc'[w] = "mark")
    BY <1>1, <1>3 DEF Repair, Answered
  <1>4. CASE HelloStart(w) \/ RenewHello(w)
    BY <1>1, <1>2, <1>3, <1>4
       DEF HelloStart, RenewHello, netVars, handlerVars, StoredIsFound, responses
  <1>5. CASE SendHello(w)
    BY <1>1, <1>2, <1>3, <1>5 DEF SendHello, send, handlerVars, responses
  <1>6. CASE StoreHello(w)
    <2>1. wmsg[w] \in hellos /\ wmsg[w].c = 2 /\ wses[w] \in Keys
      BY <1>1, <1>2, <1>6, ItsDatagram DEF StoreHello, Repair, HelloSteps
    <2>2. ssess' = [c |-> 2, s |-> wses[w].s] /\ ssess \in {None, wses[w]}
      BY <1>1, <1>6, <2>1 DEF StoreHello, storedKeys, StoredIsFound
    <2>3. ssess # None => ssess' = ssess
      BY <2>1, <2>2 DEF Repair, Keys
    <2>4. \A K : Answered(K) => Answered(K)'
      BY <1>1, <1>6, <2>3, NoneAssumption DEF Answered, StoreHello, handlerVars
    <2>5. responses' = responses
      BY <1>6 DEF StoreHello, netVars, responses
    <2> QED
      BY <2>2, <2>4, <2>5 DEF Repair
  <1>7. CASE RequestStart(w)
    BY <1>1, <1>2, <1>3, <1>7
       DEF RequestStart, send, handlerVars, responses, Unauthorized
  <1>8. CASE Renew(w)
    BY <1>1, <1>2, <1>3, <1>8 DEF Renew, StoredIsFound, netVars, handlerVars, responses
  <1>9. CASE Open(w)
    <2>1. \A K : ~Answered(K)
      BY <1>1, <1>9 DEF Open, StoredIsFound, RequestSteps, Answered
    <2>2. responses' = responses /\ (ssess' = None \/ ssess' = ssess)
      BY <1>9 DEF Open, send, responses, Unauthorized
    <2> QED
      BY <2>1, <2>2 DEF Repair
  <1>10. CASE Handle(w) \/ Reply(w) \/ Mark(w)
    BY <1>1, <1>2, <1>3, <1>10 DEF Handle, Reply, Mark, netVars, handlerVars, responses
  <1>11. CASE RenewReply(w)
    <2> DEFINE a == [kind |-> "response", keys |-> wses[w]]
    <2>1. \A K : ~Answered(K)
      BY <1>1, <1>11 DEF RenewReply, StoredIsFound, RequestSteps, Answered
    <2>2. responses = {}
      BY <2>1 DEF Repair
    <2>3. /\ ssess' = ssess /\ wses[w] = ssess /\ ssess \in Keys /\ wpc'[w] = "mark"
          /\ toClient' = toClient \cup {a} /\ a.keys = ssess
      BY <1>1, <1>2, <1>11 DEF RenewReply, StoredIsFound, send
    <2> HIDE DEF a
    <2>4. responses' \subseteq {a}
      BY <2>2, <2>3 DEF responses
    <2>5. \A K : K = ssess => Answered(K)'
      BY <2>3 DEF Answered
    <2> QED
      BY <2>1, <2>3, <2>4, <2>5 DEF Repair
  <1> QED
    BY <1>4, <1>5, <1>6, <1>7, <1>8, <1>9, <1>10, <1>11 DEF workerStep

(* What the client sends is under way.                                     *)
LEMMA UnderWayOfClient ==
    ASSUME UNCHANGED serverVars, NEW m, toServer' = toServer \cup {m}
    PROVE  /\ hellos' = IF m.kind = "hello" THEN hellos \cup {m} ELSE hellos
           /\ requests' = IF m.kind = "request" THEN requests \cup {m} ELSE requests
  <1>1. underWay' = underWay \cup {m}
    BY DEF underWay, serverVars, workerVars
  <1> QED
    BY <1>1 DEF hellos, requests

(* The client's actions leave what the server found.                       *)
LEMMA ClientAlone ==
    ASSUME AloneAndFound, UNCHANGED serverVars
    PROVE  AloneAndFound' /\ \A T : Holds(T) => Holds(T)'
  BY DEF AloneAndFound, OneWorker, StoredIsFound, Holds, storedKeys, serverVars, workerVars,
         handlerVars

clientStep == HandshakeHit \/ HandshakeMiss \/ Prepare \/ ClientTimeout \/ clientReceive

LEMMA AgreedClient ==
    ASSUME TypeInv, NEW T \in Keys \cup {None}, AgreedOn(T), clientStep
    PROVE  AgreedOn(T)'
  <1> USE DEF AgreedOn
  <1>1. /\ round = 1
        /\ csess # None => T # None
        /\ \A k : [kind |-> "request", keys |-> k].kind # "hello"
    OBVIOUS
  <1>2. CASE HandshakeHit
    BY <1>2 DEF HandshakeHit, serverVars, workerVars, netVars, underWay, hellos, requests,
       peerHellos, responses
  <1>3. CASE HandshakeMiss
    <2> DEFINE h == [kind |-> "hello", c |-> 1]
    <2>1. h.kind = "hello" /\ h.c = 1
      OBVIOUS
    <2>2. toServer' = toServer \cup {h} /\ UNCHANGED serverVars
      BY <1>1, <1>3 DEF HandshakeMiss
    <2> HIDE DEF h
    <2>3. hellos' = hellos \cup {h} /\ requests' = requests
      BY <2>1, <2>2, UnderWayOfClient
    <2> QED
      BY <1>1, <1>3, <2>1, <2>3 DEF HandshakeMiss, peerHellos, responses
  <1>4. CASE Prepare
    <2> DEFINE q == [kind |-> "request", keys |-> T]
    <2>1. /\ csess # None /\ csess = T /\ sealed' = T /\ cpc' = "request"
          /\ toServer' = toServer \cup {q}
          /\ UNCHANGED <<round, csess, toClient, serverVars>>
      BY <1>4 DEF Prepare
    <2>2. q.kind = "request" /\ q.keys = T
      OBVIOUS
    <2> HIDE DEF q
    <2>3. hellos' = hellos /\ requests' = requests \cup {q}
      BY <2>1, <2>2, UnderWayOfClient
    <2> QED
      BY <2>1, <2>2, <2>3 DEF peerHellos, responses
  <1>5. CASE ClientTimeout
    <2>1. /\ UNCHANGED <<round, csess, sealed, toClient, serverVars>>
          /\ cpc \in {"hello", "request"} /\ cpc' \in {cpc, "failed"}
          /\ toServer' = toServer \/ toServer' = toServer \cup {waiting}
      BY <1>5 DEF ClientTimeout
    <2>2. CASE toServer' = toServer
      <3>1. hellos' = hellos /\ requests' = requests
        BY <2>1, <2>2 DEF serverVars, workerVars, underWay, hellos, requests
      <3> QED
        BY <2>1, <3>1 DEF peerHellos, responses
    <2>3. CASE toServer' = toServer \cup {waiting} /\ cpc = "hello"
      <3>1. waiting = [kind |-> "hello", c |-> 1]
        BY <2>3 DEF waiting
      <3>2. hellos' = hellos \cup {waiting} /\ requests' = requests
        BY <2>1, <2>3, <3>1, UnderWayOfClient
      <3> QED
        BY <2>1, <2>3, <3>1, <3>2 DEF peerHellos, responses
    <2>4. CASE toServer' = toServer \cup {waiting} /\ cpc = "request"
      <3>1. waiting = [kind |-> "request", keys |-> T] /\ csess # None
        BY <2>4 DEF waiting
      <3>2. hellos' = hellos /\ requests' = requests \cup {waiting}
        BY <2>1, <2>4, <3>1, UnderWayOfClient
      <3> QED
        BY <2>1, <2>4, <3>1, <3>2 DEF peerHellos, responses
    <2> QED
      BY <2>1, <2>2, <2>3, <2>4
  <1>6. CASE ReceivePeerHello
    <2>1. PICK m \in peerHellos :
            /\ toClient' \subseteq toClient
            /\ IF cpc = "hello" /\ m.c = round
               THEN /\ csess' = [c |-> m.c, s |-> m.s]
                    /\ cpc' = "prepare"
               ELSE UNCHANGED <<csess, cpc>>
      BY <1>6 DEF ReceivePeerHello, TakeFrom, peerHellos
    <2>2. /\ UNCHANGED <<round, sealed>> /\ hellos' = hellos /\ requests' = requests
          /\ peerHellos' \subseteq peerHellos /\ responses' \subseteq responses
          /\ Unauthorized \notin toClient'
      BY <1>6, <2>1 DEF ReceivePeerHello, serverVars, workerVars, underWay, hellos, requests,
         peerHellos, responses
    <2>3. T = [c |-> m.c, s |-> m.s] /\ m.c = 1 /\ T # None
      <3>1. m \in PeerHello
        BY Kinds DEF peerHellos, TypeInv, SessionTypeOK
      <3>2. [c |-> m.c, s |-> m.s] \in Keys
        BY <3>1, Kinds, SessionKeys
      <3> QED
        BY <3>2, NoneAssumption
    <2>4. CASE cpc = "hello" /\ m.c = round
      <3>1. csess' = T /\ csess' # None /\ cpc' = "prepare" /\ T.c = 1
        BY <2>1, <2>3, <2>4
      <3> QED
        BY <2>2, <3>1
    <2>5. CASE ~(cpc = "hello" /\ m.c = round)
      BY <2>1, <2>2, <2>5
    <2> QED
      BY <2>4, <2>5
  <1>7. ~ReceiveUnauthorized
    BY DEF ReceiveUnauthorized, TakeFrom
  <1>8. CASE ReceiveResponse
    <2>1. PICK m \in responses :
            /\ toClient' \subseteq toClient
            /\ \/ /\ csess = m.keys
                  /\ cpc' = IF cpc = "request" THEN "done" ELSE cpc
                  /\ UNCHANGED <<csess, round, helloTry, attempts, toServer>>
               \/ csess # m.keys
      BY <1>8 DEF ReceiveResponse, TakeFrom, responses
    <2>2. csess # None /\ csess = m.keys
      OBVIOUS
    <2>3. /\ UNCHANGED <<round, sealed, csess>> /\ hellos' = hellos /\ requests' = requests
          /\ peerHellos' \subseteq peerHellos /\ responses' \subseteq responses
          /\ Unauthorized \notin toClient'
      BY <1>8, <2>1, <2>2 DEF ReceiveResponse, serverVars, workerVars, underWay, hellos,
         requests, peerHellos, responses
    <2> QED
      BY <2>1, <2>2, <2>3
  <1> QED
    BY <1>2, <1>3, <1>4, <1>5, <1>6, <1>7, <1>8 DEF clientStep, clientReceive

LEMMA LostClient ==
    ASSUME TypeInv, Lost, clientStep
    PROVE  Lost' \/ Repair'
  <1> USE DEF Lost
  <1>1. UNCHANGED serverVars
    BY DEF clientStep, clientReceive, HandshakeHit, HandshakeMiss, Prepare, ClientTimeout,
       ReceivePeerHello, ReceiveUnauthorized, ReceiveResponse
  <1>2. ASSUME toServer' = toServer \/ \E m : m.kind = "request" /\ toServer' = toServer \cup {m}
        PROVE  hellos' = {}
    <2>1. CASE toServer' = toServer
      BY <1>1, <2>1 DEF serverVars, workerVars, underWay, hellos
    <2>2. ASSUME NEW m, m.kind = "request", toServer' = toServer \cup {m}
          PROVE  hellos' = {}
      BY <1>1, <2>2, UnderWayOfClient
    <2> QED
      BY <1>2, <2>1, <2>2
  <1>3. /\ UNCHANGED ssess
        /\ \A w \in Worker : wpc'[w] \in {"free", "start"}
    BY <1>1 DEF serverVars, workerVars
  <1>4. \A k : [kind |-> "request", keys |-> k].kind = "request"
    OBVIOUS
  <1>5. CASE HandshakeHit
    BY <1>2, <1>3, <1>5 DEF HandshakeHit, netVars, peerHellos, responses
  <1>6. ~HandshakeMiss
    BY DEF HandshakeMiss
  <1>7. CASE Prepare
    <2>1. hellos' = {}
      BY <1>2, <1>4, <1>7 DEF Prepare
    <2> QED
      BY <1>3, <1>7, <2>1 DEF Prepare, peerHellos, responses
  <1>8. CASE ClientTimeout
    <2>1. waiting.kind = "request"
      BY <1>8 DEF ClientTimeout, waiting
    <2>2. hellos' = {}
      BY <1>2, <1>8, <2>1 DEF ClientTimeout
    <2> QED
      BY <1>3, <1>8, <2>2 DEF ClientTimeout, peerHellos, responses
  <1>9. ~ReceivePeerHello /\ ~ReceiveResponse
    BY DEF ReceivePeerHello, ReceiveResponse, TakeFrom, peerHellos, responses
  <1>10. CASE ReceiveUnauthorized
    <2>1. /\ cpc = "request" /\ round' = 2 /\ cpc' = "handshake"
          /\ toClient' \subseteq toClient
      BY <1>10 DEF ReceiveUnauthorized, rejected, sessionError, TakeFrom
    <2>2. toServer' = toServer
      BY <1>10, <2>1 DEF ReceiveUnauthorized, helloAgain
    <2>3. hellos' = {} /\ responses' = {}
      BY <1>2, <2>1, <2>2 DEF responses
    <2> QED
      BY <1>3, <2>1, <2>3 DEF Repair
  <1> QED
    BY <1>5, <1>6, <1>7, <1>8, <1>9, <1>10 DEF clientStep, clientReceive

LEMMA RepairClient ==
    ASSUME TypeInv, Repair, clientStep
    PROVE  Repair'
  <1> USE DEF Repair
  <1>1. UNCHANGED serverVars
    BY DEF clientStep, clientReceive, HandshakeHit, HandshakeMiss, Prepare, ClientTimeout,
       ReceivePeerHello, ReceiveUnauthorized, ReceiveResponse
  <1>2. /\ UNCHANGED ssess
        /\ \A K : Answered(K) => Answered(K)'
    BY <1>1 DEF serverVars, workerVars, handlerVars, Answered
  <1>3. waiting.kind = "hello" => waiting.c = 2
    BY DEF waiting
  <1>4. \A k : [kind |-> "request", keys |-> k].kind = "request"
    OBVIOUS
  <1>5. /\ toServer' = toServer
           \/ \E m : toServer' = toServer \cup {m} /\ (m.kind = "hello" => m.c = 2)
        /\ round' = 2
    <2>1. CASE HandshakeHit \/ HandshakeMiss \/ Prepare
      BY <1>4, <2>1 DEF HandshakeHit, HandshakeMiss, Prepare, sessionError, netVars
    <2>2. CASE ClientTimeout
      BY <1>3, <2>2 DEF ClientTimeout
    <2>3. CASE ReceivePeerHello
      BY <2>3 DEF ReceivePeerHello
    <2>4. CASE ReceiveUnauthorized
      BY <1>3, <2>4 DEF ReceiveUnauthorized, rejected, sessionError, helloAgain
    <2>5. CASE ReceiveResponse
      BY <1>3, <2>5 DEF ReceiveResponse, rejected, sessionError, helloAgain
    <2> QED
      BY <2>1, <2>2, <2>3, <2>4, <2>5 DEF clientStep, clientReceive
  <1>6. \A m \in hellos' : m.c = 2
    <2>1. CASE toServer' = toServer
      BY <1>1, <2>1 DEF serverVars, workerVars, underWay, hellos
    <2>2. ASSUME NEW m, toServer' = toServer \cup {m}, m.kind = "hello" => m.c = 2
          PROVE  \A h \in hellos' : h.c = 2
      BY <1>1, <2>2, UnderWayOfClient
    <2> QED
      BY <1>5, <2>1, <2>2
  <1>7. responses' \subseteq responses /\ (cpc' = "done" => Answered(csess'))
    <2>1. CASE HandshakeHit \/ HandshakeMiss \/ Prepare \/ ClientTimeout
      BY <2>1 DEF HandshakeHit, HandshakeMiss, Prepare, sessionError, ClientTimeout, netVars,
         responses
    <2>2. CASE ReceivePeerHello \/ ReceiveUnauthorized
      BY <2>2 DEF ReceivePeerHello, ReceiveUnauthorized, rejected, sessionError, TakeFrom,
         responses
    <2>3. CASE ReceiveResponse
      BY <2>3 DEF ReceiveResponse, rejected, sessionError, TakeFrom, responses
    <2> QED
      BY <2>1, <2>2, <2>3 DEF clientStep, clientReceive
  <1>8. cpc' = "done" => Answered(csess)'
    BY <1>1, <1>7 DEF serverVars, workerVars, handlerVars, Answered
  <1> QED
    BY <1>2, <1>5, <1>6, <1>7, <1>8

-----------------------------------------------------------------------------
(* The network.                                                            *)

(* A delivery to the server, or a loss, moves what was under way or drops  *)
(* it.                                                                     *)
Moves ==
    /\ UNCHANGED <<clientVars, ssess, wses, handlerVars>>
    /\ underWay' \subseteq underWay /\ toClient' \subseteq toClient
    /\ \A w \in Worker :
          \/ wpc'[w] = wpc[w] /\ wmsg'[w] = wmsg[w]
          \/ wpc[w] = "free" /\ wpc'[w] = "start"

LEMMA MovesKeep ==
    ASSUME Moves
    PROVE  /\ (\A w \in Worker : StoredIsFound(w)) => \A w \in Worker : StoredIsFound(w)'
           /\ \A T : Holds(T) /\ AgreedOn(T) => Holds(T)' /\ AgreedOn(T)'
           /\ Lost => Lost'
           /\ Repair => Repair'
  <1>1. /\ hellos' \subseteq hellos /\ requests' \subseteq requests
        /\ peerHellos' \subseteq peerHellos /\ responses' \subseteq responses
        /\ Unauthorized \notin toClient => Unauthorized \notin toClient'
    BY DEF Moves, hellos, requests, peerHellos, responses
  <1>2. /\ UNCHANGED <<clientVars, ssess, handlerVars>>
        /\ \A w \in Worker : wses'[w] = wses[w]
    BY DEF Moves
  <1>3. (\A w \in Worker : StoredIsFound(w)) => \A w \in Worker : StoredIsFound(w)'
    BY <1>2 DEF Moves, StoredIsFound, handlerVars, RequestSteps
  <1>4. \A T : Holds(T) => Holds(T)'
    BY <1>2 DEF Moves, Holds, HelloSteps, storedKeys
  <1>5. \A T : AgreedOn(T) => AgreedOn(T)'
    BY <1>1, <1>2 DEF AgreedOn, clientVars
  <1>6. Lost => Lost'
    BY <1>1, <1>2 DEF Moves, Lost, clientVars
  <1>7. \A K : Answered(K) => Answered(K)'
    BY <1>2 DEF Moves, Answered, handlerVars
  <1>8. (Repair /\ cpc = "done" => Answered(csess)) => (Repair /\ cpc = "done" => Answered(csess)')
    BY <1>2, <1>7 DEF Answered, clientVars, handlerVars, Moves
  <1>9. Repair => Repair'
    BY <1>1, <1>2, <1>7, <1>8 DEF Repair, clientVars
  <1> QED
    BY <1>3, <1>4, <1>5, <1>6, <1>9

LEMMA DeliverSequential ==
    ASSUME TypeInv, Sequential, Deliver, ~overlap'
    PROVE  Sequential'
  <1>1. PICK w \in Worker, m \in toServer :
           /\ wpc[w] = "free"
           /\ TakeFrom(toServer, toServer', m)
           /\ wpc' = [wpc EXCEPT ![w] = "start"]
           /\ wmsg' = [wmsg EXCEPT ![w] = m]
           /\ overlap' = (overlap \/ \E v \in Worker : wpc[v] # "free")
           /\ UNCHANGED <<clientVars, ssess, freshKeys, wses, handlerVars, toClient, losses,
                          forgets>>
    BY DEF Deliver
  <1>2. \A v \in Worker : wpc[v] = "free"
    BY <1>1
  <1>3. /\ wpc'[w] = "start" /\ wmsg'[w] = m
        /\ \A v \in Worker \ {w} : wpc'[v] = "free" /\ wmsg'[v] = wmsg[v]
    BY <1>1, <1>2 DEF TypeInv, SessionTypeOK
  <1>4. underWay' \subseteq underWay
    BY <1>1, <1>2, <1>3 DEF underWay, TakeFrom
  <1>5. Moves
    BY <1>1, <1>2, <1>3, <1>4 DEF Moves
  <1>6. OneWorker'
    BY <1>3 DEF OneWorker
  <1> QED
    BY <1>5, <1>6, MovesKeep DEF Sequential, AloneAndFound

LEMMA LoseSequential ==
    ASSUME Sequential, Lose
    PROVE  Sequential'
  <1>1. toServer' \subseteq toServer /\ toClient' \subseteq toClient /\ UNCHANGED serverVars
        /\ UNCHANGED clientVars
    BY DEF Lose, LoseDatagram
  <1>2. Moves
    BY <1>1 DEF Moves, underWay, serverVars, workerVars, handlerVars
  <1>3. OneWorker => OneWorker'
    BY <1>1 DEF OneWorker, serverVars, workerVars
  <1> QED
    BY <1>2, <1>3, MovesKeep DEF Sequential, AloneAndFound

LEMMA SequentialInitInv ==
    ASSUME SessionInit
    PROVE  Sequential
  <1> USE DEF SessionInit, NetworkInit
  <1>1. AloneAndFound
    BY DEF AloneAndFound, OneWorker, StoredIsFound, RequestSteps
  <1>2. hellos = {} /\ requests = {} /\ peerHellos = {} /\ responses = {}
    BY DEF underWay, hellos, requests, peerHellos, responses
  <1>3. CASE csess = None \/ ssess = csess
    <2>1. ssess \in Keys \cup {None} /\ (csess # None => csess = ssess)
      BY <1>3, SessionKeys
    <2>2. Holds(ssess)
      BY DEF Holds, HelloSteps
    <2>3. AgreedOn(ssess)
      BY <1>2, <2>1 DEF AgreedOn
    <2> QED
      BY <1>1, <2>1, <2>2, <2>3 DEF Sequential
  <1>4. CASE csess # None /\ ssess # csess
    <2>1. Lost
      BY <1>2, <1>4 DEF Lost
    <2> QED
      BY <1>1, <2>1 DEF Sequential
  <1> QED
    BY <1>3, <1>4

LEMMA SequentialNextInv ==
    ASSUME TypeInv, SequentialInv, [SessionNext]_sessionVars
    PROVE  SequentialInv'
  <1> SUFFICES ASSUME ~overlap', forgets' = 0
               PROVE  Sequential'
    BY DEF SequentialInv
  <1>1. ~overlap /\ forgets = 0 /\ ~Forget
    BY DEF SessionNext, sessionVars, serverVars, workerVars, HandshakeHit, HandshakeMiss, Prepare,
       ClientTimeout, clientReceive, ReceivePeerHello, ReceiveUnauthorized, ReceiveResponse,
       Deliver, workerStep, Forget, Lose, TypeInv, SessionTypeOK
  <1>2. Sequential
    BY <1>1 DEF SequentialInv
  <1>3. CASE clientStep
    <2>1. UNCHANGED serverVars
      BY <1>3 DEF clientStep, clientReceive, HandshakeHit, HandshakeMiss, Prepare, ClientTimeout,
         ReceivePeerHello, ReceiveUnauthorized, ReceiveResponse
    <2>2. AloneAndFound' /\ \A T : Holds(T) => Holds(T)'
      BY <1>2, <2>1, ClientAlone DEF Sequential
    <2> QED
      BY <1>2, <1>3, <2>2, AgreedClient, LostClient, RepairClient DEF Sequential
  <1>4. ASSUME NEW w \in Worker, workerStep(w)
        PROVE  Sequential'
    <2>1. AloneAndFound'
      BY <1>2, <1>4, WorkerAlone DEF Sequential
    <2>2. ASSUME NEW T \in Keys \cup {None}, Holds(T), AgreedOn(T)
          PROVE  \E T_ \in Keys \cup {None} : Holds(T_)' /\ AgreedOn(T_)'
      BY <1>2, <1>4, <2>2, AgreedHelloStart, AgreedWorker DEF Sequential
    <2> QED
      BY <1>2, <1>4, <2>1, <2>2, LostWorker, RepairWorker DEF Sequential
  <1>5. CASE Deliver
    BY <1>2, <1>5, DeliverSequential
  <1>6. CASE Lose
    BY <1>2, <1>6, LoseSequential
  <1>7. CASE UNCHANGED sessionVars
    <2>1. Moves /\ (OneWorker => OneWorker')
      BY <1>7 DEF Moves, OneWorker, sessionVars, serverVars, workerVars, netVars, underWay
    <2> QED
      BY <1>2, <2>1, MovesKeep DEF Sequential, AloneAndFound
  <1> QED
    BY <1>1, <1>3, <1>4, <1>5, <1>6, <1>7 DEF SessionNext, clientStep

LEMMA SequentialInvariant == SessionSpec => []SequentialInv
  <1>1. SessionInit => SequentialInv
    BY SequentialInitInv DEF SequentialInv
  <1> QED
    BY <1>1, SequentialNextInv, TypeInvariant, PTL DEF SessionSpec

(* After a Send that succeeded both sides hold the same session, for any   *)
(* number of attempts, losses and duplicates, late ones included, if the   *)
(* server handled one datagram at a time and no session expired            *)
(* (security.go:160-186, transport.go:77-90).                              *)
THEOREM SessionsAlwaysAgree == SessionSpec => []SessionsAgree
  <1>1. SequentialInv => SessionsAgree
    <2> SUFFICES ASSUME Sequential, cpc = "done", \A w \in Worker : wpc[w] = "free"
                 PROVE  csess = ssess
      BY DEF SequentialInv, SessionsAgree
    <2>1. ASSUME NEW T, Holds(T), AgreedOn(T)
          PROVE  csess = ssess
      BY <2>1 DEF Holds, AgreedOn, HelloSteps
    <2>2. CASE Repair
      BY <2>2 DEF Repair, Answered
    <2>3. ~Lost
      BY DEF Lost
    <2> QED
      BY <2>1, <2>2, <2>3 DEF Sequential
  <1> QED
    BY <1>1, SequentialInvariant, PTL
=============================================================================
