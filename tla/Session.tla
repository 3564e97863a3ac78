------------------------------- MODULE Session -------------------------------
(***************************************************************************)
(* A coaps request: transport.Send with its handshake, the encrypted       *)
(* exchange, and the one new handshake after a session error (security.go, *)
(* encryption.go, the sessionStorageImpl of storage.go).  Request and      *)
(* response fit into one datagram each; no proxy is involved.              *)
(*                                                                         *)
(* Cryptography is symbolic: a session is the pair of public keys that     *)
(* went into it, and decrypt succeeds if both sides have the same pair.    *)
(* The client makes a key pair for every handshake; so does a server       *)
(* without a private key, unless it still has a session with the peer.     *)
(*                                                                         *)
(* The server handles every datagram on a goroutine of its own (a Worker); *)
(* its session storage is shared.  A step is one access to it.  Datagrams  *)
(* with the same token are serialised by ls.mx.  The races about the       *)
(* localState itself are left to Confirmable: a request has one here.      *)
(***************************************************************************)
EXTENDS Network

CONSTANTS Worker,        \* goroutines of the server at the same time
          MaxAttempts,   \* maxSendAttempts
          StaticServer,  \* TRUE: the server has a private key
          MaxForgets,    \* bound on the sessions that expire meanwhile
          LossyKinds,    \* datagrams to the client that may be lost
          None

ASSUME SessionAssumption ==
    /\ MaxAttempts \in Nat \ {0}
    /\ StaticServer \in BOOLEAN
    /\ MaxForgets \in Nat
    /\ LossyKinds \subseteq {"peerHello", "response", "unauthorized"}

VARIABLES cpc, round, helloTry, attempts, \* the client's transport.Send
          csess, sealed,                  \* its stored session; that of the datagram
          ssess,                          \* the server's stored session
          freshKeys,                      \* key pairs the server has made
          wpc, wmsg, wses,                \* the Workers
          handled, processed,             \* the request's localState
          overlap,                        \* history: two goroutines at the same time
          forgets

clientVars  == <<cpc, round, helloTry, attempts, csess, sealed>>
workerVars  == <<wpc, wmsg, wses, overlap>>
handlerVars == <<handled, processed>>
serverVars  == <<ssess, freshKeys, workerVars, handlerVars>>
sessionVars == <<clientVars, serverVars, netVars, faultVars, forgets>>

Keys    == [c : 0 .. 2, s : Nat]     \* c: the client's handshake; 0: an earlier Send's
OldKeys == [c |-> 0, s |-> 0]

(* sessionStorageImpl tells "no session" from every session.               *)
ASSUME NoneAssumption == None \notin Keys

Hello        == [kind : {"hello"}, c : 1 .. 2]
Request      == [kind : {"request"}, keys : Keys]
PeerHello    == [kind : {"peerHello"}, c : 1 .. 2, s : Nat]
Response     == [kind : {"response"}, keys : Keys]
Unauthorized == [kind |-> "unauthorized"]

(* Datagrams of the request have one token, every handshake has its own.   *)
token(m) == IF m.kind = "hello" THEN m.c ELSE 0

WorkerSteps == {"free", "start", "renewHello", "sendHello", "storeHello", "renew", "open",
                "handler", "reply", "renewReply", "mark"}

SessionTypeOK ==
    /\ cpc \in {"handshake", "hello", "prepare", "request", "done", "failed"}
    /\ round \in 1 .. 2
    /\ helloTry \in 1 .. 2
    /\ attempts \in 0 .. MaxAttempts
    /\ csess \in Keys \cup {None}
    /\ sealed \in Keys \cup {None}
    /\ ssess \in Keys \cup {None}
    /\ freshKeys \in Nat
    /\ wpc \in [Worker -> WorkerSteps]
    /\ wmsg \in [Worker -> Hello \cup Request \cup {None}]
    /\ wses \in [Worker -> Keys \cup {None}]
    /\ handled \in BOOLEAN
    /\ processed \in BOOLEAN
    /\ overlap \in BOOLEAN
    /\ toServer \in SUBSET (Hello \cup Request)
    /\ toClient \in SUBSET (PeerHello \cup Response \cup {Unauthorized})
    /\ FaultTypeOK
    /\ forgets \in 0 .. MaxForgets

(* Either side may or may not have kept the session of an earlier Send.    *)
SessionInit ==
    /\ cpc = "handshake"
    /\ round = 1
    /\ helloTry = 1
    /\ attempts = 0
    /\ csess \in {OldKeys, None}
    /\ sealed = None
    /\ ssess \in {OldKeys, None}
    /\ freshKeys = 0
    /\ wpc = [w \in Worker |-> "free"]
    /\ wmsg = [w \in Worker |-> None]
    /\ wses = [w \in Worker |-> None]
    /\ handled = FALSE
    /\ processed = FALSE
    /\ overlap = FALSE
    /\ NetworkInit
    /\ forgets = 0

-----------------------------------------------------------------------------
(* The client.                                                             *)

(* handshake: a stored session will do ...                                 *)
HandshakeHit ==
    /\ cpc = "handshake"
    /\ csess # None
    /\ cpc' = "prepare"
    /\ UNCHANGED <<round, helloTry, attempts, csess, sealed, serverVars, netVars, faultVars,
                   forgets>>

(* ... otherwise the first datagram of sendHelloFromClient.                *)
HandshakeMiss ==
    /\ cpc = "handshake"
    /\ csess = None
    /\ cpc' = "hello"
    /\ helloTry' = 1
    /\ attempts' = 1
    /\ toServer' = toServer \cup {[kind |-> "hello", c |-> round]}
    /\ UNCHANGED <<round, csess, sealed, toClient, serverVars, faultVars, forgets>>

(* One of the four session errors: Send makes one more round.              *)
sessionError ==
    IF round = 1 THEN cpc' = "handshake" /\ round' = 2
                 ELSE cpc' = "failed" /\ UNCHANGED round

(* sendCON: preparationSendingMessage encrypts once; what is retransmitted *)
(* later are the same bytes.                                               *)
Prepare ==
    /\ cpc = "prepare"
    /\ \/ /\ csess # None
          /\ sealed' = csess
          /\ attempts' = 1
          /\ cpc' = "request"
          /\ toServer' = toServer \cup {[kind |-> "request", keys |-> csess]}
          /\ UNCHANGED round
       \/ /\ csess = None
          /\ sessionError
          /\ UNCHANGED <<sealed, attempts, toServer>>
    /\ UNCHANGED <<helloTry, csess, toClient, serverVars, faultVars, forgets>>

waiting == IF cpc = "hello" THEN [kind |-> "hello", c |-> round]
                            ELSE [kind |-> "request", keys |-> sealed]

nextAttempt_NotCounted == UNCHANGED attempts

nextAttempt == attempts' = attempts + 1

lastAttempt == attempts = MaxAttempts

(* The read of a sendCON times out.                                        *)
ClientTimeout ==
    /\ cpc \in {"hello", "request"}
    /\ Timely => toServer = {} /\ toClient = {} /\ \A w \in Worker : wpc[w] = "free"
    /\ \/ /\ ~lastAttempt
          /\ nextAttempt
          /\ toServer' = toServer \cup {waiting}
          /\ UNCHANGED cpc
       \/ /\ lastAttempt
          /\ cpc' = "failed"
          /\ UNCHANGED <<attempts, toServer>>
    /\ UNCHANGED <<round, helloTry, csess, sealed, toClient, serverVars, faultVars, forgets>>

(* The answer to the hello; the answer to an earlier one has another token *)
(* and is skipped.                                                         *)
ReceivePeerHello ==
    /\ cpc \in {"hello", "request"}
    /\ \E m \in toClient :
          /\ m.kind = "peerHello"
          /\ TakeFrom(toClient, toClient', m)
          /\ IF cpc = "hello" /\ m.c = round
             THEN /\ csess' = [c |-> m.c, s |-> m.s]
                  /\ cpc' = "prepare"
             ELSE UNCHANGED <<csess, cpc>>
    /\ UNCHANGED <<round, helloTry, attempts, sealed, toServer, losses, serverVars, forgets>>

(* securityInputLayer rejects what it received, before its token has been  *)
(* looked at.  While a hello is under way, the Send of the hello tries     *)
(* again once, without a handshake of its own.                             *)
rejected ==
    IF cpc = "request"
    THEN /\ sessionError
         /\ UNCHANGED <<helloTry, attempts>>
    ELSE IF helloTry = 1
    THEN /\ helloTry' = 2
         /\ attempts' = 1
         /\ UNCHANGED <<cpc, round>>
    ELSE /\ cpc' = "failed"
         /\ UNCHANGED <<round, helloTry, attempts>>

helloAgain == IF cpc = "hello" /\ helloTry = 1 THEN {waiting} ELSE {}

(* A 4.01 deletes the session it speaks of.                                *)
forgetRejected_Kept == UNCHANGED csess

forgetRejected == csess' = None

ReceiveUnauthorized ==
    /\ cpc \in {"hello", "request"}
    /\ TakeFrom(toClient, toClient', Unauthorized)
    /\ forgetRejected
    /\ rejected
    /\ toServer' = toServer \cup helloAgain
    /\ UNCHANGED <<sealed, losses, serverVars, forgets>>

(* A response that the stored session opens ends Send.  Without a session, *)
(* or with another one (which is deleted), it is an error; the 4.01 to the *)
(* server is not sent: Go refuses WriteTo on a dialed UDP socket.          *)
ReceiveResponse ==
    /\ cpc \in {"hello", "request"}
    /\ \E m \in toClient :
          /\ m.kind = "response"
          /\ TakeFrom(toClient, toClient', m)
          /\ \/ /\ csess = m.keys
                /\ cpc' = IF cpc = "request" THEN "done" ELSE cpc
                /\ UNCHANGED <<csess, round, helloTry, attempts, toServer>>
             \/ /\ csess # m.keys
                /\ csess' = None
                /\ rejected
                /\ toServer' = toServer \cup helloAgain
    /\ UNCHANGED <<sealed, losses, serverVars, forgets>>

-----------------------------------------------------------------------------
(* The server.                                                             *)

Deliver ==
    /\ \E w \in Worker, m \in toServer :
          /\ wpc[w] = "free"
          /\ TakeFrom(toServer, toServer', m)
          /\ wpc' = [wpc EXCEPT ![w] = "start"]
          /\ wmsg' = [wmsg EXCEPT ![w] = m]
          /\ overlap' = (overlap \/ \E v \in Worker : wpc[v] # "free")
    /\ UNCHANGED <<clientVars, ssess, freshKeys, wses, handlerVars, toClient, losses, forgets>>

goto(w, step) ==
    /\ wpc' = [wpc EXCEPT ![w] = step]
    /\ UNCHANGED wmsg

(* The goroutine ends.                                                     *)
finish(w) ==
    /\ wpc' = [wpc EXCEPT ![w] = "free"]
    /\ wmsg' = [wmsg EXCEPT ![w] = None]
    /\ wses' = [wses EXCEPT ![w] = None]

send(m) == toClient' = toClient \cup {m}

(* ls.mx: nobody else is inside processMessage for the same token.         *)
Lock(w) ==
    \A v \in Worker \ {w} :
        wpc[v] \in {"renewHello", "sendHello", "storeHello", "renew", "open"} =>
            token(wmsg[v]) # token(wmsg[w])

(* receiveHandshake: the session with the peer, whose key pair is kept, or *)
(* a new one.                                                              *)
HelloStart_NewKeyPair(w) ==
    /\ wpc[w] = "start"
    /\ wmsg[w].kind = "hello"
    /\ Lock(w)
    /\ freshKeys' = IF StaticServer THEN 0 ELSE freshKeys + 1
    /\ wses' = [wses EXCEPT ![w] = [c |-> wmsg[w].c, s |-> freshKeys']]
    /\ goto(w, "sendHello")
    /\ UNCHANGED <<ssess, handlerVars, netVars>>

HelloStart(w) ==
    /\ wpc[w] = "start"
    /\ wmsg[w].kind = "hello"
    /\ Lock(w)
    /\ \/ /\ ssess # None
          /\ wses' = [wses EXCEPT ![w] = ssess]
          /\ goto(w, "renewHello")
          /\ UNCHANGED freshKeys
       \/ /\ ssess = None
          /\ freshKeys' = IF StaticServer THEN 0 ELSE freshKeys + 1
          /\ wses' = [wses EXCEPT ![w] = [c |-> wmsg[w].c, s |-> freshKeys']]
          /\ goto(w, "sendHello")
    /\ UNCHANGED <<ssess, handlerVars, netVars>>

(* getSessionForAddress stores what it found, to renew its time to live.   *)
RenewHello(w) ==
    /\ wpc[w] = "renewHello"
    /\ ssess' = wses[w]
    /\ goto(w, "sendHello")
    /\ UNCHANGED <<freshKeys, wses, handlerVars, netVars>>

(* incomingHandshake answers before the session is stored.                 *)
SendHello(w) ==
    /\ wpc[w] = "sendHello"
    /\ send([kind |-> "peerHello", c |-> wmsg[w].c, s |-> wses[w].s])
    /\ goto(w, "storeHello")
    /\ UNCHANGED <<ssess, freshKeys, wses, handlerVars, toServer>>

storedKeys(w) == [c |-> wmsg[w].c, s |-> wses[w].s]

StoreHello(w) ==
    /\ wpc[w] = "storeHello"
    /\ ssess' = storedKeys(w)
    /\ finish(w)
    /\ UNCHANGED <<freshKeys, handlerVars, netVars>>

(* processLocalState drops what is already answered; handleCoapsScheme     *)
(* looks for the session of a request.                                     *)
RequestStart(w) ==
    /\ wpc[w] = "start"
    /\ wmsg[w].kind = "request"
    /\ Lock(w)
    /\ \/ /\ processed
          /\ finish(w)
          /\ UNCHANGED toClient
       \/ /\ ~processed
          /\ ssess = None
          /\ send(Unauthorized)
          /\ finish(w)
       \/ /\ ~processed
          /\ ssess # None
          /\ wses' = [wses EXCEPT ![w] = ssess]
          /\ goto(w, "renew")
          /\ UNCHANGED toClient
    /\ UNCHANGED <<ssess, freshKeys, handlerVars, toServer>>

Renew(w) ==
    /\ wpc[w] = "renew"
    /\ ssess' = wses[w]
    /\ goto(w, "open")
    /\ UNCHANGED <<freshKeys, wses, handlerVars, netVars>>

(* decrypt; a failure deletes the session and answers 4.01.                *)
Open(w) ==
    /\ wpc[w] = "open"
    /\ \/ /\ wses[w] = wmsg[w].keys
          /\ goto(w, "handler")
          /\ UNCHANGED <<ssess, wses, toClient>>
       \/ /\ wses[w] # wmsg[w].keys
          /\ ssess' = None
          /\ send(Unauthorized)
          /\ finish(w)
    /\ UNCHANGED <<freshKeys, handlerVars, toServer>>

(* respHandler: the CAS, then the handler.                                 *)
Handle(w) ==
    /\ wpc[w] = "handler"
    /\ \/ /\ handled
          /\ finish(w)
          /\ UNCHANGED handled
       \/ /\ ~handled
          /\ handled' = TRUE
          /\ goto(w, "reply")
          /\ UNCHANGED wses
    /\ UNCHANGED <<ssess, freshKeys, processed, netVars>>

(* securityOutputLayer of the response, with the session of that moment;   *)
(* without one nothing is sent.                                            *)
Reply(w) ==
    /\ wpc[w] = "reply"
    /\ wses' = [wses EXCEPT ![w] = ssess]
    /\ goto(w, IF ssess = None THEN "mark" ELSE "renewReply")
    /\ UNCHANGED <<ssess, freshKeys, handlerVars, netVars>>

RenewReply(w) ==
    /\ wpc[w] = "renewReply"
    /\ ssess' = wses[w]
    /\ send([kind |-> "response", keys |-> wses[w]])
    /\ goto(w, "mark")
    /\ UNCHANGED <<freshKeys, wses, handlerVars, toServer>>

Mark(w) ==
    /\ wpc[w] = "mark"
    /\ processed' = TRUE
    /\ finish(w)
    /\ UNCHANGED <<ssess, freshKeys, handled, netVars>>

workerStep(w) ==
    /\ \/ HelloStart(w) \/ RenewHello(w) \/ SendHello(w) \/ StoreHello(w)
       \/ RequestStart(w) \/ Renew(w) \/ Open(w)
       \/ Handle(w) \/ Reply(w) \/ RenewReply(w) \/ Mark(w)
    /\ UNCHANGED <<clientVars, overlap, faultVars, forgets>>

-----------------------------------------------------------------------------
(* SESSIONS_POOL_EXPIRATION passes on one side.                            *)
Forget ==
    /\ forgets < MaxForgets
    /\ forgets' = forgets + 1
    /\ \/ csess' = None /\ UNCHANGED ssess
       \/ ssess' = None /\ UNCHANGED csess
    /\ UNCHANGED <<cpc, round, helloTry, attempts, sealed, freshKeys, workerVars, handlerVars,
                   netVars, faultVars>>

Lose ==
    /\ LoseDatagram({m \in toClient : m.kind \in LossyKinds})
    /\ UNCHANGED <<clientVars, serverVars, forgets>>

clientReceive == ReceivePeerHello \/ ReceiveUnauthorized \/ ReceiveResponse

SessionNext ==
    \/ HandshakeHit \/ HandshakeMiss \/ Prepare
    \/ ClientTimeout
    \/ clientReceive
    \/ Deliver
    \/ \E w \in Worker : workerStep(w)
    \/ Forget
    \/ Lose

SessionSpec == SessionInit /\ [][SessionNext]_sessionVars

(* The caller's goroutine runs and its read deadline fires.                *)
SessionFairSpec ==
    /\ SessionSpec
    /\ WF_sessionVars(HandshakeHit \/ HandshakeMiss \/ Prepare)
    /\ WF_sessionVars(ClientTimeout)

(* The network delivers what it does not lose, the server's goroutines run.*)
SessionDeliverySpec ==
    /\ SessionFairSpec
    /\ WF_sessionVars(clientReceive)
    /\ WF_sessionVars(Deliver)
    /\ \A w \in Worker : WF_sessionVars(workerStep(w))

-----------------------------------------------------------------------------
(* The second round never uses a session that was rejected in the first:   *)
(* whatever late or repeated datagrams arrive, what is stored then comes   *)
(* from the new handshake (transport.go:77-90, security.go:132-139).       *)
RetryUsesNewSession ==
    round = 2 =>
        /\ csess # None => csess.c = 2
        /\ cpc = "request" => sealed.c = 2

(* Send returns, whatever the network does.                                *)
SendReturns == <>(cpc \in {"done", "failed"})

(* When server and client disagree about the session of an earlier Send,   *)
(* the new handshake repairs it and the caller gets the response           *)
(* (transport.go:77-90), if every datagram arrives once within the         *)
(* attempts, no session expires meanwhile and the server handled one       *)
(* datagram at a time: it sends the PeerHello before it stores the         *)
(* session.                                                                *)
SessionRepaired ==
    <>(cpc = "done" \/ overlap \/ dups > 0 \/ forgets > 0 \/ losses >= MaxAttempts)

(* After a Send that succeeded, with nothing under way, both sides hold    *)
(* the same session, whatever was lost, sent again or delivered late: a    *)
(* repeated hello finds the stored session and keeps its key pair          *)
(* (security.go:160-165).  For a server that handled one datagram at a     *)
(* time, and sessions that did not expire meanwhile.                       *)
SessionsAgree ==
    /\ cpc = "done" /\ netVars = <<{}, {}>> /\ (\A w \in Worker : wpc[w] = "free")
    /\ ~overlap /\ forgets = 0
    => csess = ssess
=============================================================================
