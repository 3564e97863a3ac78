----------------------------- MODULE SecureSend -----------------------------
(***************************************************************************)
(* Server.Send of a coaps message (server.go:361-398, 438-502): a          *)
(* handshake unless there is a session, send, and one new handshake and    *)
(* send when the first found no session.  send is ServerSend's; here it is *)
(* what it does with sessions that matters, and answers do not overtake    *)
(* bq.Get.  The peer runs this library too and handles one datagram at a   *)
(* time; Session has the races inside a server.  Keys are symbolic as      *)
(* there: a session is the two public keys that went into it.              *)
(***************************************************************************)
EXTENDS Integers, FiniteSets

CONSTANTS
    ExtraRetries,   \* WithRetries(n)
    MaxTroubles,    \* bound on lost and repeated datagrams, early timers, expiries
    NoSession

ASSUME SecureSendAssumption == ExtraRetries \in Nat /\ MaxTroubles \in Nat

Keys    == [c : 0 .. 2, s : Nat]
OldKeys == [c |-> 0, s |-> 0]

ASSUME NoSessionAssumption == NoSession \notin Keys

VARIABLES
    phase,         \* where the caller's goroutine is: see the actions
    what,          \* what it is sending: "hello" or "request"
    round,         \* 1, or 2 after a session error
    turn,          \* turns of send's loop
    held,          \* the session it has read and not used yet
    outcome,       \* what Server.Send returned
    session,       \* this server's session with the peer
    seen,          \* an answer to the request was handled: ProcessedMessages
    peerSession,   \* the peer's session with this server
    peerKeys,      \* key pairs the peer has made
    peerSeen,      \* the peer has handled the request
    outbound, inbound,   \* datagrams in flight
    troubles,
    harm           \* the kinds of trouble there have been

callerVars == <<phase, what, round, turn, held, outcome>>
peerVars   == <<peerSession, peerKeys, peerSeen>>
flightVars == <<outbound, inbound>>
troubleVars == <<troubles, harm>>
secureVars == <<callerVars, session, seen, peerVars, flightVars, troubleVars>>

Outbound == [kind : {"hello"}, c : 1 .. 2] \cup [kind : {"request"}, keys : Keys]
Inbound  == [kind : {"peerHello"}, keys : Keys] \cup [kind : {"response"}, keys : Keys]
            \cup [kind : {"unauthorized"}]

SecureSendTypeOK ==
    /\ phase \in {"handshake", "sendTo", "write", "select", "store", "returned"}
    /\ what \in {"hello", "request"}
    /\ round \in 1 .. 2
    /\ turn \in 0 .. ExtraRetries + 1
    /\ held \in Keys \cup {NoSession}
    /\ outcome \in {"none", "response", "timeout", "sessionNotFound"}
    /\ session \in Keys \cup {NoSession}
    /\ peerSession \in Keys \cup {NoSession}
    /\ peerKeys \in Nat
    /\ seen \in BOOLEAN
    /\ peerSeen \in BOOLEAN
    /\ outbound \subseteq Outbound
    /\ inbound \subseteq Inbound
    /\ troubles \in 0 .. MaxTroubles
    /\ harm \subseteq {"loss", "repeat", "early", "expiry"}

(* Either side may have kept the session of an earlier Send, or have one   *)
(* that the other does not know.                                           *)
SecureSendInit ==
    /\ phase = "handshake"
    /\ what = "request"
    /\ round = 1
    /\ turn = 0
    /\ held = NoSession
    /\ outcome = "none"
    /\ session \in {NoSession, OldKeys}
    /\ seen = FALSE
    /\ peerSession \in {NoSession, OldKeys, [c |-> 0, s |-> 1]}
    /\ peerKeys = 1
    /\ peerSeen = FALSE
    /\ outbound = {}
    /\ inbound = {}
    /\ troubles = 0
    /\ harm = {}

-----------------------------------------------------------------------------
(* The caller.                                                             *)

beginSend(w) == phase' = "sendTo" /\ what' = w /\ turn' = 0

return(o) == phase' = "returned" /\ outcome' = o

(* serverHandshake: a session that is there will do; otherwise a hello.    *)
Handshake ==
    /\ phase = "handshake"
    /\ beginSend(IF session = NoSession THEN "hello" ELSE "request")
    /\ UNCHANGED <<round, held, outcome, session, seen, peerVars, flightVars, troubleVars>>

(* The first send's error lets Send begin again, the second's is returned. *)
sessionError ==
    IF round = 1
    THEN phase' = "handshake" /\ round' = 2 /\ UNCHANGED outcome
    ELSE return("sessionNotFound") /\ UNCHANGED round

(* sendTo looks for the session each time, also for a retry.               *)
SendTo ==
    /\ phase = "sendTo"
    /\ \/ /\ what = "request" /\ session = NoSession
          /\ sessionError
          /\ UNCHANGED held
       \/ /\ what = "request" => session # NoSession
          /\ held' = IF what = "request" THEN session ELSE NoSession
          /\ phase' = "write"
          /\ UNCHANGED <<round, outcome>>
    /\ UNCHANGED <<what, turn, session, seen, peerVars, flightVars, troubleVars>>

(* Mutant: one turn too many.                                              *)
waits_OneTooMany == IF what = "request" /\ round = 2 THEN ExtraRetries + 2 ELSE 2

(* Only the second send of a request gets the options of the caller        *)
(* (server.go:383, 397, 479).                                              *)
waits == IF what = "request" /\ round = 2 THEN ExtraRetries + 1 ELSE 1

(* getSessionForAddress stores what it found, and the datagram goes out;   *)
(* after the last turn nobody waits for an answer to it.                   *)
Write ==
    /\ phase = "write"
    /\ IF what = "hello"
       THEN outbound' = outbound \cup {[kind |-> "hello", c |-> round]} /\ UNCHANGED session
       ELSE outbound' = outbound \cup {[kind |-> "request", keys |-> held]} /\ session' = held
    /\ IF turn = waits
       THEN return("timeout")
       ELSE phase' = "select" /\ UNCHANGED outcome
    /\ UNCHANGED <<what, round, turn, held, seen, peerVars, inbound, troubleVars>>

trouble(kind) ==
    /\ troubles < MaxTroubles
    /\ troubles' = troubles + 1
    /\ harm' = harm \cup {kind}

(* Mutant: the turns are not counted.                                      *)
nextTurn_NotCounted == turn

nextTurn == turn + 1

(* time.After, which normally is longer than a round trip.                 *)
Timer ==
    /\ phase = "select"
    /\ IF outbound = {} /\ inbound = {} THEN UNCHANGED troubleVars ELSE trouble("early")
    /\ turn' = nextTurn
    /\ phase' = "sendTo"
    /\ UNCHANGED <<what, round, held, outcome, session, seen, peerVars, flightVars>>

(* sendHelloFromServer has returned: the session is stored, and the        *)
(* request comes next.                                                     *)
Store ==
    /\ phase = "store"
    /\ session' = held
    /\ beginSend("request")
    /\ UNCHANGED <<round, held, outcome, seen, peerVars, flightVars, troubleVars>>

-----------------------------------------------------------------------------
(* This server's listenLoop and the goroutine it starts.                   *)

takeInbound(m) ==
    /\ m \in inbound
    /\ \/ inbound' = inbound \ {m} /\ UNCHANGED troubleVars
       \/ UNCHANGED inbound /\ trouble("repeat")

(* bq.Has and bq.Write; a PeerHello nobody waits for is dropped by         *)
(* receiveHandshake (server.go:615-621, security.go:155-158).              *)
ReceivePeerHello ==
    /\ \E m \in inbound :
          /\ m.kind = "peerHello"
          /\ takeInbound(m)
          /\ IF phase = "select" /\ what = "hello" /\ m.keys.c = round
             THEN phase' = "store" /\ held' = m.keys
             ELSE UNCHANGED <<phase, held>>
    /\ UNCHANGED <<what, round, turn, outcome, session, seen, peerVars, outbound>>

(* Mutant: the rejected session stays.                                     *)
forgetSession_Kept == UNCHANGED session

(* handleCoapsScheme deletes the session that a 4.01 speaks of.  Its error *)
(* reaches nobody: the caller waits on (security.go:130-141,               *)
(* localstate.go:50-52).                                                   *)
forgetSession == session' = NoSession

ReceiveRejection ==
    /\ \E m \in inbound : m.kind = "unauthorized" /\ takeInbound(m)
    /\ IF seen THEN UNCHANGED session ELSE forgetSession
    /\ UNCHANGED <<callerVars, seen, peerVars, outbound>>

(* A response that the session opens goes to respHandler, and to the       *)
(* caller if it waits in its select; one that it does not open deletes it. *)
(* The 4.01 to the peer that goes with it finds the request processed      *)
(* there.                                                                  *)
ReceiveResponse ==
    /\ \E m \in inbound :
          /\ m.kind = "response"
          /\ takeInbound(m)
          /\ \/ /\ ~seen /\ session = m.keys
                /\ seen' = TRUE
                /\ IF phase = "select" /\ what = "request"
                   THEN return("response")
                   ELSE UNCHANGED <<phase, outcome>>
                /\ UNCHANGED session
             \/ /\ ~seen /\ session # m.keys
                /\ session' = NoSession
                /\ UNCHANGED <<phase, outcome, seen>>
             \/ seen /\ UNCHANGED <<phase, outcome, seen, session>>
    /\ UNCHANGED <<what, round, turn, held, peerVars, outbound>>

-----------------------------------------------------------------------------
(* The peer.                                                               *)

takeOutbound(m) ==
    /\ m \in outbound
    /\ \/ outbound' = outbound \ {m} /\ UNCHANGED troubleVars
       \/ UNCHANGED outbound /\ trouble("repeat")

(* Mutant: a key pair for every hello.                                     *)
keyPair_New == peerKeys + 1

(* receiveHandshake: the key pair of the session it has, or a new one      *)
(* (security.go:160-184).                                                  *)
keyPair == IF peerSession = NoSession THEN peerKeys + 1 ELSE peerSession.s

PeerHandshakes ==
    /\ \E m \in outbound :
          /\ m.kind = "hello"
          /\ takeOutbound(m)
          /\ peerSession' = [c |-> m.c, s |-> keyPair]
          /\ peerKeys' = IF keyPair > peerKeys THEN keyPair ELSE peerKeys
          /\ inbound' = inbound \cup {[kind |-> "peerHello", keys |-> [c |-> m.c, s |-> keyPair]]}
    /\ UNCHANGED <<callerVars, session, seen, peerSeen>>

(* A request that was handled before is dropped; one that the session does *)
(* not open is rejected and ends the session (security.go:96-124).         *)
PeerHandles ==
    /\ \E m \in outbound :
          /\ m.kind = "request"
          /\ takeOutbound(m)
          /\ \/ peerSeen /\ UNCHANGED <<peerSession, peerSeen, inbound>>
             \/ /\ ~peerSeen /\ peerSession = m.keys
                /\ peerSeen' = TRUE
                /\ inbound' = inbound \cup {[kind |-> "response", keys |-> m.keys]}
                /\ UNCHANGED peerSession
             \/ /\ ~peerSeen /\ peerSession # m.keys
                /\ peerSession' = NoSession
                /\ inbound' = inbound \cup {[kind |-> "unauthorized"]}
                /\ UNCHANGED peerSeen
    /\ UNCHANGED <<callerVars, session, seen, peerKeys>>

-----------------------------------------------------------------------------
LoseOne ==
    /\ trouble("loss")
    /\ \/ (\E m \in outbound : outbound' = outbound \ {m}) /\ UNCHANGED inbound
       \/ (\E m \in inbound : inbound' = inbound \ {m}) /\ UNCHANGED outbound
    /\ UNCHANGED <<callerVars, session, seen, peerVars>>

SessionExpires ==
    /\ trouble("expiry")
    /\ \/ session # NoSession /\ session' = NoSession /\ UNCHANGED peerSession
       \/ peerSession # NoSession /\ peerSession' = NoSession /\ UNCHANGED session
    /\ UNCHANGED <<callerVars, seen, peerKeys, peerSeen, flightVars>>

callerStep == Handshake \/ SendTo \/ Write \/ Store
receive    == ReceivePeerHello \/ ReceiveRejection \/ ReceiveResponse
peerStep   == PeerHandshakes \/ PeerHandles

SecureSendNext == callerStep \/ Timer \/ receive \/ peerStep \/ LoseOne \/ SessionExpires

SecureSendSpec == SecureSendInit /\ [][SecureSendNext]_secureVars

(* The caller's goroutine runs and its timer fires; what is not lost       *)
(* arrives, and the peer handles it.                                       *)
SecureSendDeliverySpec ==
    /\ SecureSendSpec
    /\ WF_secureVars(callerStep)
    /\ WF_secureVars(Timer)
    /\ WF_secureVars(receive)
    /\ WF_secureVars(peerStep)

-----------------------------------------------------------------------------
(* Server.Send returns, whatever becomes of the datagrams and the          *)
(* sessions: it begins again once at most (server.go:361-398).             *)
SecureSendReturns == phase # "handshake" ~> phase = "returned"

(* A session that only one side still has, or that is not the other's, is  *)
(* replaced and the caller gets the response, although nobody tells it of  *)
(* the 4.01: the retry after the timeout finds the session gone, and that  *)
(* error begins the second round (server.go:388, 426-430; security.go:132- *)
(* 139).  A repeated datagram does no harm; a lost one, a timer that fires *)
(* too early or a session that expires meanwhile may.                      *)
SecureSendRepaired ==
    phase # "handshake" ~> (outcome = "response" \/ harm \cap {"loss", "early", "expiry"} # {})

(* When the caller has the response and nothing is under way, both sides   *)
(* hold the same session, whatever was lost, came twice or came late:      *)
(* a repeated hello makes the peer keep its key pair (security.go:160-165, *)
(* 183; server.go:469).                                                    *)
EndsInAgreement ==
    outcome = "response" /\ outbound = {} /\ inbound = {} /\ "expiry" \notin harm
    => session = peerSession
=============================================================================
