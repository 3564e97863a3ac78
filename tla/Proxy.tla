------------------------------- MODULE Proxy -------------------------------
(***************************************************************************)
(* A server that forwards requests (server.go:127-195, 293-317, 550-627):  *)
(* askers send requests with a Proxy-URI, a goroutine forwards each and    *)
(* then notes, in proxyCache, to whom the answer goes.  Askers and targets *)
(* are peers over UDP or over a TCP connection they opened.  The bytes are *)
(* Wire's and TcpStream's (with the buffer that a connection's goroutines  *)
(* share), the server's own requests are Exchange's.                       *)
(***************************************************************************)
EXTENDS Integers, FiniteSets

CONSTANTS
    Asker, Target,  \* peers, by their address
    TcpPeer,        \* the ones with a TCP connection to the server
    Token,
    Requests,       \* [Asker -> request]: what the askers ask for
    Worker,         \* goroutines: bound on the ones alive at a time
    MaxParallel,    \* slots of listenLoop's semaphore
    MaxAttempts,    \* maxSendAttempts of the askers
    MaxMishaps,     \* bound on what goes wrong: the network's, Refresh, an expiry
    None

Peer == Asker \cup Target

(* The host of a Proxy-URI: the address of the target, or a name for it.   *)
Host == Target \cup {"name"}

Request == [token : Token, target : Target, host : Host]

ASSUME ProxyAssumption ==
    /\ Asker \cap Target = {}
    /\ TcpPeer \subseteq Peer
    /\ Requests \subseteq [Asker -> Request]
    /\ \A r \in Requests : \A a \in Asker : r[a].host \in {r[a].target, "name"}
    /\ MaxParallel \in Nat \ {0}
    /\ MaxAttempts \in Nat
    /\ MaxMishaps \in Nat
    /\ None \notin Peer
    /\ "name" \notin Target

(* Tokens are six random bytes: askers of one target do not share one.     *)
ASSUME TokenAssumption ==
    \A r \in Requests : \A a, b \in Asker :
        a # b /\ r[a].token = r[b].token => r[a].target # r[b].target

VARIABLES
    proxyEnable,   \* Server.Proxy
    sr,            \* s.sr: how many times it was replaced
    srOpen,        \* its socket is not closed
    connected,     \* TCP peers whose connection is open
    connStorage,   \* TCP peers whose connection GetTCP finds
    proxyCache,    \* token and host -> the note, or None
    listening,     \* the datagram listenLoop holds while it waits for a slot
    jobs,          \* what each goroutine does, or None

    request, attempts, answer,   \* the askers: what they ask, and what they got
    repeats,                     \* the targets answer a request they have answered
    answered,                    \* [target, token]: the requests they have answered
    toProxy, toTarget, toAsker,  \* messages in flight
    mishaps,
    strays         \* tokens and senders of answers that found no note

serverVars == <<proxyEnable, sr, srOpen, connected, connStorage, proxyCache, listening, jobs>>
peerVars   == <<request, attempts, answer, repeats, answered>>
netVars    == <<toProxy, toTarget, toAsker>>
auxVars    == <<mishaps, strays>>
proxyVars  == <<serverVars, peerVars, netVars, auxVars>>

AskerMessage  == [kind : {"request"}, from : Asker, token : Token, target : Target, host : Host]
TargetMessage == [kind : {"answer"}, from : Target, token : Token]

(* A transport a note holds: s.sr as it was, or None for the asker's own   *)
(* connection.  A goroutine that no loop waits for has None for its loop.  *)
Note == [addr : Asker, tr : Nat \cup {None}]
Job  == [pc : {"forward", "note", "local"}, msg : AskerMessage \cup TargetMessage, loop : Nat \cup {None}]

ProxyTypeOK ==
    /\ proxyEnable \in BOOLEAN
    /\ sr \in Nat
    /\ srOpen \in BOOLEAN
    /\ connected \subseteq TcpPeer
    /\ connStorage \subseteq TcpPeer
    /\ proxyCache \in [Token \X Host -> Note \cup {None}]
    /\ listening \in AskerMessage \cup TargetMessage \cup {None}
    /\ jobs \in [Worker -> Job \cup {None}]
    /\ request \in Requests
    /\ attempts \in [Asker -> 0..MaxAttempts]
    /\ answer \in [Asker -> TargetMessage \cup {None}]
    /\ repeats \in BOOLEAN
    /\ answered \subseteq Target \X Token
    /\ toProxy \subseteq AskerMessage \cup TargetMessage
    /\ toTarget \subseteq [to : Target, token : Token]
    /\ toAsker \subseteq [to : Asker, msg : TargetMessage]
    /\ mishaps \in 0..MaxMishaps
    /\ strays \subseteq Token \X Target

ProxyInit ==
    /\ proxyEnable \in BOOLEAN
    /\ sr = 0
    /\ srOpen = TRUE
    /\ connected = TcpPeer
    /\ connStorage = TcpPeer
    /\ proxyCache = [key \in Token \X Host |-> None]
    /\ listening = None
    /\ jobs = [w \in Worker |-> None]
    /\ request \in Requests
    /\ attempts = [a \in Asker |-> 0]
    /\ answer = [a \in Asker |-> None]
    /\ repeats \in BOOLEAN
    /\ answered = {}
    /\ toProxy = {}
    /\ toTarget = {}
    /\ toAsker = {}
    /\ mishaps = 0
    /\ strays = {}

-----------------------------------------------------------------------------
(* The server.                                                             *)

(* Each listenLoop has a semaphore of its own, one for each s.sr.          *)
slotsTaken == Cardinality({w \in Worker : jobs[w] # None /\ jobs[w].loop = sr})

start(w, msg, loop) ==
    /\ jobs[w] = None
    /\ jobs' = [jobs EXCEPT ![w] = [pc |-> IF msg.kind = "request" THEN "forward" ELSE "local",
                                    msg |-> msg, loop |-> loop]]

(* Mutant: an error on the way of a forward keeps the slot.                *)
finish_LeaksSlot(w) ==
    IF jobs[w].pc = "forward" THEN UNCHANGED jobs ELSE jobs' = [jobs EXCEPT ![w] = None]

(* The goroutine returns; the deferred release gives its slot back on      *)
(* every way out (server.go:588-591).                                      *)
finish(w) == jobs' = [jobs EXCEPT ![w] = None]

(* Mutant: any note with the token will do.                                *)
noteKey_ByToken(msg) ==
    <<msg.token, CHOOSE h \in Host : proxyCache[<<msg.token, h>>] # None
                                     \/ \A g \in Host : proxyCache[<<msg.token, g>>] = None>>

(* The key of the note a message may have (server.go:158, 577): its token  *)
(* and the address of its sender.                                          *)
noteKey(msg) == <<msg.token, msg.from>>

hasNote(msg) == msg.kind = "answer" /\ proxyCache[noteKey(msg)] # None

usable(note) == IF note.tr = None THEN note.addr \in connected ELSE note.tr = sr /\ srOpen

(* The message goes on to the asker as it came, over the transport of the  *)
(* note; an error of that write is dropped (server.go:577-582, 158-163).   *)
relayAnswer(msg) ==
    LET note == proxyCache[noteKey(msg)]
    IN  toAsker' = IF usable(note) THEN toAsker \cup [to : {note.addr}, msg : {msg}] ELSE toAsker

stray(msg) == strays' = IF msg.kind = "answer" THEN strays \cup {noteKey(msg)} ELSE strays

mishap == mishaps < MaxMishaps /\ mishaps' = mishaps + 1

(* listenLoop reads a datagram, which may come again: one that has a note  *)
(* is sent on at once, any other waits for a slot, and the loop with it    *)
(* (server.go:553-584).                                                    *)
ReadDatagram ==
    /\ listening = None
    /\ srOpen
    /\ \E msg \in toProxy :
          /\ msg.from \notin TcpPeer
          /\ \/ toProxy' = toProxy \ {msg} /\ UNCHANGED mishaps
             \/ mishap /\ UNCHANGED toProxy
          /\ IF hasNote(msg)
             THEN relayAnswer(msg) /\ UNCHANGED <<listening, strays>>
             ELSE listening' = msg /\ stray(msg) /\ UNCHANGED toAsker
    /\ UNCHANGED <<proxyEnable, sr, srOpen, connected, connStorage, proxyCache, jobs>>
    /\ UNCHANGED <<peerVars, toTarget>>

(* semaphore <- struct{}{}, and the goroutine (server.go:584-626).         *)
AcquireSlot ==
    /\ listening # None
    /\ slotsTaken < MaxParallel
    /\ \E w \in Worker : start(w, listening, sr)
    /\ listening' = None
    /\ UNCHANGED <<proxyEnable, sr, srOpen, connected, connStorage, proxyCache>>
    /\ UNCHANGED <<peerVars, netVars, auxVars>>

(* HandleTCPConn reads a frame: the connection is stored again, and every  *)
(* message without a note gets a goroutine of its own (server.go:138-194). *)
ReadTcpFrame ==
    /\ \E msg \in toProxy, w \in Worker :
          /\ msg.from \in connected
          /\ toProxy' = toProxy \ {msg}
          /\ connStorage' = connStorage \cup {msg.from}
          /\ IF hasNote(msg)
             THEN relayAnswer(msg) /\ UNCHANGED <<jobs, strays>>
             ELSE start(w, msg, None) /\ stray(msg) /\ UNCHANGED toAsker
    /\ UNCHANGED <<proxyEnable, sr, srOpen, connected, proxyCache, listening>>
    /\ UNCHANGED <<peerVars, toTarget, mishaps>>

(* sendMultyProxy: over the connection that is stored for the host, or     *)
(* else as a datagram from the socket of s.sr, which a peer that has only  *)
(* a TCP connection does not get.  An error ends the goroutine             *)
(* (server.go:293-317, 175-188, 593-605).                                  *)
Forward(w) ==
    /\ jobs[w] # None
    /\ jobs[w].pc = "forward"
    /\ LET msg == jobs[w].msg
           overTcp == msg.host \in connStorage
           fails == ~proxyEnable \/ (IF overTcp THEN msg.host \notin connected ELSE ~srOpen)
           reached == msg.target \notin TcpPeer \/ overTcp
       IN  IF fails
           THEN finish(w) /\ UNCHANGED toTarget
           ELSE /\ jobs' = [jobs EXCEPT ![w].pc = "note"]
                /\ toTarget' = IF reached
                               THEN toTarget \cup [to : {msg.target}, token : {msg.token}]
                               ELSE toTarget
    /\ UNCHANGED <<proxyEnable, sr, srOpen, connected, connStorage, proxyCache, listening>>
    /\ UNCHANGED <<peerVars, toProxy, toAsker, auxVars>>

(* Mutant: the note keeps the transport the server started with.           *)
noteFor_FirstTransport(msg) == [addr |-> msg.from, tr |-> IF msg.from \in TcpPeer THEN None ELSE 0]

(* The note holds s.sr as it is now, not as it was for the forward         *)
(* (server.go:190, 607).                                                   *)
noteFor(msg) == [addr |-> msg.from, tr |-> IF msg.from \in TcpPeer THEN None ELSE sr]

(* The note is stored under the host of the Proxy-URI.                     *)
StoreNote(w) ==
    /\ jobs[w] # None
    /\ jobs[w].pc = "note"
    /\ LET msg == jobs[w].msg
       IN  proxyCache' = [proxyCache EXCEPT ![<<msg.token, msg.host>>] = noteFor(msg)]
    /\ finish(w)
    /\ UNCHANGED <<proxyEnable, sr, srOpen, connected, connStorage, listening>>
    /\ UNCHANGED <<peerVars, netVars, auxVars>>

(* processLocalState: an answer without a note is not one of the server's  *)
(* own requests; no asker hears of it (server.go:623-626).                 *)
ProcessLocalState(w) ==
    /\ jobs[w] # None
    /\ jobs[w].pc = "local"
    /\ finish(w)
    /\ UNCHANGED <<proxyEnable, sr, srOpen, connected, connStorage, proxyCache, listening>>
    /\ UNCHANGED <<peerVars, netVars, auxVars>>

-----------------------------------------------------------------------------
(* The peers.                                                              *)

quiet ==
    /\ listening = None
    /\ \A w \in Worker : jobs[w] = None
    /\ toProxy = {} /\ toTarget = {} /\ toAsker = {}
    /\ srOpen

(* sendCON of an asker: the first attempt, or another after a timeout,     *)
(* which is longer than anything here takes.                               *)
Ask(a) ==
    /\ answer[a] = None
    /\ attempts[a] < MaxAttempts
    /\ attempts[a] > 0 => quiet
    /\ a \in TcpPeer => a \in connected
    /\ attempts' = [attempts EXCEPT ![a] = @ + 1]
    /\ toProxy' = toProxy \cup {[kind |-> "request", from |-> a, token |-> request[a].token,
                                 target |-> request[a].target, host |-> request[a].host]}
    /\ UNCHANGED <<serverVars, request, answer, repeats, answered, toTarget, toAsker, auxVars>>

(* The asker takes what has its token, and ends with it.                   *)
ReceiveAnswer ==
    /\ \E m \in toAsker :
          /\ toAsker' = toAsker \ {m}
          /\ answer' = IF answer[m.to] = None /\ m.msg.token = request[m.to].token
                       THEN [answer EXCEPT ![m.to] = m.msg] ELSE answer
    /\ UNCHANGED <<serverVars, request, attempts, repeats, answered, toProxy, toTarget, auxVars>>

(* A target answers.  One that runs this library drops a request that it   *)
(* has answered (server.go:520-522); others answer it again.               *)
TargetAnswers ==
    /\ \E m \in toTarget :
          /\ toTarget' = toTarget \ {m}
          /\ answered' = answered \cup {<<m.to, m.token>>}
          /\ toProxy' = IF \/ <<m.to, m.token>> \in answered /\ ~repeats
                           \/ m.to \in TcpPeer \ connected
                        THEN toProxy
                        ELSE toProxy \cup {[kind |-> "answer", from |-> m.to, token |-> m.token]}
    /\ UNCHANGED <<serverVars, request, attempts, answer, repeats, toAsker, auxVars>>

-----------------------------------------------------------------------------
(* What goes wrong.                                                        *)

Lose ==
    /\ mishap
    /\ UNCHANGED strays
    /\ \/ /\ \E m \in toProxy : m.from \notin TcpPeer /\ toProxy' = toProxy \ {m}
          /\ UNCHANGED <<toTarget, toAsker>>
       \/ /\ \E m \in toTarget : m.to \notin TcpPeer /\ toTarget' = toTarget \ {m}
          /\ UNCHANGED <<toProxy, toAsker>>
       \/ /\ \E m \in toAsker : m.to \notin TcpPeer /\ toAsker' = toAsker \ {m}
          /\ UNCHANGED <<toProxy, toTarget>>
    /\ UNCHANGED <<serverVars, peerVars>>

(* Refresh closes the socket, which ends its listenLoop, and then replaces *)
(* s.sr and starts another (server.go:197-226).  A loop that still holds a *)
(* datagram goes on beside the new one: that is Lifecycle's, not shown     *)
(* here.                                                                   *)
RefreshCloses ==
    /\ mishap
    /\ UNCHANGED strays
    /\ srOpen
    /\ listening = None
    /\ srOpen' = FALSE
    /\ UNCHANGED <<proxyEnable, sr, connected, connStorage, proxyCache, listening, jobs>>
    /\ UNCHANGED <<peerVars, netVars>>

RefreshOpens ==
    /\ ~srOpen
    /\ srOpen' = TRUE
    /\ sr' = sr + 1
    /\ UNCHANGED <<proxyEnable, connected, connStorage, proxyCache, listening, jobs>>
    /\ UNCHANGED <<peerVars, netVars, auxVars>>

(* A note lives for a minute, a stored connection for three without a      *)
(* frame (server.go:57, transport.go:17).                                  *)
NoteExpires ==
    /\ mishap
    /\ UNCHANGED strays
    /\ \E key \in Token \X Host :
          /\ proxyCache[key] # None
          /\ proxyCache' = [proxyCache EXCEPT ![key] = None]
    /\ UNCHANGED <<proxyEnable, sr, srOpen, connected, connStorage, listening, jobs>>
    /\ UNCHANGED <<peerVars, netVars>>

ConnectionExpires ==
    /\ mishap
    /\ UNCHANGED strays
    /\ \E p \in connStorage : connStorage' = connStorage \ {p}
    /\ UNCHANGED <<proxyEnable, sr, srOpen, connected, proxyCache, listening, jobs>>
    /\ UNCHANGED <<peerVars, netVars>>

(* A peer closes its connection; HandleTCPConn returns, and its deferred   *)
(* function takes the connection out of the store (server.go:130-133).     *)
ConnectionCloses ==
    /\ mishap
    /\ UNCHANGED strays
    /\ \E p \in connected :
          /\ connected' = connected \ {p}
          /\ toProxy' = {m \in toProxy : m.from # p}
          /\ toTarget' = {m \in toTarget : m.to # p}
          /\ toAsker' = {m \in toAsker : m.to # p}
    /\ UNCHANGED <<proxyEnable, sr, srOpen, connStorage, proxyCache, listening, jobs, peerVars>>

DeleteTCP ==
    /\ connStorage \ connected # {}
    /\ connStorage' = connStorage \cap connected
    /\ UNCHANGED <<proxyEnable, sr, srOpen, connected, proxyCache, listening, jobs>>
    /\ UNCHANGED <<peerVars, netVars, auxVars>>

-----------------------------------------------------------------------------
serverStep ==
    \/ ReadDatagram
    \/ AcquireSlot
    \/ ReadTcpFrame
    \/ \E w \in Worker : Forward(w) \/ StoreNote(w) \/ ProcessLocalState(w)
    \/ RefreshOpens
    \/ DeleteTCP

ProxyNext ==
    \/ serverStep
    \/ \E a \in Asker : Ask(a)
    \/ ReceiveAnswer
    \/ TargetAnswers
    \/ Lose
    \/ RefreshCloses
    \/ NoteExpires
    \/ ConnectionExpires
    \/ ConnectionCloses

ProxySpec == ProxyInit /\ [][ProxyNext]_proxyVars

(* What is not lost arrives, the server's goroutines run, its connections' *)
(* deferred functions too, and an asker's timeout runs out.                *)
ProxyFairSpec ==
    /\ ProxySpec
    /\ WF_proxyVars(ReadDatagram)
    /\ WF_proxyVars(AcquireSlot)
    /\ WF_proxyVars(ReadTcpFrame)
    /\ \A w \in Worker : WF_proxyVars(Forward(w) \/ StoreNote(w) \/ ProcessLocalState(w))
    /\ WF_proxyVars(RefreshOpens)
    /\ WF_proxyVars(DeleteTCP)
    /\ WF_proxyVars(TargetAnswers)
    /\ WF_proxyVars(ReceiveAnswer)
    /\ \A a \in Asker : WF_proxyVars(Ask(a))

-----------------------------------------------------------------------------
(* The asker takes any answer with its token for its own, so the notes     *)
(* must keep two askers apart that happened on the same token: what the    *)
(* proxy sends an asker answers that asker's request and comes from the    *)
(* target that it asked (server.go:158, 577, 607).                         *)
AnswerToAsker ==
    \A m \in toAsker : m.msg.token = request[m.to].token /\ m.msg.from = request[m.to].target

(* The loop that waits for a slot gets one: no error on the way of a       *)
(* forward keeps the slot (server.go:584-591).                             *)
LoopGoesOn == (listening # None) ~> (listening = None)

gone(p) == p \in TcpPeer /\ p \notin connected \cap connStorage

overtaken(a) == Cardinality(strays \cap {<<request[a].token, request[a].target>>})

(* Where the proxy cannot help: the Proxy-URI names its target, so that no *)
(* answer finds the note; the peer at one end has no connection that the   *)
(* server still finds; every attempt failed - a Refresh costs up to two,   *)
(* for an answer may still meet the note of the attempt before it, another *)
(* mishap one, and an answer without a note one - and a target that        *)
(* answers once allows no second attempt.                                  *)
beyondHelp(a) ==
    \/ request[a].host = "name"
    \/ gone(request[a].target)
    \/ a \in TcpPeer \ connected
    \/ IF repeats THEN 2 * mishaps + overtaken(a) >= MaxAttempts ELSE mishaps + overtaken(a) > 0

(* An asker that asks again is answered in the end, whatever the order in  *)
(* which the answer and the note come, and although a datagram is lost, a  *)
(* note expires or the server is refreshed (server.go:197-226, 602-607).   *)
Repaired ==
    \A a \in Asker : proxyEnable => <>(answer[a] # None \/ beyondHelp(a))
=============================================================================
