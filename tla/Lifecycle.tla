------------------------------ MODULE Lifecycle ------------------------------
(***************************************************************************)
(* The life of a server's sockets: Listen, ListenTCP, Refresh and Close    *)
(* called from different goroutines, and the listenLoop goroutines that    *)
(* read from s.sr.conn.  srMu makes Refresh and Close atomic; listenLoop   *)
(* reads s.sr without it.                                                  *)
(*                                                                         *)
(* The operating system (external) lets one open socket of a kind be bound *)
(* to the address s.addr.                                                  *)
(***************************************************************************)
EXTENDS Integers, FiniteSets

CONSTANTS UseUDP, UseTCP,   \* which of Listen and ListenTCP the program calls
          MaxRefreshes,     \* bound on the calls of Refresh
          BindMayFail,      \* TRUE: another process may hold the address
          CloseCalled,      \* TRUE: the program calls Close
          NoSocket

ASSUME LifecycleAssumption ==
    /\ {UseUDP, UseTCP, BindMayFail, CloseCalled} \subseteq BOOLEAN
    /\ MaxRefreshes \in Nat
    /\ NoSocket \notin Nat

Socket == 0 .. MaxRefreshes + 1     \* 0 for Listen, 1 for ListenTCP, then Refresh's
Loop   == 0 .. MaxRefreshes         \* 0 is Listen's listenLoop, then Refresh's

VARIABLES sr,          \* s.sr.conn, or NoSocket
          tcpLn,       \* s.tcpLn, or NoSocket
          open,        \* the open sockets
          tcpSockets,  \* those of them, open or closed, that are TCP listeners
          listen,      \* Listen: "idle", "bound", "running", "returned"
          listenTCP,   \* ListenTCP: the same
          lpc, lconn,  \* the listenLoops: where they are, what they read from
          refreshes,   \* calls of Refresh so far
          refreshed,   \* the last one: nil, or who holds the address
          closed       \* closeOnce has been used

lifecycleVars == <<sr, tcpLn, open, tcpSockets, listen, listenTCP, lpc, lconn,
                   refreshes, refreshed, closed>>

LifecycleTypeOK ==
    /\ sr \in Socket \cup {NoSocket}
    /\ tcpLn \in {1, NoSocket}
    /\ open \in SUBSET Socket
    /\ tcpSockets \in SUBSET Socket
    /\ listen \in {"idle", "bound", "running", "returned"}
    /\ listenTCP \in {"idle", "bound", "running", "returned"}
    /\ lpc \in [Loop -> {"none", "top", "reading", "handling", "ended"}]
    /\ lconn \in [Loop -> Socket \cup {NoSocket}]
    /\ \A l \in Loop : lpc[l] = "reading" => lconn[l] # NoSocket
    /\ refreshes \in 0 .. MaxRefreshes
    /\ refreshed \in {"none", "ok", "inUse", "taken"}
    /\ closed \in BOOLEAN

LifecycleInit ==
    /\ sr = NoSocket
    /\ tcpLn = NoSocket
    /\ open = {}
    /\ tcpSockets = {}
    /\ listen = "idle"
    /\ listenTCP = "idle"
    /\ lpc = [l \in Loop |-> "none"]
    /\ lconn = [l \in Loop |-> NoSocket]
    /\ refreshes = 0
    /\ refreshed = "none"
    /\ closed = FALSE

-----------------------------------------------------------------------------
(* May a socket of that kind be bound, with the sockets in others open?    *)
free(others, tcp) ==
    IF tcp THEN others \cap tcpSockets = {} ELSE others \subseteq tcpSockets

(* Listen: newListener, then s.sr is set and the loop entered.             *)
ListenBind ==
    /\ UseUDP
    /\ listen = "idle"
    /\ \/ /\ free(open, FALSE)
          /\ open' = open \cup {0}
          /\ listen' = "bound"
       \/ /\ ~free(open, FALSE) \/ BindMayFail
          /\ listen' = "returned"
          /\ UNCHANGED open
    /\ UNCHANGED <<sr, tcpLn, tcpSockets, listenTCP, lpc, lconn, refreshes, refreshed, closed>>

ListenStart_SrNotSet ==
    /\ listen = "bound"
    /\ listen' = "running"
    /\ lpc' = [lpc EXCEPT ![0] = "top"]
    /\ UNCHANGED <<sr, tcpLn, open, tcpSockets, listenTCP, lconn, refreshes, refreshed, closed>>

ListenStart ==
    /\ listen = "bound"
    /\ listen' = "running"
    /\ sr' = 0
    /\ lpc' = [lpc EXCEPT ![0] = "top"]
    /\ UNCHANGED <<tcpLn, open, tcpSockets, listenTCP, lconn, refreshes, refreshed, closed>>

(* listenTCP: the accept loop is not a listenLoop, and never sets s.sr.    *)
ListenTCPBind ==
    /\ UseTCP
    /\ listenTCP = "idle"
    /\ \/ /\ free(open, TRUE)
          /\ open' = open \cup {1}
          /\ tcpSockets' = tcpSockets \cup {1}
          /\ listenTCP' = "bound"
       \/ /\ ~free(open, TRUE) \/ BindMayFail
          /\ listenTCP' = "returned"
          /\ UNCHANGED <<open, tcpSockets>>
    /\ UNCHANGED <<sr, tcpLn, listen, lpc, lconn, refreshes, refreshed, closed>>

ListenTCPStart ==
    /\ listenTCP = "bound"
    /\ listenTCP' = "running"
    /\ tcpLn' = 1
    /\ UNCHANGED <<sr, open, tcpSockets, listen, lpc, lconn, refreshes, refreshed, closed>>

(* Accept fails with "use of closed network connection".                   *)
AcceptEnds ==
    /\ listenTCP = "running"
    /\ 1 \notin open
    /\ listenTCP' = "returned"
    /\ UNCHANGED <<sr, tcpLn, open, tcpSockets, listen, lpc, lconn, refreshes, refreshed, closed>>

-----------------------------------------------------------------------------
(* listenLoop: evaluate s.sr.conn and block in its Listen.                 *)
LoopTop(l) ==
    /\ lpc[l] = "top"
    /\ lpc' = [lpc EXCEPT ![l] = "reading"]
    /\ lconn' = [lconn EXCEPT ![l] = sr]
    /\ UNCHANGED <<sr, tcpLn, open, tcpSockets, listen, listenTCP, refreshes, refreshed, closed>>

(* A datagram (which it may be busy with: the semaphore is full), or an    *)
(* error that is not the closing of the socket.                            *)
LoopRead(l) ==
    /\ lpc[l] = "reading"
    /\ lconn[l] \in open
    /\ lpc' = [lpc EXCEPT ![l] = "handling"]
    /\ UNCHANGED <<sr, tcpLn, open, tcpSockets, listen, listenTCP, lconn, refreshes, refreshed,
                   closed>>

LoopHandled(l) ==
    /\ lpc[l] = "handling"
    /\ lpc' = [lpc EXCEPT ![l] = "top"]
    /\ UNCHANGED <<sr, tcpLn, open, tcpSockets, listen, listenTCP, lconn, refreshes, refreshed,
                   closed>>

(* The socket it reads from was closed; Listen's loop ends Listen.         *)
LoopEnds_KeepsReading(l) ==
    /\ lpc[l] = "reading"
    /\ lconn[l] \notin open
    /\ UNCHANGED lifecycleVars

LoopEnds(l) ==
    /\ lpc[l] = "reading"
    /\ lconn[l] \notin open
    /\ lpc' = [lpc EXCEPT ![l] = "ended"]
    /\ listen' = IF l = 0 THEN "returned" ELSE listen
    /\ UNCHANGED <<sr, tcpLn, open, tcpSockets, listenTCP, lconn, refreshes, refreshed, closed>>

-----------------------------------------------------------------------------
(* What is open once the socket s.sr holds has been closed.                *)
closeOld_Skipped == open

closeOld == open \ {sr}

startLoop_Forgotten(l) == UNCHANGED lpc

startLoop(l) == lpc' = [lpc EXCEPT ![l] = "top"]

(* Refresh.  s.addr and connectionType are set as soon as Listen or        *)
(* ListenTCP has begun.                                                    *)
AddrSet == listen # "idle" \/ listenTCP # "idle"
IsTCP   == listenTCP # "idle"

Refresh ==
    /\ AddrSet
    /\ refreshes < MaxRefreshes
    /\ refreshes' = refreshes + 1
    /\ LET s == refreshes + 2
           others == closeOld
       IN  \/ /\ free(others, IsTCP)
              /\ open' = others \cup {s}
              /\ tcpSockets' = IF IsTCP THEN tcpSockets \cup {s} ELSE tcpSockets
              /\ sr' = s
              /\ startLoop(refreshes')
              /\ refreshed' = "ok"
           \/ /\ ~free(others, IsTCP) \/ BindMayFail
              /\ open' = others
              /\ refreshed' = IF free(others, IsTCP) THEN "taken" ELSE "inUse"
              /\ UNCHANGED <<sr, tcpSockets, lpc>>
    /\ UNCHANGED <<tcpLn, listen, listenTCP, lconn, closed>>

(* Close: its first call closes both sockets, later ones do nothing.       *)
Close ==
    /\ CloseCalled
    /\ ~closed
    /\ closed' = TRUE
    /\ open' = open \ {sr, tcpLn}
    /\ UNCHANGED <<sr, tcpLn, tcpSockets, listen, listenTCP, lpc, lconn, refreshes, refreshed>>

loopStep(l) == LoopTop(l) \/ LoopRead(l) \/ LoopHandled(l) \/ LoopEnds(l)

LifecycleNext ==
    \/ ListenBind \/ ListenStart
    \/ ListenTCPBind \/ ListenTCPStart \/ AcceptEnds
    \/ \E l \in Loop : loopStep(l)
    \/ Refresh \/ Close

LifecycleSpec == LifecycleInit /\ [][LifecycleNext]_lifecycleVars

(* Goroutines run, and a read from a closed socket fails; nobody owes the  *)
(* server a datagram, or a call of Refresh or Close.                       *)
LifecycleFairSpec ==
    /\ LifecycleSpec
    /\ WF_lifecycleVars(ListenStart)
    /\ WF_lifecycleVars(ListenTCPStart)
    /\ WF_lifecycleVars(AcceptEnds)
    /\ \A l \in Loop : WF_lifecycleVars(LoopTop(l) \/ LoopHandled(l) \/ LoopEnds(l))

-----------------------------------------------------------------------------
(* Is loop l going to read from the current socket?                        *)
Serves(l) == lpc[l] \in {"top", "handling"} \/ (lpc[l] = "reading" /\ lconn[l] = sr)

(* The server is never deaf: whatever Refresh and Close did to the sockets *)
(* under a running listenLoop, an open current socket has a loop that      *)
(* reads from it (server.go:222 and the exit at server.go:557-560).        *)
NeverDeaf == sr \in open => \E l \in Loop : Serves(l)

(* No UDP server forgets a socket: an open one is s.sr.conn, or is about   *)
(* to be stored there by Listen, so Close can still close it               *)
(* (server.go:203-207).  With ListenTCP on the same Server a Refresh in    *)
(* between can leave one behind.                                           *)
NoSocketForgotten ==
    listenTCP = "idle" => open \subseteq ({sr} \cup (IF listen = "bound" THEN {0} ELSE {}))

(* Refresh of a running UDP server is not kept from its address by the     *)
(* server's own sockets, however often it is refreshed (server.go:203-216, *)
(* README.md:146).  On a TCP server it is: see the README.                 *)
RefreshRecreates ==
    [][refreshes' # refreshes /\ listen = "running" /\ listenTCP = "idle"
          => refreshed' # "inUse"]_lifecycleVars

(* A loop whose sockets are gone ends: no goroutine keeps spinning on a    *)
(* closed socket (server.go:229-234, "listenLoop() ... will end by itself" *)
(* and TestServerClose_StopsListenLoop).                                   *)
LoopsEnd == (open = {} ~> (open # {} \/ \A l \in Loop : lpc[l] \in {"none", "ended"}))
=============================================================================
