---------------------------- MODULE Confirmable ----------------------------
(***************************************************************************)
(* A confirmable request that fits into one datagram, end to end: the      *)
(* client's sendCON loop against the server of Exchange (NumBlocks = 1).   *)
(* The response fits into one datagram too.                                *)
(***************************************************************************)
EXTENDS Exchange

CONSTANTS MaxSendAttempts,   \* maxSendAttempts (6)
          SocketMayFail      \* TRUE: a socket read or write may return an error

ASSUME ConfirmableAssumption ==
    /\ NumBlocks = 1
    /\ MaxSendAttempts \in Nat \ {0}
    /\ SocketMayFail \in BOOLEAN

VARIABLES attempts,   \* sendCON's attempts
          status,     \* "idle", "waiting", "done", "failed"
          split       \* history: has a step of Splits been taken?

conVars == <<attempts, status>>
confirmableVars == <<conVars, split, exchangeVars>>

ConfirmableTypeOK ==
    /\ ExchangeTypeOK
    /\ attempts \in 0 .. MaxSendAttempts
    /\ status \in {"idle", "waiting", "done", "failed"}
    /\ split \in BOOLEAN

ConfirmableInit ==
    /\ ExchangeInit
    /\ attempts = 0
    /\ status = "idle"
    /\ split = FALSE

-----------------------------------------------------------------------------
(* One turn of the loop up to the read: the request is written, or the     *)
(* write fails and sendCON returns its error.                              *)
write ==
    /\ attempts' = attempts + 1
    /\ \/ /\ status' = "waiting"
          /\ toServer' = toServer \cup Block
       \/ /\ SocketMayFail
          /\ status' = "failed"
          /\ UNCHANGED toServer

FirstSend ==
    /\ status = "idle"
    /\ write
    /\ UNCHANGED <<split, toClient, serverVars, faultVars, response>>

LastAttempt == attempts = MaxSendAttempts

(* The read timed out: try again, or give up after the last attempt.       *)
Retry_Forever ==
    /\ status = "waiting"
    /\ TimeoutPossible
    /\ toServer' = toServer \cup Block
    /\ UNCHANGED <<conVars, split, toClient, serverVars, faultVars, response>>

Retry ==
    /\ status = "waiting"
    /\ TimeoutPossible
    /\ \/ /\ ~LastAttempt
          /\ write
       \/ /\ LastAttempt
          /\ status' = "failed"
          /\ UNCHANGED <<attempts, toServer>>
    /\ UNCHANGED <<split, toClient, serverVars, faultVars, response>>

ReadError ==
    /\ SocketMayFail
    /\ status = "waiting"
    /\ status' = "failed"
    /\ UNCHANGED <<attempts, split, exchangeVars>>

Receive(m) ==
    /\ status = "waiting"
    /\ m.code \in Codes
    /\ TakeFrom(toClient, toClient', m)
    /\ status' = "done"
    /\ response' = m.code
    /\ UNCHANGED <<attempts, split, toServer, serverVars, losses>>

receive == \E m \in toClient : Receive(m)

-----------------------------------------------------------------------------
(* The server's check of ProcessedMessages and its LoadOrStore are three   *)
(* accesses to the caches (server.go:520-523, storage.go:79-90), its       *)
(* Delete and Set are two (localstate.go:68-71).  A goroutine w loses the  *)
(* entry it is about to load, or another one's entry comes under its       *)
(* Store;                                                                  *)
CacheMovesUnder(w) ==
    /\ wpc'[w] = wpc[w]
    /\ \/ wpc[w] = "load" /\ storage # None /\ storage' = None
       \/ wpc[w] = "store" /\ storage' # storage

(* or its check passes when the entry is deleted and the key not yet set.  *)
PassesBetween(w) ==
    /\ wpc[w] = "check" /\ wpc'[w] = "load"
    /\ \E l \in State : stage[l] = "mark"

(* With these and an entry that expires, one cause of every second run is  *)
(* named.                                                                  *)
Splits ==
    \/ \E w \in Worker : CacheMovesUnder(w) \/ PassesBetween(w)
    \/ expireState
    \/ expireProcessed

serve ==
    /\ serverStep
    /\ split' = (split \/ Splits)
    /\ UNCHANGED conVars

ConfirmableNext ==
    \/ FirstSend
    \/ Retry
    \/ ReadError
    \/ receive
    \/ UNCHANGED <<conVars, split>> /\ (\E w \in Worker, b \in toServer : Deliver(w, b))
    \/ UNCHANGED <<conVars, split>> /\ Lose
    \/ serve

ConfirmableSpec == ConfirmableInit /\ [][ConfirmableNext]_confirmableVars

(* The caller's goroutine runs and its read deadline fires; the server's   *)
(* goroutines run and the handler returns; the network owes nothing.       *)
ConfirmableFairness ==
    /\ WF_confirmableVars(FirstSend)
    /\ WF_confirmableVars(Retry)
    /\ WF_confirmableVars(serve)

ConfirmableFairSpec == ConfirmableSpec /\ ConfirmableFairness

-----------------------------------------------------------------------------
Outcome ==
    CASE status \in {"idle", "waiting"} -> "pending"
      [] status = "failed"              -> "error"
      [] status = "done"                -> IF response = "Response" THEN "ok" ELSE "notFound"

Contract == INSTANCE RequestContract WITH Payload <- Block, outcome <- Outcome

(* A request in one datagram keeps the contract of a request, on a network *)
(* that loses, repeats and reorders datagrams and with caches that expire. *)
ImplementsContract == Contract!ContractSpec

(* The handler runs exactly once (localstate.go:56-62), that is never      *)
(* twice, however often the request is sent, repeated or delayed and       *)
(* however many goroutines have it in hand: unless one of them comes       *)
(* between two cache accesses of another, in one of the ways that Splits   *)
(* names, or an entry expires.                                             *)
HandledOnceUnlessSplit == ~split => Len(runs) <= 1

(* sendCON always returns: unlike an upload it counts every attempt        *)
(* (transport.go:126 and 136).                                             *)
ClientReturns == <>(status \in {"done", "failed"})
=============================================================================
