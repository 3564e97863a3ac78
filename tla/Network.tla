------------------------------ MODULE Network ------------------------------
(* UDP between one client and one server: the datagrams in flight in each  *)
(* direction, delivered in any order, perhaps twice, perhaps never.        *)
EXTENDS Integers

CONSTANTS MaxDup,       \* bound on the datagrams delivered twice
          MaxLosses,    \* bound on the datagrams lost
          Timely        \* TRUE: timeWait exceeds the round trip and the handler

ASSUME NetworkAssumption ==
    /\ MaxDup \in Nat
    /\ MaxLosses \in Nat
    /\ Timely \in BOOLEAN

VARIABLES toServer, toClient,   \* datagrams in flight
          dups, losses          \* the budgets used so far

netVars   == <<toServer, toClient>>
faultVars == <<dups, losses>>

FaultTypeOK ==
    /\ dups \in 0 .. MaxDup
    /\ losses \in 0 .. MaxLosses

NetworkInit ==
    /\ toServer = {}
    /\ toClient = {}
    /\ dups = 0
    /\ losses = 0

(* m is delivered out of flight, which becomes flight_: a duplicate of m   *)
(* may stay behind.                                                        *)
TakeFrom(flight, flight_, m) ==
    /\ m \in flight
    /\ \/ /\ flight_ = flight \ {m}
          /\ UNCHANGED dups
       \/ /\ dups < MaxDup
          /\ flight_ = flight
          /\ dups' = dups + 1

(* A datagram to the server, or one of lossy to the client, disappears.    *)
LoseDatagram(lossy) ==
    /\ losses < MaxLosses
    /\ losses' = losses + 1
    /\ \/ /\ \E m \in toServer : toServer' = toServer \ {m}
          /\ UNCHANGED toClient
       \/ /\ \E m \in toClient \cap lossy : toClient' = toClient \ {m}
          /\ UNCHANGED toServer
    /\ UNCHANGED dups
=============================================================================
