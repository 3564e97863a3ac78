------------------------------ MODULE Routing ------------------------------
(***************************************************************************)
(* Which resource a request is for: the path and the method it carries     *)
(* (message.go), the resources of a server by path and method (resource.go *)
(* and server.go), and what a request without one gets (layerRequest.go).  *)
(***************************************************************************)
EXTENDS Codec

Space == 32

(* strings.Trim(path, "/ ")                                                *)
trim(path) ==
    LET kept == {i \in DOMAIN path : path[i] \notin {Slash, Space}}
    IN  IF kept = {} THEN <<>> ELSE SubSeq(path, Min(kept), Max(kept))

(* The URI-Path options, joined again (message.go:431-435).                *)
GetURIPath(options) ==
    LET names == GetOptions(options, URIPath)
    IN  IF names = <<>> THEN <<Slash>>
        ELSE FlattenSeq([i \in DOMAIN names |-> <<Slash>> \o names[i].value.s])

(* The codes of the methods, and the methods a resource is registered for  *)
(* (constants.go:38-53), which are numbered in another order.              *)
GET    == 1
POST   == 2
PUT    == 3
DELETE == 4

CoapMethodGet    == 1
CoapMethodPut    == 2
CoapMethodPost   == 3
CoapMethodDelete == 4

(* Mutant: the code of a request is taken for its method.                  *)
GetMethod_Code(code) == IF code <= 4 THEN code ELSE 0

(* message.go:396-409 *)
GetMethod(code) ==
    IF code = GET THEN CoapMethodGet
    ELSE IF code = POST THEN CoapMethodPost
    ELSE IF code = PUT THEN CoapMethodPut
    ELSE IF code = DELETE THEN CoapMethodDelete
    ELSE 0

(* Server.GET, POST, PUT and DELETE; a resource is stored under its path   *)
(* and the digit of its method (server.go:265-279 and 533-536).            *)
resourceKey(path, method) == Append(trim(path), 48 + method)

Wildcard == 42

(* The key of the resource found, or <<>>: one registered for "*" hides    *)
(* all others of its method (server.go:538-548).                           *)
getResourceForPathAndMethod(keys, path, method) ==
    CASE <<Wildcard, 48 + method>> \in keys  -> <<Wildcard, 48 + method>>
      [] <<Wildcard, 48 + method>> \notin keys /\ resourceKey(path, method) \in keys
                                             -> resourceKey(path, method)
      [] OTHER                               -> <<>>

(* What respHandler does with a request, given as its message: call the    *)
(* resource, or answer a CON without one 4.04.  A resource is found by     *)
(* method, so methodNotAllowed is never reached (localstate.go:82,         *)
(* layerRequest.go:3-34).                                                  *)
requestOnReceive(keys, msg) ==
    LET key == getResourceForPathAndMethod(keys, GetURIPath(msg.options), GetMethod(msg.code))
    IN  IF msg.code > 4 THEN [reply |-> "ignored", key |-> <<>>]
        ELSE IF msg.type = 0 /\ msg.code = 0 THEN [reply |-> "ping", key |-> <<>>]
        ELSE IF key = <<>> THEN [reply |-> "NotFound", key |-> <<>>]
        ELSE [reply |-> "handler", key |-> key]
=============================================================================
