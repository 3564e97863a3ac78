-------------------------------- MODULE Wire --------------------------------
(***************************************************************************)
(* A message on its way: an application builds it with the calls the API   *)
(* has, the transport sends it (transport.go:609-632), a proxy takes it    *)
(* over if the application asked for one, the receiver decodes it and      *)
(* looks for the resource it is for.                                       *)
(***************************************************************************)
EXTENDS Routing

CONSTANTS
    Strings,   \* the string options an application may add: {[code, s]}
    Ints,      \* the integer options: {[code, n]}
    Paths,     \* the paths given to SetURIPath
    Tokens,
    Payloads,
    Codes,     \* of a request: GET, POST, PUT, DELETE
    Registered,\* sets of resources a server may have: {[method, path]}
    MaxCalls   \* bound on the calls that build one message

(* What the code can write in its fields.  The checksum is the transport's *)
(* to add, not the application's (transport.go:609-632).                   *)
ASSUME WireAssumption ==
    /\ MaxCalls \in Nat
    /\ \A o \in Ints : /\ o.code \in (0 .. Max16) \ StringOptions
                       /\ o.n \in Nat /\ (o.n \div 256) \div 256 <= Max16
                       /\ o.code = URIScheme => o.n = COAP_SCHEME
    /\ \A o \in Strings : o.code \in (0 .. Max16) \ (IntOptions \cup {Checksum})
    /\ \A s \in {o.s : o \in Strings} \cup Paths : s \in Seq(Byte) /\ Len(s) <= Max16
    /\ \A t \in Tokens : t \in Seq(Byte) /\ Len(t) < 16
    /\ Payloads \subseteq Seq(Byte)
    /\ Codes \subseteq Byte

(* Which resource a request is for: it is one of the four, its path is set *)
(* with SetURIPath alone, and resources are registered for those methods.  *)
ASSUME RequestAssumption ==
    /\ Codes \subseteq {GET, POST, PUT, DELETE}
    /\ \A o \in Strings : o.code # URIPath
    /\ \A resources \in Registered : \A r \in resources :
          /\ r.method \in {CoapMethodGet, CoapMethodPost, CoapMethodPut, CoapMethodDelete}
          /\ r.path \in Seq(Byte)

VARIABLES
    message,            \* the message being built
    addChecksumOnSend,
    calls,              \* how many calls built it
    data,               \* the datagram in flight, <<>> when there is none
    at,                 \* who has it: "application", "network", "relayed", "receiver", "routed"
    received,           \* what the receiver's Deserialize returned
    asked,              \* the paths given to SetURIPath, one after another
    routed              \* the receiver's resources, and what requestOnReceive did
wireVars == <<message, addChecksumOnSend, calls, data, at, received, asked, routed>>

WireInit ==
    /\ message \in {[NewMessage(513) EXCEPT !.code = code] : code \in Codes}
    /\ addChecksumOnSend = FALSE
    /\ calls = 0
    /\ data = <<>>
    /\ at = "application"
    /\ received = refused("nothing")
    /\ asked = <<>>
    /\ routed = [resources |-> {}, reply |-> "none", key |-> <<>>]

-----------------------------------------------------------------------------
(* The calls.  A message has fewer options than insertion sorts, so that   *)
(* there is room for a checksum.                                           *)
built(next) ==
    /\ at = "application"
    /\ calls < MaxCalls
    /\ Len(next.options) < MaxSorted
    /\ calls' = calls + 1
    /\ message' = next
    /\ UNCHANGED <<data, at, received, routed>>

withOptions(options) ==
    built([message EXCEPT !.options = options]) /\ UNCHANGED addChecksumOnSend

AddStringOption ==
    \E o \in Strings : withOptions(AddOption(message.options, o.code, string(o.s))) /\ UNCHANGED asked

AddIntOption ==
    \E o \in Ints : withOptions(AddOption(message.options, o.code, int(o.n))) /\ UNCHANGED asked

CallSetURIPath ==
    \E path \in Paths :
        withOptions(SetURIPath(message.options, path)) /\ asked' = asked \o <<Slash>> \o path

CallRemoveOptions ==
    \E i \in DOMAIN message.options :
        /\ withOptions(RemoveOptions(message.options, message.options[i].code))
        /\ asked' = IF message.options[i].code = URIPath THEN <<>> ELSE asked

(* message.go:505-508; the request is sent to the proxy.                   *)
SetProxy ==
    withOptions(AddOption(message.options, ProxyURI, string(<<112>>))) /\ UNCHANGED asked

SetToken ==
    \E token \in Tokens :
        built([message EXCEPT !.token = token]) /\ UNCHANGED <<addChecksumOnSend, asked>>

SetStringPayload ==
    \E payload \in Payloads :
        built([message EXCEPT !.payload = payload]) /\ UNCHANGED <<addChecksumOnSend, asked>>

SetAddChecksumOnSend == addChecksumOnSend' = TRUE /\ built(message) /\ UNCHANGED asked

(* preparationSendingMessage works on a clone: the application's message   *)
(* stays as it is (transport.go:609-632).                                  *)
Send ==
    /\ at = "application"
    /\ data' = Serialize(IF addChecksumOnSend THEN applyChecksum(message) ELSE message)
    /\ at' = "network"
    /\ UNCHANGED <<message, addChecksumOnSend, calls, received, asked, routed>>

isProxied == HasOption(message.options, ProxyURI)

(* The proxy decodes the request and sends it on; one it cannot decode it  *)
(* drops (server.go:572-575 and 586-605).                                  *)
Relay ==
    /\ at = "network"
    /\ isProxied
    /\ LET read == Deserialize(data)
       IN  IF read.err = "none"
           THEN data' = relayed(read.msg) /\ UNCHANGED received
           ELSE data' = <<>> /\ received' = read
    /\ at' = "relayed"
    /\ UNCHANGED <<message, addChecksumOnSend, calls, asked, routed>>

Receive ==
    /\ at = (IF isProxied THEN "relayed" ELSE "network")
    /\ data # <<>>
    /\ received' = Deserialize(data)
    /\ at' = "receiver"
    /\ UNCHANGED <<message, addChecksumOnSend, calls, data, asked, routed>>

(* respHandler looks for the resource (localstate.go:82).                  *)
Route ==
    /\ at = "receiver"
    /\ received.err = "none"
    /\ \E resources \in Registered :
          LET found == requestOnReceive({resourceKey(r.path, r.method) : r \in resources}, received.msg)
          IN  routed' = [resources |-> resources, reply |-> found.reply, key |-> found.key]
    /\ at' = "routed"
    /\ UNCHANGED <<message, addChecksumOnSend, calls, data, received, asked>>

WireNext ==
    \/ AddStringOption
    \/ AddIntOption
    \/ CallSetURIPath
    \/ CallRemoveOptions
    \/ SetProxy
    \/ SetToken
    \/ SetStringPayload
    \/ SetAddChecksumOnSend
    \/ Send
    \/ Relay
    \/ Receive
    \/ Route

WireSpec == WireInit /\ [][WireNext]_wireVars

-----------------------------------------------------------------------------
isReceived == at = "receiver" \/ (at = "relayed" /\ data = <<>>)

values(msg, code) ==
    LET options == GetOptions(msg.options, code)
    IN  [i \in DOMAIN options |-> options[i].value]

unknownCodes == codesOf(message.options) \ DecodedOptions

(* What the receiver's getters return is what the application set: each    *)
(* option it may look for, with all its values in their order, the token   *)
(* and the payload - through the delta encoding, the extended headers, the *)
(* sort and, for a proxied request, a second encoding (message.go:86-286,  *)
(* common.go:29-63).                                                       *)
ReceivedAsBuilt ==
    isReceived /\ received.err = "none" =>
        /\ \A code \in DecodedOptions \ {ProxyURI, ProxyScheme, Checksum} :
              values(received.msg, code) = values(message, code)
        /\ received.msg.type = message.type
        /\ received.msg.code = message.code
        /\ received.msg.id = message.id
        /\ received.msg.token = message.token
        /\ received.msg.payload = message.payload

(* A message that the API lets an application build is refused for these   *)
(* reasons and no other: a token of more than eight bytes, a critical      *)
(* option the receiver does not decode (If-Match and If-None-Match are     *)
(* among them, although IsValidOption knows them) - or a checksum, when    *)
(* the bytes it was computed over are not the ones that arrive: the proxy  *)
(* took its own options out, or Deserialize left out an elective option it *)
(* does not know (server.go:599-600 and message.go:207-210 against         *)
(* message.go:339-356).                                                    *)
RefusedWithReason ==
    isReceived =>
        (received.err # "none" <=>
            \/ Len(message.token) > 8
            \/ \E code \in unknownCodes : critical(code)
            \/ addChecksumOnSend /\ (isProxied \/ unknownCodes # {}))

(* A request is for the path that was set, taken apart at its slashes,     *)
(* whatever stands for it on the wire; and a resource is registered for a  *)
(* path as it is written.                                                  *)
segments(path) ==
    LET part == parts(trim(path))
    IN  FlattenSeq([i \in DOMAIN part |-> IF part[i] = <<>> THEN <<>> ELSE <<part[i]>>])

isFor(r) ==
    \/ trim(r.path) = <<>> /\ trim(asked) = <<>>
    \/ trim(r.path) # <<>> /\ parts(trim(r.path)) = segments(asked)

methodOf == <<CoapMethodGet, CoapMethodPost, CoapMethodPut, CoapMethodDelete>>

(* A request reaches the resource that was registered for its method and   *)
(* path, with or without slashes and spaces around either, and no other    *)
(* one; unless a resource for "*" hides it, or its path was registered     *)
(* with an empty part inside, which SetURIPath takes out of every request  *)
(* (server.go:533-548 against message.go:431-435 and 518-526).             *)
RoutedAsRegistered ==
    at = "routed" =>
        LET candidates == {r \in routed.resources : r.method = methodOf[message.code]}
            hiding == {r \in candidates : trim(r.path) = <<Wildcard>>}
            meant  == IF hiding # {} THEN hiding ELSE {r \in candidates : isFor(r)}
        IN  /\ routed.reply = (IF meant = {} THEN "NotFound" ELSE "handler")
            /\ \A r \in meant : routed.key = resourceKey(r.path, r.method)
=============================================================================
