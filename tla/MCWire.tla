------------------------------- MODULE MCWire -------------------------------
(***************************************************************************)
(* Wire and TcpStream on small instances, one or the other in a behaviour. *)
(***************************************************************************)
EXTENDS Wire, TcpStream

bytes(n, b) == [i \in 1..n |-> b]

(* Every boundary of the option header: deltas from 0 to 4006, and values  *)
(* of 12, 13, 268 and 269 bytes; a decoded and an unknown option of each   *)
(* class; integers at the edge of one and of two bytes.                    *)
MCStrings ==
    {[code |-> URIHost, s |-> bytes(12, 1)], [code |-> URIHost, s |-> bytes(13, 1)],
     [code |-> URIQuery, s |-> bytes(268, 255)], [code |-> URIQuery, s |-> bytes(269, 2)],
     [code |-> Etag, s |-> <<>>], [code |-> IfMatch, s |-> <<3>>],
     [code |-> 2000, s |-> <<4>>]}
MCInts ==
    {[code |-> Observe, n |-> 0], [code |-> MaxAge, n |-> 255], [code |-> MaxAge, n |-> 256],
     [code |-> Size1, n |-> 65535], [code |-> WindowSize, n |-> 65536],
     [code |-> URIScheme, n |-> COAP_SCHEME]}
MCPaths    == {<<98, Slash, Slash, 97>>, <<Slash, 97, Space>>}
MCCodes    == {POST, PUT}

(* Resources for the paths asked for and for none of them, of both methods *)
(* and for "*".                                                            *)
MCRegistered ==
    {{[method |-> CoapMethodPost, path |-> <<Slash, 98, Slash, 97>>],
      [method |-> CoapMethodPost, path |-> <<>>],
      [method |-> CoapMethodPut, path |-> <<97, Slash>>]},
     {[method |-> CoapMethodPost, path |-> <<98, Slash, Slash, 97>>],
      [method |-> CoapMethodPost, path |-> <<Wildcard>>],
      [method |-> CoapMethodPut, path |-> <<98, Slash, Slash, 97>>]}}
MCTokens   == {bytes(8, 64), bytes(9, 64)}
MCPayloads == {<<255, 0>>}

(* Frames of 13, 12, 269, 268 and 18 bytes, and one of 409: nine bytes of  *)
(* each are header, token, option and payload marker.  The buffer takes    *)
(* 269, so the third frame just fits and the last does not.                *)
MCSizes == <<4, 3, 260, 259, 9, 400>>

MCInit == WireInit /\ StreamInit

streamStarted == prefixSent \/ written > 0 \/ closed # {}

wireStep == ~streamStarted /\ WireNext /\ UNCHANGED streamVars
streamStep == calls = 0 /\ at = "application" /\ StreamNext /\ UNCHANGED wireVars

MCSpec == MCInit /\ [][wireStep \/ streamStep]_<<wireVars, streamVars>>
=============================================================================
