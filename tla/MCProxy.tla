------------------------------ MODULE MCProxy ------------------------------
(* Two askers and two targets, one of each over TCP: the askers share a    *)
(* token for different targets, or a target with different tokens, or one  *)
(* of them gives a name for its target.                                    *)
EXTENDS Proxy, TLC

CONSTANTS udpAsker, tcpAsker, udpTarget, tcpTarget, t1, t2

MCAsker   == {udpAsker, tcpAsker}
MCTarget  == {udpTarget, tcpTarget}
MCTcpPeer == {tcpAsker, tcpTarget}
MCToken   == {t1, t2}

ask(token, target) == [token |-> token, target |-> target, host |-> target]

MCRequests ==
    { (udpAsker :> ask(t1, tcpTarget)) @@ (tcpAsker :> ask(t1, udpTarget)),
      (udpAsker :> ask(t1, udpTarget)) @@ (tcpAsker :> ask(t2, udpTarget)),
      (udpAsker :> [ask(t1, udpTarget) EXCEPT !.host = "name"]) @@ (tcpAsker :> ask(t1, tcpTarget)) }
=============================================================================
