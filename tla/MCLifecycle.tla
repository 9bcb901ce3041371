----------------------------- MODULE MCLifecycle -----------------------------
(* Instances of Lifecycle for TLC: 22 is the SSH port, 445 a served decoy    *)
(* and 8080 a closed port.                                                   *)
EXTENDS Lifecycle

MCPorts == {22, 445, 8080}
MCClosed == <<8080>>
MCNoClosed == <<>>
MCNone == {}
MCPreserve == {22}
MCServed == {445}
=============================================================================
