------------------------------ MODULE MCEventBus ------------------------------
(* Instances of EventBus for TLC.                                            *)
EXTENDS EventBus

CONSTANTS p1, p2

MCEmitters == {p1, p2}
=============================================================================
