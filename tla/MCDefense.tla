------------------------------ MODULE MCDefense ------------------------------
(* An instance of Defense for TLC: an IPv4 attacker, the whitelisted        *)
(* management host and an IPv6 attacker.                                    *)
EXTENDS Defense

CONSTANTS p1, p2, host, mgmt, v6host

MCEmitters == {p1, p2}
MCSources == {host, mgmt, v6host}
MCForm == [s \in MCSources |-> IF s = v6host THEN "v6" ELSE "v4"]
MCWhitelist == {mgmt}
MCTypes == {"auth_attempt"}
=============================================================================
