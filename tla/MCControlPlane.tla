--------------------------- MODULE MCControlPlane ---------------------------
(* Instances of ControlPlane for TLC.                                        *)
EXTENDS ControlPlane, TLC

CONSTANTS c1, c2

MCConns == {c1, c2}

\* root; an analyst in the operators' group; somebody without a role.
MCPeers == {[uid |-> 0, gid |-> 0], [uid |-> 1000, gid |-> 100], [uid |-> 1001, gid |-> 200]}
MCRoot == {[uid |-> 0, gid |-> 0]}
MCRoles == << [uids |-> {1000}, gids |-> {}, allow |-> {"status", "logs"}],
              [uids |-> {}, gids |-> {100}, allow |-> {"services.*", "config.validate"}] >>

MCOps == {"status", "config.set", "config.validate", "service.restart", "services.stop"}
MCSet == {"config.set"}

\* A profile, services, a profile that does not exist, and nothing.
MCPatches == {"profile" :> 2, "services" :> 2, "profile" :> 3, <<>>}
MCInitial == [f \in Fields |-> 1]
MCKnown == {1, 2}
=============================================================================
