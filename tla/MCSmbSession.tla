---------------------------- MODULE MCSmbSession ----------------------------
(***************************************************************************)
(* SmbSession for TLC: a modern host that serves guests, a locked-down one *)
(* with SMBv1 still on, and an SMBv1-only host, the last also on port 139. *)
(***************************************************************************)
EXTENDS SmbSession

MCConfigs == {[maxDialect |-> 785, smb1 |-> FALSE, allowGuest |-> TRUE, nbss |-> FALSE],
              [maxDialect |-> 785, smb1 |-> TRUE, allowGuest |-> FALSE, nbss |-> FALSE],
              [maxDialect |-> 257, smb1 |-> TRUE, allowGuest |-> TRUE, nbss |-> TRUE]}

MCOffers == {{514}, {514, 528, 768, 770, 785}}

MCChildren == <<"a", "b">>
=============================================================================
