---------------------------- MODULE ServicePlan ----------------------------
(***************************************************************************)
(* Which services a run starts and which ports they bind:                  *)
(* internal/config/services.go, edition_ports.go, and the few lines of     *)
(* cmd/mimic/run.go that use them.  Pure operators on sequences of service *)
(* names; nothing here has state.                                          *)
(***************************************************************************)
EXTENDS Naturals, Sequences, SequencesExt, FiniteSets

CONSTANTS
    Manifests,              \* template services on disk: name -> [port, tls, stateful, speaksFirst, ...]
    ListTemplateServices    \* their names, sorted

\* The members of a sequence at some of its places, in order.
Subsequence(s, places) ==
    [k \in 1 .. Cardinality(places) |->
        s[CHOOSE i \in places : Cardinality({j \in places : j <= i}) = k]]
\* The members that are in a set.
Keep(s, S) == Subsequence(s, {i \in DOMAIN s : s[i] \in S})

StatefulServiceNames == <<"smb_honeypot", "ftp_honeypot", "rdp", "ssh_honeypot">>
Honeypots == ToSet(StatefulServiceNames)

templateSupersededBy == [smb |-> "smb_honeypot", rdp |-> "rdp", ssh |-> "ssh_honeypot"]

\* The profile of a run; nil when the run has none.  edition "" is inferred.
NoProfile == [family |-> "nil", edition |-> "", server |-> FALSE, os |-> ""]

ResolvedEdition(profile) ==
    IF profile.edition # "" THEN profile.edition
    ELSE IF profile.family = "windows" THEN IF profile.server THEN "server" ELSE "workstation"
    ELSE ""

\* The part of a sequence that each name opens: what add and seen keep.
Distinct(names) ==
    Subsequence(names, {i \in DOMAIN names : \A j \in DOMAIN names : names[j] = names[i] => i <= j})

isStatefulHoneypot(name) == name \in Honeypots

templateSuperseded(name, enabled) ==
    /\ ~isStatefulHoneypot(name)
    /\ name \in DOMAIN templateSupersededBy
    /\ templateSupersededBy[name] \in enabled

\* "all" stands for the honeypots and the templates they do not replace; the
\* names given besides it follow.
expandRequested(requested) ==
    LET all   == StatefulServiceNames \o
                    Keep(ListTemplateServices, {t \in DOMAIN Manifests : ~templateSuperseded(t, Honeypots)})
        named == Keep(requested, ToSet(requested) \ {"all"})
    IN  Distinct((IF "all" \in ToSet(requested) THEN all ELSE <<>>) \o named)

promoteLinuxSSH(names, profile) ==
    IF profile.family # "linux" THEN names
    ELSE Distinct([i \in DOMAIN names |-> IF names[i] = "ssh" THEN "ssh_honeypot" ELSE names[i]])

dropSupersededTemplates(names) ==
    Keep(names, {n \in ToSet(names) : ~templateSuperseded(n, ToSet(names))})

EditionExposesPort(edition, port) ==
    \/ edition = ""
    \/ port \in {135, 139, 445} /\ edition \in {"server", "dc"}
    \/ port \in {5357, 7680} /\ edition = "workstation"
    \/ port \notin {135, 139, 445, 5357, 7680}

\* The port whose exposure decides about a gated service.
GatedPort == [msrpc |-> 135, netbios |-> 139, smb_honeypot |-> 445, smb |-> 445,
              wsd |-> 5357, deliveryopt |-> 7680]

ShouldStartService(name, profile, smbHoneypotOn139) ==
    /\ ~(name = "netbios" /\ smbHoneypotOn139)
    /\ \/ profile = NoProfile
       \/ name = "ssh_honeypot" /\ profile.family = "linux"
       \/ name # "ssh_honeypot" /\ name \notin DOMAIN GatedPort
       \/ /\ name \in DOMAIN GatedPort
          /\ EditionExposesPort(ResolvedEdition(profile), GatedPort[name])

\* Both filterEditionGated and the services goroutine compute it; without a
\* profile the SMB honeypot stays off port 139.
smbOn139(names, profile) ==
    /\ profile # NoProfile
    /\ "smb_honeypot" \in ToSet(names)
    /\ EditionExposesPort(ResolvedEdition(profile), 139)

filterEditionGated(names, profile) ==
    Keep(names, {n \in ToSet(names) : ShouldStartService(n, profile, smbOn139(names, profile))})

ResolveRunServices(requested, profile) ==
    filterEditionGated(dropSupersededTemplates(promoteLinuxSSH(expandRequested(requested), profile)),
                       profile)

honeypotListenPorts == [smb_honeypot |-> {445}, rdp |-> {3389}, ftp_honeypot |-> {21},
                        ssh_honeypot |-> {22}]

\* Mutant: only the manifests are read.
ManifestPortsOnly(names, profile) ==
    {Manifests[n].port : n \in {m \in ToSet(names) \ Honeypots : m \in DOMAIN Manifests}}

\* ServiceListenPorts: what the firewall lets through on a workstation.
ServiceListenPorts(names, profile) ==
    (UNION {honeypotListenPorts[n] : n \in ToSet(names) \cap Honeypots})
    \cup {Manifests[n].port : n \in {m \in ToSet(names) \ Honeypots : m \in DOMAIN Manifests}}
    \cup {139 : n \in {m \in {"smb_honeypot"} \cap ToSet(names) :
                          EditionExposesPort(ResolvedEdition(profile), 139)}}

\* The ports a service binds, in order: cfg.NetBIOSPort adds 139 to the SMB
\* honeypot, and a template service binds the port of its manifest.
ListenPorts(name, profile) ==
    IF name = "smb_honeypot"
    THEN <<445>> \o (IF smbOn139(<<name>>, profile) THEN <<139>> ELSE <<>>)
    ELSE IF name \in Honeypots THEN <<CHOOSE p \in honeypotListenPorts[name] : TRUE>>
    ELSE <<Manifests[name].port>>

\* autoDrop of run.go: a workstation filters what it does not serve.
DropsUnserved(profile) == profile # NoProfile /\ ResolvedEdition(profile) = "workstation"
=============================================================================
