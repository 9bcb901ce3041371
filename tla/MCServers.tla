------------------------------ MODULE MCServers ------------------------------
(* Instances of Servers for TLC: the manifests are those of services/, cut    *)
(* down to the probes that tell operating systems, banners and wildcards      *)
(* apart; "iis" is the make of all of Microsoft's HTTP servers.               *)
EXTENDS Servers

Page(make, clen, head, body) ==
    [http |-> TRUE, page |-> make, server |-> make, clen |-> clen, head |-> head, body |-> body, leak |-> ""]
Bytes(n) == [NoReply EXCEPT !.head = n]

MCFiles == [
    nginx_200_full |-> Page("nginx", 286, 150, 286), nginx_404 |-> Page("nginx", 155, 150, 155),
    nginx_200_headers |-> [Page("plain", 286, 150, 0) EXCEPT !.server = "nginx"],
    apache_200_full |-> Page("apache", 45, 150, 45), apache_404 |-> Page("apache", 196, 150, 196),
    iis_200_full |-> Page("iis", 696, 200, 696), iis_404 |-> Page("iis", 1245, 120, 1245),
    iis_200_headers |-> [Page("plain", 696, 200, 0) EXCEPT !.server = "iis"],
    iis_backup |-> [Page("plain", 0, 120, 29) EXCEPT !.server = "iis", !.leak = "backup_svc"],
    httpsys_404 |-> Page("iis", 315, 120, 315),
    banner |-> Bytes(40), ehlo |-> Bytes(60), server_hello |-> Bytes(90), short_hello |-> Bytes(40)]

Rule(type, offset, length) == [type |-> type, offset |-> offset, length |-> length, token |-> ""]
P(name, pattern, requires, file) ==
    [name |-> name, contains |-> <<>>, pattern |-> pattern, offset |-> 0, min |-> Len(pattern),
     max |-> 0, requires |-> requires, file |-> file, rules |-> <<>>]
Rest(name, requires, file) == [P(name, <<>>, requires, file) EXCEPT !.min = 1, !.rules = HttpDate]
Windows == [os_family |-> "windows"]
Linux == [os_family |-> "linux"]
Nginx == [os_server |-> "nginx"]
Apache == [os_server |-> "apache"]
None == [k \in {} |-> ""]

HttpProbes == <<
    P("backup_windows", <<"GET", "/backup">>, Windows, "iis_backup"),
    P("backup_generic", <<"GET", "/backup">>, None, "iis_backup"),
    P("root_windows", <<"GET", "/", "HTTP">>, Windows, "iis_200_full"),
    P("root_nginx", <<"GET", "/", "HTTP">>, Nginx, "nginx_200_full"),
    P("root_apache", <<"GET", "/", "HTTP">>, Apache, "apache_200_full"),
    P("root_generic", <<"GET", "/", "HTTP">>, None, "iis_200_full"),
    P("head_windows", <<"HEAD", "/">>, Windows, "iis_200_headers"),
    P("head_linux", <<"HEAD", "/">>, Linux, "nginx_200_headers"),
    P("head_generic", <<"HEAD", "/">>, None, "iis_200_headers"),
    Rest("other_windows", Windows, "iis_404"), Rest("other_nginx", Nginx, "nginx_404"),
    Rest("other_apache", Apache, "apache_404"), Rest("other_generic", None, "iis_404")>>
\* The second hello is too short for its rewrite rule: no answer.
JarmProbes == <<
    [P("jarm_tls12", <<"hello", AnyByte, "jarm">>, Windows, "server_hello") EXCEPT
        !.rules = <<Rule("random", 44, 32)>>],
    [P("jarm_tls11", <<"jarm">>, Windows, "short_hello") EXCEPT !.offset = 1, !.rules = <<Rule("random", 44, 32)>>]>>
SmtpProbes == <<
    P("ehlo", <<"EHLO">>, None, "ehlo"),
    [P("data_end", <<".">>, None, "missing") EXCEPT !.max = 1],
    P("banner", <<>>, None, "banner")>>
RpcProbes == <<[P("bind", <<>>, None, "ehlo") EXCEPT !.contains = <<"bind">>]>>

M(port, probes) == [port |-> port, protocol |-> "tcp", tls |-> FALSE, backend |-> "", stateful |-> FALSE,
                    speaksFirst |-> FALSE, default |-> "", probes |-> probes]
MCManifests == [
    http |-> M(80, HttpProbes),
    https |-> [M(443, JarmProbes) EXCEPT !.tls = TRUE, !.backend = "http"],
    smtp |-> [M(25, SmtpProbes) EXCEPT !.stateful = TRUE, !.speaksFirst = TRUE],
    ssh |-> [M(22, SmtpProbes) EXCEPT !.speaksFirst = TRUE],
    smb |-> [M(445, RpcProbes) EXCEPT !.stateful = TRUE],
    rdp |-> M(3389, JarmProbes),
    msrpc |-> [M(135, RpcProbes) EXCEPT !.stateful = TRUE],
    netbios |-> M(139, RpcProbes),
    nbns |-> [M(137, RpcProbes) EXCEPT !.protocol = "udp"],
    wsd |-> [M(5357, RpcProbes) EXCEPT !.default = "httpsys_404"]]

MCListTemplateServices ==
    <<"http", "https", "msrpc", "nbns", "netbios", "rdp", "smb", "smtp", "ssh", "wsd">>

Profile(family, edition, server, os) == [family |-> family, edition |-> edition, server |-> server, os |-> os]
Rocky == Profile("linux", "", FALSE, "rocky")
Ubuntu == Profile("linux", "", FALSE, "ubuntu")
Server2022 == Profile("windows", "", TRUE, "Windows Server 2022")
Windows11 == Profile("windows", "", FALSE, "Windows 11")
MacOS == Profile("macos", "", FALSE, "macOS")

Run(requested, profile, taken, fails, slots) ==
    [requested |-> requested, profile |-> profile, taken |-> taken, fails |-> fails, slots |-> slots]
MCSetups == {
    Run(<<"http", "https", "ssh">>, Rocky, {}, FALSE, 2),
    Run(<<"https", "http", "ssh_honeypot", "ssh">>, Ubuntu, {80}, FALSE, 1),
    Run(<<"smb_honeypot", "netbios", "msrpc">>, Server2022, {139}, FALSE, 2),
    Run(<<"smb_honeypot", "smb", "http">>, Server2022, {}, FALSE, 2),
    Run(<<"msrpc", "nbns", "rdp">>, Server2022, {49153}, FALSE, 2),
    Run(<<"msrpc", "rdp">>, Server2022, {}, TRUE, 1),
    Run(<<"all">>, Windows11, {}, FALSE, 1),
    Run(<<"ssh", "https">>, Windows11, {22}, FALSE, 1),
    Run(<<"http", "https">>, MacOS, {}, FALSE, 1),
    Run(<<"http", "https">>, NoProfile, {}, FALSE, 1),
    Run(<<"all", "http">>, Rocky, {445}, FALSE, 0),
    Run(<<"smtp", "ftp_honeypot">>, Ubuntu, {}, FALSE, 2)}

MCSlots == {1, 2}
MCDynPorts == <<49152, 49153>>
MCLeakStore == [backup_svc |-> 4]
MCClientData == {<<"GET", "/", "HTTP", "NL">>, <<"HEAD", "/", "HTTP", "NL">>, <<"GET", "/backup", "NL">>,
                 <<"EHLO">>, <<".">>, <<"hello", "x", "jarm">>, <<"hello", "jarm">>, <<"hello", "bind">>}

Abs(p) == [abs |-> TRUE, path |-> p, name |-> ""]
Rel(p) == [abs |-> FALSE, path |-> p, name |-> ""]
Word(w) == [abs |-> FALSE, path |-> <<>>, name |-> w]
C(cmd, arg) == [cmd |-> cmd, arg |-> arg]
MCFtpTree == [p \in {<<>>, <<"docs">>, <<"docs", "a">>, <<"b">>} |->
                IF p \in {<<>>, <<"docs">>} THEN "dir" ELSE "file"]
MCFtpCommands == {
    C("USER", Word("svc")), C("USER", Word("Anonymous")), C("PASS", Word("good")), C("PASS", Word("bad")),
    C("QUIT", Word("")), C("NOOP", Word("")), C("CWD", Rel(<<"docs">>)), C("CWD", Abs(<<"b">>)), C("CDUP", Word("")),
    C("PASV", Word("")), C("PASVfails", Word("")), C("LIST", Word("")), C("RETR", Rel(<<"b">>))}
MCLower == [svc |-> "svc", Svc |-> "svc", root |-> "root", Anonymous |-> "anonymous"]
MCCreds == [svc |-> "good"]
MCLogins == {<<"Svc", "good">>, <<"svc", "good">>, <<"root", "bad">>}
MCCdArgs == {NoSession, Rel(<<"..">>), Abs(<<"root", ".credentials">>), Rel(<<"svc">>)}
=============================================================================
