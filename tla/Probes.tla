------------------------------- MODULE Probes -------------------------------
(***************************************************************************)
(* The template services' engine: internal/services/matcher.go picks the   *)
(* probe that a client's bytes match, responder.go loads and rewrites its  *)
(* response, tlsterm.go builds the page behind a TLS channel.              *)
(*                                                                         *)
(* Client data is a sequence of tokens, each standing for a run of bytes;  *)
(* "NL" ends a line.  A response is a record: whether it is HTTP, whose    *)
(* page its body is, what its Server and Content-Length headers say, and   *)
(* the lengths of head and body.  Rewriting keeps what the properties tell *)
(* apart: lengths, the Server header and failure.                          *)
(***************************************************************************)
EXTENDS Integers, Sequences, SequencesExt

CONSTANTS Files    \* response templates on disk: file -> response

\* A response template has a head and a body, and may have a place for a credential.
Response == [http : BOOLEAN, page : STRING, server : STRING, clen : Nat, head : Nat, body : Nat,
             leak : STRING]
ASSUME FilesAssumption == \A f \in DOMAIN Files : Files[f] \in Response

AnyByte == "any"    \* '.' in a pattern
NoProbe == [name |-> "nil"]
NoReply == [http |-> FALSE, page |-> "", server |-> "", clen |-> 0, head |-> 0, body |-> 0, leak |-> ""]
-----------------------------------------------------------------------------
(* matcher.go                                                              *)

\* A key that the options do not have is not a condition.
probeRequirementsMet(probe, options) ==
    \A k \in DOMAIN probe.requires \cap DOMAIN options : options[k] = probe.requires[k]

\* The probes whose requirements are met, at their places in the manifest.
NewProbeMatcher(probes, options) ==
    [i \in {j \in DOMAIN probes : probeRequirementsMet(probes[j], options)} |-> probes[i]]

\* A prefix of the data, byte for byte except at the wildcards.
matchWithWildcards(data, pattern) ==
    /\ Len(pattern) <= Len(data)
    /\ \A i \in DOMAIN pattern : pattern[i] \in {AnyByte, data[i]}

ContainsBytes(data, part) ==
    \E i \in 0 .. Len(data) - Len(part) : SubSeq(data, i + 1, i + Len(part)) = part

\* A probe without pattern and minimum length is a banner: it matches the
\* empty buffer of a new connection and nothing a client says.

matchProbe(probe, data) ==
    /\ Len(data) >= probe.min
    /\ probe.max > 0 => Len(data) <= probe.max
    /\ IF probe.contains # <<>> THEN ContainsBytes(data, probe.contains)
       ELSE /\ probe.offset > 0 => probe.offset < Len(data)
            /\ IF probe.pattern # <<>>
               THEN matchWithWildcards(SubSeq(data, probe.offset + 1, Len(data)), probe.pattern)
               ELSE probe.min > 0 \/ data = <<>>

Match(matcher, data) ==
    LET hits == {i \in DOMAIN matcher : matchProbe(matcher[i], data)}
    IN  IF hits = {} THEN NoProbe ELSE matcher[Min(hits)]
-----------------------------------------------------------------------------
(* responder.go                                                            *)

Apaches == {"rocky", "rhel", "alma", "centos", "fedora"}
webServerForOS(os) == IF os \in Apaches THEN "apache" ELSE "nginx"

\* The brand of the Server header; "" leaves the template's.  Versions and
\* builds are left out: two replies of one brand count as agreeing.
serverStringFor(os) ==
    IF os \in Apaches THEN "apache" ELSE IF os = "" THEN "" ELSE "nginx"

\* {{leak:id}}: "user:password" of the credential replaces the placeholder;
\* creds gives what that adds to the body.
applyLeak(resp, creds) ==
    IF resp.leak \in DOMAIN creds THEN [resp EXCEPT !.body = @ + creds[resp.leak]] ELSE resp

fixHTTPContentLength(resp) == IF resp.http THEN [resp EXCEPT !.clen = resp.body] ELSE resp

Option(options, k) == IF k \in DOMAIN options THEN options[k] ELSE ""
IsLinux(options) == Option(options, "os_family") = "linux"

applyServerHeader(resp, options) ==
    LET srv == serverStringFor(Option(options, "os_name"))
    IN  IF IsLinux(options) /\ resp.http /\ srv # "" /\ resp.server # ""
        THEN [resp EXCEPT !.server = srv] ELSE resp

\* Bytes a rule writes at a fixed offset; the slot must be wide enough.
SlotWidth == [timestamp |-> 8, timestamp_past |-> 8, guid |-> 16]
OtherRules == {"timestamp_unix", "random", "seq", "ip", "port", "echo", "netbios_name", "hostname",
               "domain", "mac_address", "nbns_name", "nbns_domain", "http_date", "dcerpc_callid",
               "host_ip", "leak"}

\* applyRule returns an error for a slot outside the response (a rewrite that
\* works with lengths already adjusted), a slot that is too narrow, a bad
\* token or an unknown type.
applyRule(resp, rule, creds) ==
    /\ rule.offset < resp.head + resp.body
    /\ rule.offset + rule.length <= resp.head + resp.body
    /\ rule.type \in DOMAIN SlotWidth \cup OtherRules
    /\ rule.type \in DOMAIN SlotWidth => rule.length >= SlotWidth[rule.type]
    /\ rule.type = "host_ip" => rule.token # ""
    /\ rule.type = "leak" /\ DOMAIN creds # {} => rule.token \in DOMAIN creds

\* GetResponse: the rewrites that change lengths come before the fixed offsets.
\* Mutant: the length is fixed before the credential is put in.
GetResponseEarly(file, rules, options, creds) ==
    IF file \notin DOMAIN Files THEN NoReply
    ELSE LET resp == applyServerHeader(applyLeak(fixHTTPContentLength(Files[file]), creds), options)
         IN  IF \A i \in DOMAIN rules : applyRule(resp, rules[i], creds) THEN resp ELSE NoReply

GetResponse(file, rules, options, creds) ==
    IF file \notin DOMAIN Files THEN NoReply
    ELSE LET resp == applyServerHeader(fixHTTPContentLength(applyLeak(Files[file], creds)), options)
         IN  IF \A i \in DOMAIN rules : applyRule(resp, rules[i], creds) THEN resp ELSE NoReply

\* What a matched probe is answered with; NoReply for none, an error or nothing.
Answer(probe, options, creds) ==
    IF probe = NoProbe THEN NoReply ELSE GetResponse(probe.file, probe.rules, options, creds)
-----------------------------------------------------------------------------
(* The HTTP backend of a TLS service: tlsterm.go, TLSBackendHTTPResponse.  *)

\* The request line: nothing is read from a request without a line end.
RequestWord(req, i) ==
    LET line == SelectInSeq(req, LAMBDA t : t = "NL")
    IN  IF i < line THEN req[i] ELSE ""
parseHTTPMethod(req) == RequestWord(req, 1)
parseHTTPPath(req) == RequestWord(req, 2)

\* Built with its own length: 200 for the site's root, 404 for the rest.
iisHTTPResponse(req) ==
    LET body == IF parseHTTPPath(req) \in {"/", "/index.html", "/iisstart.png"} THEN 130 ELSE 290
    IN  [http |-> TRUE, page |-> "iis", server |-> "iis", clen |-> body, head |-> 150,
         body |-> body, leak |-> ""]

linuxHTTPResponseFile(method, path, os) ==
    IF method = "HEAD" THEN "nginx_200_headers"
    ELSE IF path \in {"/", "/index.html"}
    THEN IF webServerForOS(os) = "apache" THEN "apache_200_full" ELSE "nginx_200_full"
    ELSE IF webServerForOS(os) = "apache" THEN "apache_404" ELSE "nginx_404"

HttpDate == <<[type |-> "http_date", offset |-> 0, length |-> 0, token |-> ""]>>

TLSBackendHTTPResponse(req, options, creds) ==
    LET file == linuxHTTPResponseFile(parseHTTPMethod(req), parseHTTPPath(req),
                                      Option(options, "os_name"))
        resp == GetResponse(file, HttpDate, options, creds)
    IN  IF IsLinux(options) /\ resp # NoReply THEN resp ELSE iisHTTPResponse(req)
=============================================================================
