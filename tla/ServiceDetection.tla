--------------------------- MODULE ServiceDetection ---------------------------
(* Which service an open port runs (internal/service): the stages of          *)
(* DetectService, each on a connection of its own, what each makes of the     *)
(* port's answer, and the registry of certificates.  A banner's text is left  *)
(* out but for what is read out of it.                                        *)
EXTENDS Integers, Sequences, FiniteSetsExt

CONSTANTS
  Failed,       \* a stage that got no answer it knows
  Panics,       \* a stage that reads past the end of its answer
  Signatures    \* the table of greetings: [name, captures (a version), binary]

Unsaid == ""    \* a text that is not there

\* What the stages may find.
Expiries == {"none", "good", "expires-in-days", "expires-in-hours", "expired"}
Matches  == {"none", "match", "by-address", "mismatch"}
TLSInfo ==
  [version : Nat, supported : SUBSET Nat, weak : BOOLEAN, downgrades : SUBSET Nat,
   classical : BOOLEAN, fingerprint : STRING \cup {Unsaid}, expiry : Expiries,
   selfSigned : BOOLEAN, name : Matches]
Header  == [software : STRING, version : STRING, os : SUBSET STRING]
Posture ==
  [server : Header \cup {Failed}, exposed : SUBSET STRING,
   missing : SUBSET {"Content-Security-Policy", "X-Frame-Options", "Strict-Transport-Security"}]
Product == [name : STRING, version : STRING \cup {Unsaid}]

ServiceAssumption ==
  /\ Failed \notin Product \cup Header \cup Posture \cup TLSInfo
  /\ Signatures \in Seq([name : STRING, captures : BOOLEAN, binary : BOOLEAN])

KnownTLSPorts == {443, 8443, 9443, 4443, 10443, 465, 993, 995, 563, 636, 989,
                  990, 992, 994, 853, 5061, 4911}
WebPorts      == {80, 443, 8080, 8443, 8000, 8888}
OTPorts       == {502, 44818}
DefaultNames  ==    \* resolveDefaultPortName, for the ports of the instances
  [p \in {22, 80, 443, 445, 502, 1883, 3306, 3389, 5432, 6379, 11211, 44818} |->
     CASE p = 22 -> "ssh" [] p = 80 -> "http" [] p = 443 -> "https"
       [] p = 445 -> "microsoft-ds" [] p = 502 -> "modbus" [] p = 1883 -> "mqtt"
       [] p = 3306 -> "mysql" [] p = 3389 -> "ms-wbt-server"
       [] p = 5432 -> "postgresql" [] p = 6379 -> "redis"
       [] p = 11211 -> "memcached" [] p = 44818 -> "ethernet-ip"]
resolveDefaultPortName(port) ==
  IF port \in DOMAIN DefaultNames THEN DefaultNames[port] ELSE "unknown"

\* A ServiceInfo.  The system a banner names is picked by iterating over a map:
\* os is the set of what it may come out as.
Info == [name |-> "unknown", version |-> Unsaid, os |-> {}, tls |-> Failed,
         jarm |-> FALSE, http |-> Failed, ssh |-> Failed, findings |-> {}]
extractOSFromBanner(named) == IF named = {} THEN {"unknown"} ELSE named
Named(info, name, version) == [info EXCEPT !.name = name, !.version = version]

-----------------------------------------------------------------------------
(* Industrial devices (--ot-probe).                                         *)

\* The objects of a device identification, read until one runs past the end:
\* p is where the next starts, and said what each identifier held.
ReadObject(size, read, o) ==
  IF read.p + 2 > size \/ read.cut THEN read
  ELSE IF read.p + 2 + o.len > size THEN [read EXCEPT !.cut = TRUE]
  ELSE [p |-> read.p + 2 + o.len, cut |-> FALSE,
        said |-> [read.said EXCEPT ![o.id] = o.text]]
Silence == [id \in 1 .. 3 |-> Unsaid]
ReadObjects(size, objects, count) ==
  LET read[k \in 0 .. Len(objects)] ==
        IF k = 0 THEN [p |-> 7, cut |-> FALSE, said |-> Silence]
        ELSE ReadObject(size, read[k - 1], objects[k])
  IN read[IF count < Len(objects) THEN count ELSE Len(objects)]

\* reply: [n, protocol, declared, exception, count, objects].  The count is
\* at offset 6 of the PDU, of which only 6 bytes need be there.
modbusIdentify(reply) ==
  LET size == reply.n - 7
      said == ReadObjects(size, reply.objects, reply.count).said
  IN IF \/ reply.n < 8 \/ reply.protocol # 0
        \/ reply.declared < 2 \/ 6 + reply.declared > reply.n
        \/ size < 6 \/ reply.exception THEN Failed
     ELSE IF size = 6 THEN Panics
     ELSE IF said = Silence THEN Failed
     ELSE [name |-> IF said[1] = Unsaid THEN "modbus" ELSE "modbus/" \o said[1],
           version |-> said[3]]

\* reply: [n, status, item, nameLen, product, version]; 24 + 6 + 33 bytes come
\* before the product's name.
enipIdentify(reply) ==
  IF \/ reply.n < 24 + 6 + 33 \/ reply.status # 0 \/ reply.item # "identity"
     \/ reply.nameLen = 0 \/ 24 + 6 + 33 + reply.nameLen > reply.n \/ reply.product = Unsaid
  THEN Failed
  ELSE [name |-> "ethernet-ip", version |-> reply.version]

probeOTService(server) ==
  CASE server.port = 502   /\ server.ot # Failed -> modbusIdentify(server.ot)
    [] server.port = 44818 /\ server.ot # Failed -> enipIdentify(server.ot)
    [] OTHER -> Failed

-----------------------------------------------------------------------------
(* TLS.  server.tls: Failed, or [version, accepts, cipher, group, certs];    *)
(* a certificate: [id, hoursLeft, issuer, subject, names].                   *)

\* Go truncates the days towards zero.
CertDaysLeft(cert) ==
  IF cert.hoursLeft < 0 THEN -((-cert.hoursLeft) \div 24) ELSE cert.hoursLeft \div 24
Expiry(cert) ==
  CASE cert.hoursLeft < 0       -> "expired"
    [] cert.hoursLeft \in 0..47 -> "expires-in-hours"
    [] cert.hoursLeft >= 48 /\ CertDaysLeft(cert) < 14 -> "expires-in-days"
    [] OTHER -> "good"
Mismatch(cert, ip, hostname) ==
  CASE hostname = Unsaid /\ ip \notin cert.names        -> "by-address"
    [] hostname # Unsaid /\ hostname \notin cert.names  -> "mismatch"
    [] OTHER -> "match"

\* probeTLS, and a connection for each version the server may still accept.
probeTLS(server, ip, hostname) ==
  LET t == server.tls
  IN IF t = Failed THEN Failed
     ELSE [ version |-> t.version, supported |-> t.accepts,
            weak |-> t.version < 12 \/ t.cipher = "insecure" \/ t.accepts \cap {10, 11} # {},
            downgrades |-> t.accepts \cap {10, 11},
            classical |-> t.version = 13 /\ t.group = "classical",
            fingerprint |-> IF t.certs = <<>> THEN Unsaid ELSE t.certs[1].id,
            expiry |-> IF t.certs = <<>> THEN "none" ELSE Expiry(t.certs[1]),
            selfSigned |-> Len(t.certs) = 1 /\ t.certs[1].issuer = t.certs[1].subject,
            name |-> IF t.certs = <<>> THEN "none" ELSE Mismatch(t.certs[1], ip, hostname) ]

\* What the registry holds of each certificate, in no order that matters.
RecordCertObservation(registry, fingerprint, host, port) ==
  IF fingerprint = Unsaid THEN registry
  ELSE registry \cup { [fingerprint |-> fingerprint, host |-> host, port |-> port] }
FindReusedCertificates(registry) ==
  LET by(f) == { o \in registry : o.fingerprint = f }
  IN { [fingerprint |-> f, hosts |-> by(f)] :
         f \in { g \in { o.fingerprint : o \in registry } :
                  \E o, q \in by(g) : o.host # q.host } }

-----------------------------------------------------------------------------
(* HTTP.  server.page: Failed, or [tls, http1, server, body, headers, paths]. *)

SecurityHeaders == {"Content-Security-Policy", "X-Frame-Options"}

\* A client of its own, which speaks HTTP/2 as well as HTTP/1.
probeHTTPPosture(server, useTLS, trusts) ==
  LET page == server.page
      asked == SecurityHeaders \cup (IF useTLS THEN {"Strict-Transport-Security"} ELSE {})
  IN IF page = Failed THEN Failed
     ELSE IF page.tls # useTLS \/ (useTLS /\ ~ trusts) THEN Failed
     ELSE [ server |-> page.server, missing |-> asked \ page.headers,
            exposed |-> { p \in DOMAIN page.paths :
                            page.paths[p].status = 200 /\ page.paths[p].signed } ]

\* The Server header, or the footer of an error page where there is none.
extractServerHeader(page) == IF page.server # Failed THEN page.server ELSE page.body

-----------------------------------------------------------------------------
(* The greeting.  [starts, matches (rows of the table), says, version, os,   *)
(* kexinit].                                                                 *)

matchBannerSignature(greeting) ==
  IF greeting.matches = {} THEN Failed
  ELSE LET sig == Signatures[Min(greeting.matches)]
       IN [name |-> sig.name, version |-> IF sig.captures THEN greeting.version ELSE Unsaid]

\* The four lists of algorithms, of which the weak are named; nothing of them
\* if the packet is cut short.
sshPostureFromConn(greeting) ==
  [ legacy |-> "1.x" \in greeting.says,
    weak |-> IF greeting.kexinit = Failed THEN {}
             ELSE { w \in {"kex", "host-key", "cipher", "MAC"} \X {"sha1", "md5"} :
                      w[2] \in greeting.kexinit[w[1]] } ]

\* The greetings that end the detection, and what they make of it.
Recognized(greeting) ==
  \/ matchBannerSignature(greeting) # Failed
  \/ greeting.starts \in {"SSH-", "220", "+OK", "*OK", "RFB", "MySQL"}
Greeted(info, greeting) ==
  LET heard == [info EXCEPT !.ssh = IF greeting.starts = "SSH-"
                                    THEN sshPostureFromConn(greeting) ELSE @]
      sig == matchBannerSignature(greeting)
      as(name, version) == Named(heard, name, version)
  IN IF sig # Failed
     THEN [as(sig.name, sig.version) EXCEPT !.os = extractOSFromBanner(greeting.os)]
     ELSE CASE greeting.starts = "SSH-" ->
                 IF "OpenSSH" \in greeting.says
                 THEN [as("openssh", greeting.version) EXCEPT !.os = extractOSFromBanner(greeting.os)]
                 ELSE as("ssh", Unsaid)
            [] greeting.starts = "220"   ->
                 as(IF "ftp" \in greeting.says THEN "ftp" ELSE "smtp", Unsaid)
            [] greeting.starts = "+OK"   -> as("pop3", Unsaid)
            [] greeting.starts = "*OK"   -> as("imap", Unsaid)
            [] greeting.starts = "RFB"   -> as("vnc", greeting.version)
            [] greeting.starts = "MySQL" -> as("mysql", greeting.version)

-----------------------------------------------------------------------------
(* Services that wait to be spoken to.  reply: [n, head, value, code, smb1].  *)

Spoken(name, version, findings) ==
  [Named(Info, name, version) EXCEPT !.findings = findings]

probeRedis(r)     == IF r.n = 0 \/ r.head \notin {"$", "-"} THEN Failed
                     ELSE Spoken("redis", r.value, {})
probeMemcached(r) == IF r.n = 0 \/ r.head # "VERSION" THEN Failed
                     ELSE Spoken("memcached", r.value, {})
probePostgres(r)  == IF r.n = 0 \/ r.head \notin {"S", "N"} THEN Failed
                     ELSE Spoken("postgresql", Unsaid, IF r.head = "N" THEN {"no-TLS"} ELSE {})
probeMQTT(r)      == IF r.n < 2 \/ r.head # "CONNACK" THEN Failed
                     ELSE Spoken("mqtt", Unsaid, IF r.n >= 4 /\ r.code = 0 THEN {"anonymous"} ELSE {})
probeSMB(r) ==
  IF r.n < 4 + 64 + 6 \/ r.head # "SMB2" \/ r.value = Unsaid THEN Failed
  ELSE Spoken("microsoft-ds", Unsaid,
         {r.value, IF r.code \in {2, 3} THEN "signing-required"
                   ELSE IF r.code = 1 THEN "signing-enabled" ELSE "no-signing"}
           \cup (IF r.smb1 THEN {"SMBv1"} ELSE {}))
\* The security layer's name goes where a version goes.
probeRDP(r) ==
  IF r.n < 4 \/ r.head # "TPKT" THEN Failed
  ELSE Spoken("ms-wbt-server", IF r.n >= 4 + 7 + 8 THEN r.value ELSE Unsaid, {})

activeProbe(server) ==
  LET r == server.reply
  IN CASE r = Failed -> Failed
       [] r # Failed /\ server.port = 6379  -> probeRedis(r)
       [] r # Failed /\ server.port = 11211 -> probeMemcached(r)
       [] r # Failed /\ server.port = 5432  -> probePostgres(r)
       [] r # Failed /\ server.port = 445   -> probeSMB(r)
       [] r # Failed /\ server.port = 3389  -> probeRDP(r)
       [] r # Failed /\ server.port = 1883  -> probeMQTT(r)
       [] OTHER -> Failed

-----------------------------------------------------------------------------
(* The stages in order.                                                     *)

\* The handshake on the main connection of 443 and 8443 verifies what it is
\* shown unless told not to.
Handshakes(server, insecure) ==
  server.port \in {443, 8443} /\ server.tls # Failed /\ (server.trusted \/ insecure)

\* The GET on the main connection was answered in HTTP/1.
Got(server, insecure) ==
  LET page == server.page
      secured == Handshakes(server, insecure)
  IN /\ page # Failed
     /\ page.http1
     /\ page.tls = secured
     /\ server.port \in {443, 8443} => secured

\* Else the header that the posture check read, or the protocol agreed on; a
\* port that gave neither goes on to the next stage.
Read(server, posture, insecure) ==
  IF Got(server, insecure) THEN extractServerHeader(server.page)
  ELSE IF posture # Failed THEN posture.server ELSE Failed
Browsed(server, posture, insecure) ==
  \/ Got(server, insecure) \/ Read(server, posture, insecure) # Failed
  \/ Handshakes(server, insecure)
Visited(info, posture, os) == [info EXCEPT !.os = os, !.http = posture]
WebNamed(info, server, posture, insecure) ==
  LET header == Read(server, posture, insecure)
      named(os, name, version) ==
        Named(Visited(info, posture, os), name, version)
  IN IF header # Failed
     THEN IF header.software # Unsaid
          THEN named(extractOSFromBanner(header.os), header.software, header.version)
          ELSE named(IF Got(server, insecure) THEN extractOSFromBanner(header.os) ELSE info.os,
                     "http", Unsaid)
     ELSE IF Got(server, insecure) THEN named({"unknown"}, "http", Unsaid)
     ELSE named(info.os, CASE server.alpn = "h2"       -> "ssl/h2"
                           [] server.alpn = "http/1.1" -> "ssl/http"
                           [] OTHER                    -> "ssl/unknown", Unsaid)

\* Mutant: only the web ports get what was found, as once was the case.
AttachedOnWeb(info, server, tls, jarm) ==
  IF server.port \in WebPorts THEN [info EXCEPT !.tls = tls, !.jarm = jarm] ELSE info

\* What TLS the port was found to speak goes with it whatever the port.
Attached(info, server, tls, jarm) == [info EXCEPT !.tls = tls, !.jarm = jarm]

TLSFound(server, o) ==
  IF server.port \in KnownTLSPorts \/ o.jarm
  THEN probeTLS(server, server.ip, o.hostname) ELSE Failed

Passive(server, o) ==
  LET tls == TLSFound(server, o)
      isTLSPort == server.port \in KnownTLSPorts \/ tls # Failed
      posture == IF server.port \in WebPorts
                 THEN probeHTTPPosture(server, isTLSPort, server.trusted \/ o.insecure)
                 ELSE Failed
      found  == Attached(Info, server, tls, isTLSPort /\ o.jarm)
      spoken == activeProbe(server)
  IN IF ~ server.accepts THEN found
     ELSE IF server.greeting # Failed /\ Recognized(server.greeting)
     THEN Greeted(found, server.greeting)
     ELSE IF server.port \in WebPorts /\ Browsed(server, posture, o.insecure)
     THEN WebNamed(found, server, posture, o.insecure)
     ELSE IF spoken # Failed THEN spoken
     ELSE Named([found EXCEPT !.http = posture], resolveDefaultPortName(server.port), Unsaid)

ByOTProbe(server, o) == IF o.otProbe THEN probeOTService(server) ELSE Failed

DetectService(server, o) ==
  LET ot == ByOTProbe(server, o)
  IN CASE ot = Panics -> Panics
       [] ot # Panics /\ ot # Failed -> Named(Info, ot.name, ot.version)
       [] OTHER -> Passive(server, o)

\* The loop of main.go over the open ports.
Seen(registry, server, o) ==
  IF ByOTProbe(server, o) # Failed \/ TLSFound(server, o) = Failed THEN registry
  ELSE RecordCertObservation(registry, TLSFound(server, o).fingerprint, server.ip, server.port)
DetectAll(servers, o) ==
  LET seen[k \in 0 .. Len(servers)] ==
        IF k = 0 THEN {} ELSE Seen(seen[k - 1], servers[k], o)
  IN seen[Len(servers)]

-----------------------------------------------------------------------------
(* Properties *)

\* What a port said of itself, with the version it said with it.
NamedBy(greeting) ==
  { Signatures[k].name : k \in greeting.matches }
    \cup CASE greeting.starts = "SSH-" /\ "OpenSSH" \in greeting.says -> {"openssh"}
           [] greeting.starts = "RFB"   -> {"vnc"}
           [] greeting.starts = "MySQL" -> {"mysql"}
           [] OTHER -> {}
Announced(server) ==
  LET greeting == server.greeting   page == server.page   reply == server.reply
  IN (IF greeting = Failed THEN {} ELSE
        { <<name, greeting.version>> : name \in NamedBy(greeting) })
     \cup (IF page = Failed THEN {} ELSE
        { <<h.software, h.version>> : h \in {page.server, page.body} \ {Failed} })
     \cup (IF reply = Failed THEN {} ELSE
        { <<name, reply.value>> : name \in {"redis", "memcached"} })
\* What stands where a version goes for RDP is the security layer it picked, as
\* probeRDP and its test have it (engine_test.go:792-796).
Picked(server) ==
  IF server.reply = Failed THEN {} ELSE { <<"ms-wbt-server", server.reply.value>> }

\* Of a detection that comes to an end (OTFallsBack has the one that does not):
\* a version is one the port announced, of the software it is reported for; a
\* port that named its software in a greeting, or on a page that could be
\* read, is not reported by its number; TLS is reported of a port only if it
\* speaks it, as weak exactly if it accepts a protocol or cipher it should not,
\* and is not lost on any port of knownTLSPorts, nor under --jarm on one that
\* had no question of its own to answer (service/engine.go:61-359).
AnsweredService(server, o) ==
  LET got == DetectService(server, o)
      identified == ByOTProbe(server, o) # Failed
      weak == \/ server.tls.accepts \cap {10, 11} # {} \/ server.tls.version < 12
              \/ server.tls.cipher = "insecure"
  IN got # Panics =>
     /\ got.version # Unsaid /\ ~ identified =>
          <<got.name, got.version>> \in Announced(server) \cup Picked(server)
     /\ (server.accepts /\ server.greeting # Failed /\ ~ identified) =>
          (server.greeting.matches # {} => got.name \in { a[1] : a \in Announced(server) })
     /\ (/\ server.accepts /\ server.greeting = Failed /\ server.port = 80
         /\ server.page # Failed) =>
          (server.page.server # Failed /\ ~ server.page.tls /\ server.page.server.software # Unsaid
            => got.name = server.page.server.software)
     /\ got.tls # Failed => server.tls # Failed /\ (got.tls.weak <=> weak)
     /\ (/\ server.tls # Failed /\ ~ identified
         /\ server.port \in KnownTLSPorts \/ (o.jarm /\ server.reply = Failed)) =>
          got.tls # Failed
     /\ (server.port = 502 /\ probeOTService(server) \notin {Failed, Panics}) =>
          7 + 7 + 2 + server.ot.objects[1].len <= server.ot.n

\* "A probe that gets no useful answer returns ok=false and the caller falls
\* back to naming the port by number -- the device is no worse off than without
\* --ot-probe." (service/ot_probe.go:25-27)
OTFallsBack(server, o) ==
  LET without == [o EXCEPT !.otProbe = FALSE]
  IN probeOTService(server) \notin Product =>
       DetectService(server, o) = DetectService(server, without)

\* The less time a certificate has left, the worse what is said of it, and an
\* expired one is never taken for one that is about to (tls.go:153-171).
Urgency == [e \in {"good", "expires-in-days", "expires-in-hours", "expired"} |->
              CASE e = "good" -> 0 [] e = "expires-in-days" -> 1
                [] e = "expires-in-hours" -> 2 [] e = "expired" -> 3]
ExpiryOrdered(cert, later) ==
  /\ cert.hoursLeft <= later.hoursLeft => Urgency[Expiry(cert)] >= Urgency[Expiry(later)]
  /\ cert.hoursLeft < 0 <=> Expiry(cert) = "expired"

\* A certificate is reported as shared by hosts exactly if two of them showed
\* it, on whatever ports (cert_registry.go).
Showed(s, o, f) ==
  /\ s.port \in KnownTLSPorts \/ o.jarm
  /\ ByOTProbe(s, o) = Failed
  /\ s.tls # Failed
  /\ s.tls.certs # <<>>
  /\ s.tls.certs[1].id = f
Shared(servers, o, f) ==
  \E i, j \in DOMAIN servers :
    /\ servers[i].ip # servers[j].ip
    /\ Showed(servers[i], o, f) /\ Showed(servers[j], o, f)
SharedExactly(servers, o) ==
  LET first(k) == servers[k].tls.certs[1].id
      ids == { first(k) : k \in { i \in DOMAIN servers : servers[i].tls # Failed
                                                    /\ servers[i].tls.certs # <<>> } }
      groups == FindReusedCertificates(DetectAll(servers, o))
  IN { g.fingerprint : g \in groups } = { f \in ids : Shared(servers, o, f) }
=============================================================================
