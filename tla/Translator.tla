----------------------------- MODULE Translator -----------------------------
(***************************************************************************)
(* The pure part of internal/argotunnel/translator.go and informer.go: how *)
(* an ingress is indexed, and the route that getRouteFromIngress makes of  *)
(* it from the secrets, services and endpoints it finds in the caches.     *)
(*                                                                         *)
(* getRouteFromIngress reads the three caches one after the other, so the  *)
(* route is built here in three stages, one per cache: backends that have  *)
(* a certificate, then a port, then addresses.                             *)
(***************************************************************************)
EXTENDS Naturals, Sequences, TunnelRoutes

CONSTANTS
    IngressClass,    \* options.ingressClass
    OriginSecrets,   \* options.originSecrets: a function of hosts
    DomainSecrets,   \* options.domainSecrets: a function of domains
    DefaultSecret,   \* options.secret, or NoSecret
    NoSecret,        \* a nil *resource
    NoName,          \* an empty string, as the name of a secret, service or host
    NoCert,          \* a secret without cert.pem
    Covers,          \* <<certificate, host>> pairs that verifyCertForHost accepts
    Absent           \* no object under a key of a cache

\* A host is the sequence of its labels; the domain is what follows the first.
HasDomain(host)   == Len(host) > 1
parseDomain(host) == Tail(host)

\* Secret of a host that no TLS entry names.
FallbackSecret(host) ==
    IF host \in DOMAIN OriginSecrets THEN OriginSecrets[host]
    ELSE IF HasDomain(host) /\ parseDomain(host) \in DOMAIN DomainSecrets
    THEN DomainSecrets[parseDomain(host)]
    ELSE DefaultSecret

\* TLS entries of a host; the last one wins, the maps being filled in order.
HostEntries(ing, host) == {i \in DOMAIN ing.tls : host \in ing.tls[i].hosts}

HostSecret(ing, host, entries) ==
    IF entries = {} THEN FallbackSecret(host)
    ELSE LET last == CHOOSE i \in entries : \A j \in entries : j <= i
         IN  [namespace |-> ing.namespace, name |-> ing.tls[last].secretName]

\* The secret of the translator: an entry without a name counts.
RouteSecret(ing, host) == HostSecret(ing, host, HostEntries(ing, host))

\* The secret of the index: an entry without a name does not count.
IndexSecret(ing, host) ==
    HostSecret(ing, host,
               {i \in HostEntries(ing, host) : ing.tls[i].secretName # NoName})

\* Rules that are not skipped: rule.HTTP != nil and a host.
ServedRules(ing) == {r \in ing.rules : r.http /\ r.host # NoName}

\* Variant: only TLS entries are indexed, not the secrets of the options.
SecretIndexTlsOnly(ing) ==
    IF ing.class # IngressClass THEN {}
    ELSE {IndexSecret(ing, r.host) :
            r \in {s \in ServedRules(ing) : HostEntries(ing, s.host) # {}}} \ {NoSecret}

ingressSecretIndexFunc(ing) ==
    IF ing.class # IngressClass THEN {}
    ELSE {IndexSecret(ing, r.host) : r \in ServedRules(ing)} \ {NoSecret}

ServiceOf(ing, path) == [namespace |-> ing.namespace, name |-> path.serviceName]

\* Variant: ingresses of every class are indexed.
ServiceIndexUnclassed(ing) ==
    UNION {{ServiceOf(ing, p) : p \in {q \in r.paths : q.serviceName # NoName}} :
           r \in ServedRules(ing)}

ingressServiceIndexFunc(ing) ==
    IF ing.class # IngressClass THEN {}
    ELSE UNION {{ServiceOf(ing, p) : p \in {q \in r.paths : q.serviceName # NoName}} :
                r \in ServedRules(ing)}

-----------------------------------------------------------------------------
(* getVerifiedCert and getVerifiedPort *)

\* GetByKey of a cache.
GetByKey(cache, name) == IF name \in DOMAIN cache THEN cache[name] ELSE Absent

\* The first CERTIFICATE block is parsed and its names matched with the host.
verifyCertForHost(cert, host) == <<cert, host>> \in Covers

HasVerifiedCert(secrets, secret, host) ==
    LET obj == GetByKey(secrets, secret)
    IN  /\ secret # NoSecret
        /\ obj # Absent
        /\ obj.cert # NoCert
        /\ verifyCertForHost(obj.cert, host)

\* Service ports that an intstr port selects, among the TCP ports.
MatchingPorts(svc, port) ==
    {i \in DOMAIN svc : /\ svc[i].protocol = "TCP"
                        /\ IF port.type = "int" THEN svc[i].port = port.val
                                                ELSE svc[i].name = port.val}

HasServicePort(services, name, port) ==
    /\ GetByKey(services, name) # Absent
    /\ MatchingPorts(services[name], port) # {}

\* The first match.
GetServicePort(svc, port) ==
    LET ms == MatchingPorts(svc, port)
    IN  svc[CHOOSE i \in ms : \A j \in ms : i <= j].port

\* An endpoints object is the set of the sizes of its subsets.
HasEndpointsAddresses(eps) == eps # Absent /\ \E n \in eps : n > 0

-----------------------------------------------------------------------------
(* getRouteFromIngress *)

\* Variant: "/" is taken for routing by path.
SupportedPathsEmptyOnly(r) == {p \in r.paths : p.path = "" /\ p.serviceName # NoName}

\* "" and "/" are the paths that are not routing by path.
SupportedPaths(r) == {p \in r.paths : p.path \in {"", "/"} /\ p.serviceName # NoName}

\* Variant: the certificate is not verified against the host.
CertifiedBackendsUnverified(ing, secrets) ==
    UNION {{[host |-> r.host, secret |-> RouteSecret(ing, r.host),
             cert |-> secrets[RouteSecret(ing, r.host)].cert,
             service |-> ServiceOf(ing, p), port |-> p.servicePort] :
              p \in SupportedPaths(r)} :
           r \in {s \in ServedRules(ing) :
                    GetByKey(secrets, RouteSecret(ing, s.host)) # Absent}}

CertifiedBackends(ing, secrets) ==
    UNION {{[host |-> r.host, secret |-> RouteSecret(ing, r.host),
             cert |-> secrets[RouteSecret(ing, r.host)].cert,
             service |-> ServiceOf(ing, p), port |-> p.servicePort] :
              p \in SupportedPaths(r)} :
           r \in {s \in ServedRules(ing) :
                    HasVerifiedCert(secrets, RouteSecret(ing, s.host), s.host)}}

PortedBackends(bs, services) ==
    {[b EXCEPT !.port = GetServicePort(services[b.service], b.port)] :
       b \in {c \in bs : HasServicePort(services, c.service, c.port)}}

ReadyBackends(bs, endpoints) ==
    {b \in bs : HasEndpointsAddresses(GetByKey(endpoints, b.service))}

\* linkmap: the rule is the key, the certificate and the options of the
\* ingress are what the link is configured with.
RuleOf(b) == [host |-> b.host, port |-> b.port, service |-> b.service, secret |-> b.secret]

MakeRoute(ing, bs) ==
    [rule \in Rules |->
       LET same == {b \in bs : RuleOf(b) = rule}
       IN  IF same = {} THEN NoTunnel
           ELSE [cert |-> (CHOOSE b \in same : TRUE).cert, opts |-> ing.opts]]

getRouteFromIngress(ing, secrets, services, endpoints) ==
    MakeRoute(ing,
      ReadyBackends(PortedBackends(CertifiedBackends(ing, secrets), services), endpoints))
=============================================================================
