-------------------------- MODULE TranslatorLemmas --------------------------
(***************************************************************************)
(* Facts about the operators of Translator, for every ingress and every    *)
(* content of the caches.                                                  *)
(*                                                                         *)
(* The index functions and getRouteFromIngress resolve the secret of a     *)
(* host separately, and differently: an entry of spec.tls without a secret *)
(* name shadows the defaults in one and not in the other.  They agree on   *)
(* every secret that exists, because no object has an empty name.          *)
(*                                                                         *)
(* A tunnel depends on one secret, one service and its endpoints only: the *)
(* last lemmas compare two readings of the caches that agree on those.     *)
(***************************************************************************)
EXTENDS Translator, WellFoundedInduction, TLAPS

ProperList(s) == Len(s) \in Nat /\ DOMAIN s = 1..Len(s)

\* A non-empty set of positions of a list has a last one.
LEMMA LastExists ==
    ASSUME NEW n \in Nat, NEW S \in SUBSET (1..n), S # {}
    PROVE  \E i \in S : \A j \in S : j <= i
  <1> DEFINE T == {m \in 0..n : n - m \in S}
  <1>1. T \subseteq Nat /\ T # {}
    <2>1. PICK i \in S : TRUE
      OBVIOUS
    <2>2. n - i \in T
      BY <2>1
    <2>3. T \subseteq Nat
      BY DEF T
    <2> HIDE DEF T
    <2> QED BY <2>2, <2>3
  <1> HIDE DEF T
  <1>2. PICK m \in T : \A y \in T : ~(<<y, m>> \in OpToRel(<, Nat))
    BY <1>1, NatLessThanWellFounded, WFMin
  <1>3. \A y \in T : ~(y < m)
    BY <1>1, <1>2 DEF OpToRel
  <1>4. n - m \in S
    BY DEF T
  <1>5. \A j \in S : j <= n - m
    <2> TAKE j \in S
    <2>1. n - j \in T
      BY DEF T
    <2> QED BY <1>3, <2>1 DEF T
  <1> QED BY <1>4, <1>5

\* And a first one.
LEMMA FirstExists ==
    ASSUME NEW n \in Nat, NEW S \in SUBSET (1..n), S # {}
    PROVE  \E i \in S : \A j \in S : i <= j
  <1>1. S \subseteq Nat
    OBVIOUS
  <1>2. PICK m \in S : \A y \in S : ~(<<y, m>> \in OpToRel(<, Nat))
    BY <1>1, NatLessThanWellFounded, WFMin
  <1>3. \A j \in S : ~(j < m)
    BY <1>1, <1>2 DEF OpToRel
  <1> QED BY <1>1, <1>3

\* The position HostSecret picks is the last of the entries.
LEMMA LastEntry ==
    ASSUME NEW i, ProperList(i.tls), NEW S \in SUBSET (DOMAIN i.tls), S # {}
    PROVE  LET last == CHOOSE m \in S : \A j \in S : j <= m
           IN  last \in S /\ \A j \in S : j <= last
  <1>1. \E m \in S : \A j \in S : j <= m
    BY LastExists DEF ProperList
  <1> QED BY <1>1

\* If the secret the translator takes for a host has a name, the index has the
\* same one.
LEMMA SameSecret ==
    ASSUME NEW i, ProperList(i.tls), NEW host,
           HostEntries(i, host) # {} => RouteSecret(i, host).name # NoName
    PROVE  IndexSecret(i, host) = RouteSecret(i, host)
  <1> DEFINE all == HostEntries(i, host)
             named == {m \in all : i.tls[m].secretName # NoName}
             last(S) == CHOOSE m \in S : \A j \in S : j <= m
  <1>1. CASE all = {}
    BY <1>1 DEF RouteSecret, IndexSecret, HostSecret
  <1>2. CASE all # {}
    <2>1. all \in SUBSET (DOMAIN i.tls) /\ \A j \in all : j \in Nat
      BY DEF HostEntries, ProperList
    <2>2. last(all) \in all /\ \A j \in all : j <= last(all)
      BY <1>2, <2>1, LastEntry
    <2>3. RouteSecret(i, host) = [namespace |-> i.namespace, name |-> i.tls[last(all)].secretName]
      BY <1>2 DEF RouteSecret, HostSecret
    <2>4. last(all) \in named
      BY <1>2, <2>2, <2>3
    <2>5. last(named) \in named /\ \A j \in named : j <= last(named)
      BY <2>1, <2>4, LastEntry
    <2>6. last(named) = last(all)
      <3> HIDE DEF last
      <3> QED BY <2>1, <2>2, <2>4, <2>5, SMTT(30)
    <2>7. IndexSecret(i, host)
            = [namespace |-> i.namespace, name |-> i.tls[last(named)].secretName]
      BY <2>4 DEF IndexSecret, HostSecret
    <2> QED BY <2>3, <2>6, <2>7
  <1> QED BY <1>1, <1>2

\* A certified backend comes from a served rule whose secret is in the cache,
\* and from a path of that rule with a service.
LEMMA CertifiedOrigin ==
    ASSUME NEW i, NEW secs, NEW b \in CertifiedBackends(i, secs)
    PROVE  \E r \in ServedRules(i) : \E p \in SupportedPaths(r) :
             /\ HasVerifiedCert(secs, RouteSecret(i, r.host), r.host)
             /\ b = [host |-> r.host, secret |-> RouteSecret(i, r.host),
                     cert |-> secs[RouteSecret(i, r.host)].cert,
                     service |-> ServiceOf(i, p), port |-> p.servicePort]
  BY DEF CertifiedBackends

\* Certified backends have all their fields.
LEMMA CertifiedShape ==
    ASSUME NEW i, NEW secs, NEW b \in CertifiedBackends(i, secs)
    PROVE  DOMAIN b = {"host", "secret", "cert", "service", "port"}
  BY CertifiedOrigin

\* Their certificate is that of a secret.
LEMMA CertifiedCert ==
    ASSUME NEW i, NEW secs, NEW b \in CertifiedBackends(i, secs)
    PROVE  \E n \in DOMAIN secs :
             b.cert = secs[n].cert /\ secs[n] # Absent /\ secs[n].cert # NoCert
  <1>1. PICK r \in ServedRules(i) :
          /\ HasVerifiedCert(secs, RouteSecret(i, r.host), r.host)
          /\ b.cert = secs[RouteSecret(i, r.host)].cert
    BY CertifiedOrigin
  <1> QED BY <1>1 DEF HasVerifiedCert, GetByKey

\* No rule with a verified certificate is left out.
LEMMA CertifiedMember ==
    ASSUME NEW i, NEW secs, NEW r \in ServedRules(i), NEW p \in SupportedPaths(r),
           HasVerifiedCert(secs, RouteSecret(i, r.host), r.host)
    PROVE  [host |-> r.host, secret |-> RouteSecret(i, r.host),
            cert |-> secs[RouteSecret(i, r.host)].cert,
            service |-> ServiceOf(i, p), port |-> p.servicePort] \in CertifiedBackends(i, secs)
  BY DEF CertifiedBackends

\* What it depends on is in the index of an ingress of the controller's class,
\* if secrets have names.
LEMMA BackendIndexed ==
    ASSUME NEW i, ProperList(i.tls), i.class = IngressClass,
           NEW secs, \A n \in DOMAIN secs : n.name # NoName,
           NEW b \in CertifiedBackends(i, secs)
    PROVE  b.secret \in ingressSecretIndexFunc(i) /\ b.service \in ingressServiceIndexFunc(i)
  <1>1. PICK r \in ServedRules(i) : \E p \in SupportedPaths(r) :
          /\ HasVerifiedCert(secs, RouteSecret(i, r.host), r.host)
          /\ b.secret = RouteSecret(i, r.host) /\ b.service = ServiceOf(i, p)
    BY CertifiedOrigin
  <1>2. b.secret # NoSecret /\ b.secret \in DOMAIN secs /\ b.secret = RouteSecret(i, r.host)
    BY <1>1 DEF HasVerifiedCert, GetByKey
  <1>3. b.secret = IndexSecret(i, r.host)
    BY <1>2, SameSecret
  <1>4. b.secret \in ingressSecretIndexFunc(i)
    BY <1>2, <1>3 DEF ingressSecretIndexFunc
  <1>5. b.service \in ingressServiceIndexFunc(i)
    <2>1. PICK p \in SupportedPaths(r) : b.service = ServiceOf(i, p)
      BY <1>1
    <2>2. p \in r.paths /\ p.serviceName # NoName
      BY DEF SupportedPaths
    <2> QED BY <2>1, <2>2 DEF ingressServiceIndexFunc
  <1> QED BY <1>4, <1>5

\* A tunnel comes from a certified backend whose service has the port and whose
\* endpoints have addresses.
LEMMA TunnelOrigin ==
    ASSUME NEW i, NEW secs, NEW svcs, NEW eps, NEW t \in Rules,
           getRouteFromIngress(i, secs, svcs, eps)[t] # NoTunnel
    PROVE  \E c \in CertifiedBackends(i, secs) :
             /\ HasServicePort(svcs, c.service, c.port)
             /\ HasEndpointsAddresses(GetByKey(eps, c.service))
             /\ t.host = c.host /\ t.secret = c.secret /\ t.service = c.service
             /\ t.port = GetServicePort(svcs[c.service], c.port)
             /\ getRouteFromIngress(i, secs, svcs, eps)[t].cert = c.cert
  <1> DEFINE cs == CertifiedBackends(i, secs)
             bs == ReadyBackends(PortedBackends(cs, svcs), eps)
             same == {b \in bs : RuleOf(b) = t}
             b == CHOOSE x \in same : TRUE
  <1>1. /\ same # {}
        /\ getRouteFromIngress(i, secs, svcs, eps)[t] = [cert |-> b.cert, opts |-> i.opts]
    BY DEF getRouteFromIngress, MakeRoute
  <1>2. b \in bs /\ RuleOf(b) = t
    BY <1>1
  <1> HIDE DEF b
  <1>3. PICK c \in cs : /\ HasServicePort(svcs, c.service, c.port)
                        /\ b = [c EXCEPT !.port = GetServicePort(svcs[c.service], c.port)]
    BY <1>2 DEF ReadyBackends, PortedBackends
  <1>4. DOMAIN c = {"host", "secret", "cert", "service", "port"}
    BY CertifiedShape
  <1>5. /\ b.host = c.host /\ b.secret = c.secret /\ b.service = c.service /\ b.cert = c.cert
        /\ b.port = GetServicePort(svcs[c.service], c.port)
    BY <1>3, <1>4
  <1>6. HasEndpointsAddresses(GetByKey(eps, c.service))
    BY <1>2, <1>5 DEF ReadyBackends
  <1>7. t = [host |-> b.host, port |-> b.port, service |-> b.service, secret |-> b.secret]
    BY <1>2 DEF RuleOf
  <1>8. /\ t.host = c.host /\ t.secret = c.secret /\ t.service = c.service
        /\ t.port = GetServicePort(svcs[c.service], c.port)
    BY <1>5, <1>7
  <1>9. getRouteFromIngress(i, secs, svcs, eps)[t].cert = c.cert
    BY <1>1, <1>5
  <1> QED BY <1>3, <1>6, <1>8, <1>9

\* So the tunnels of an ingress can be found by their secret and service.
LEMMA RouteIndexed ==
    ASSUME NEW i, ProperList(i.tls), i.class = IngressClass,
           NEW secs, NEW svcs, NEW eps, \A n \in DOMAIN secs : n.name # NoName,
           NEW t \in Rules, getRouteFromIngress(i, secs, svcs, eps)[t] # NoTunnel
    PROVE  t.secret \in ingressSecretIndexFunc(i) /\ t.service \in ingressServiceIndexFunc(i)
  <1>1. PICK c \in CertifiedBackends(i, secs) : t.secret = c.secret /\ t.service = c.service
    BY TunnelOrigin
  <1> QED BY <1>1, BackendIndexed

\* The port of a service is the first that matches.
LEMMA FirstPort ==
    ASSUME NEW svc, ProperList(svc), NEW port, MatchingPorts(svc, port) # {}
    PROVE  \E m \in MatchingPorts(svc, port) : GetServicePort(svc, port) = svc[m].port
  <1> DEFINE ms == MatchingPorts(svc, port)
  <1>1. ms \in SUBSET (1..Len(svc)) /\ Len(svc) \in Nat
    BY DEF MatchingPorts, ProperList
  <1>2. \E m \in ms : \A j \in ms : m <= j
    BY <1>1, FirstExists
  <1> HIDE DEF ms
  <1>3. (CHOOSE m \in ms : \A j \in ms : m <= j) \in ms
    BY <1>2
  <1> QED BY <1>3 DEF GetServicePort, ms

-----------------------------------------------------------------------------
(* Two readings of the caches *)

\* Both have the same certificate under n, or neither has one.
SameCert(s1, s2, n) ==
    LET a == GetByKey(s1, n)
        b == GetByKey(s2, n)
    IN  a = b \/ ((a = Absent \/ a.cert = NoCert) /\ (b = Absent \/ b.cert = NoCert))

\* A backend is certified by its secret alone.
LEMMA CertifiedLocal ==
    ASSUME NEW i, NEW s1, NEW s2, NEW b, SameCert(s1, s2, b.secret),
           b \in CertifiedBackends(i, s1)
    PROVE  b \in CertifiedBackends(i, s2)
  <1>1. PICK r \in ServedRules(i) : \E p \in SupportedPaths(r) :
          /\ HasVerifiedCert(s1, RouteSecret(i, r.host), r.host)
          /\ b = [host |-> r.host, secret |-> RouteSecret(i, r.host),
                  cert |-> s1[RouteSecret(i, r.host)].cert,
                  service |-> ServiceOf(i, p), port |-> p.servicePort]
    BY CertifiedOrigin
  <1>2. PICK p \in SupportedPaths(r) :
          b = [host |-> r.host, secret |-> RouteSecret(i, r.host),
               cert |-> s1[RouteSecret(i, r.host)].cert,
               service |-> ServiceOf(i, p), port |-> p.servicePort]
    BY <1>1
  <1> DEFINE n == RouteSecret(i, r.host)
  <1>3. b.secret = n
    BY <1>2
  <1> HIDE DEF n
  <1>4. GetByKey(s1, n) = GetByKey(s2, n) /\ GetByKey(s1, n) # Absent
    BY <1>1, <1>3 DEF SameCert, HasVerifiedCert, n
  <1>5. s1[n] = s2[n] /\ HasVerifiedCert(s2, n, r.host)
    BY <1>1, <1>4 DEF HasVerifiedCert, GetByKey, n
  <1>6. b = [host |-> r.host, secret |-> RouteSecret(i, r.host),
             cert |-> s2[RouteSecret(i, r.host)].cert,
             service |-> ServiceOf(i, p), port |-> p.servicePort]
    BY <1>2, <1>5 DEF n
  <1> QED BY <1>2, <1>5, <1>6 DEF CertifiedBackends, n

\* A backend gets its port from its service alone.
LEMMA PortedLocal ==
    ASSUME NEW bs1, NEW bs2, NEW v1, NEW v2, NEW b,
           \A c \in bs1 : {"secret", "service", "port"} \subseteq DOMAIN c,
           \A c \in bs1 : c.secret = b.secret /\ c.service = b.service => c \in bs2,
           GetByKey(v1, b.service) = GetByKey(v2, b.service),
           b \in PortedBackends(bs1, v1)
    PROVE  b \in PortedBackends(bs2, v2)
  <1>1. PICK c \in bs1 :
          /\ HasServicePort(v1, c.service, c.port)
          /\ b = [c EXCEPT !.port = GetServicePort(v1[c.service], c.port)]
    BY DEF PortedBackends
  <1>2. b.secret = c.secret /\ b.service = c.service
    BY <1>1
  <1>3. c \in bs2
    BY <1>2
  <1>4. v1[c.service] = v2[c.service] /\ HasServicePort(v2, c.service, c.port)
    BY <1>1, <1>2 DEF HasServicePort, GetByKey
  <1> QED BY <1>1, <1>3, <1>4 DEF PortedBackends

\* The tunnel of a rule is made of the backends of that rule.
LEMMA RouteLocal ==
    ASSUME NEW i, NEW bs1, NEW bs2, NEW t \in Rules,
           \A b \in bs1 \cup bs2 : RuleOf(b) = t => (b \in bs1 /\ b \in bs2)
    PROVE  MakeRoute(i, bs1)[t] = MakeRoute(i, bs2)[t]
  <1>1. {b \in bs1 : RuleOf(b) = t} = {b \in bs2 : RuleOf(b) = t}
    OBVIOUS
  <1> QED BY <1>1 DEF MakeRoute

\* The secret and the service of a backend's rule.
LEMMA RuleFields ==
    ASSUME NEW b, NEW t, RuleOf(b) = t
    PROVE  t.secret = b.secret /\ t.service = b.service
  BY DEF RuleOf

\* A tunnel comes from one of its backends.
LEMMA RouteBackend ==
    ASSUME NEW i, NEW bs, NEW t \in Rules, MakeRoute(i, bs)[t] # NoTunnel
    PROVE  \E b \in bs : RuleOf(b) = t
  BY DEF MakeRoute

\* Backends with a port, in two readings that agree on their secret and service.
LEMMA BackendAgrees ==
    ASSUME NEW i, NEW s1, NEW s2, NEW v1, NEW v2, NEW b,
           SameCert(s1, s2, b.secret), GetByKey(v1, b.service) = GetByKey(v2, b.service),
           b \in PortedBackends(CertifiedBackends(i, s1), v1)
    PROVE  b \in PortedBackends(CertifiedBackends(i, s2), v2)
  <1> DEFINE bs1 == CertifiedBackends(i, s1)
             bs2 == CertifiedBackends(i, s2)
  <1>1. \A c \in bs1 : {"secret", "service", "port"} \subseteq DOMAIN c
    <2> TAKE c \in bs1
    <2>1. DOMAIN c = {"host", "secret", "cert", "service", "port"}
      BY ONLY CertifiedShape, c \in CertifiedBackends(i, s1)
    <2> QED BY <2>1
  <1>2. \A c \in bs1 : c.secret = b.secret => c \in bs2
    <2> SUFFICES ASSUME NEW c \in bs1, c.secret = b.secret PROVE c \in bs2
      OBVIOUS
    <2>1. SameCert(s1, s2, c.secret)
      OBVIOUS
    <2> QED BY <2>1, CertifiedLocal
  <1> HIDE DEF bs1, bs2
  <1>3. b \in PortedBackends(bs1, v1)
    BY DEF bs1
  <1>4. b \in PortedBackends(bs2, v2)
    BY <1>1, <1>2, <1>3, PortedLocal
  <1> QED BY <1>4 DEF bs2

\* Agreement is mutual.
LEMMA SameCertSymmetric ==
    ASSUME NEW s1, NEW s2, NEW n, SameCert(s1, s2, n)
    PROVE  SameCert(s2, s1, n)
  BY DEF SameCert

\* A tunnel, in two readings that agree on its secret, service and endpoints.
LEMMA RouteAgrees ==
    ASSUME NEW i, NEW s1, NEW s2, NEW v1, NEW v2, NEW e1, NEW e2, NEW t \in Rules,
           SameCert(s1, s2, t.secret), GetByKey(v1, t.service) = GetByKey(v2, t.service),
           HasEndpointsAddresses(GetByKey(e1, t.service))
             <=> HasEndpointsAddresses(GetByKey(e2, t.service))
    PROVE  getRouteFromIngress(i, s1, v1, e1)[t] = getRouteFromIngress(i, s2, v2, e2)[t]
  <1> DEFINE ps1 == PortedBackends(CertifiedBackends(i, s1), v1)
             ps2 == PortedBackends(CertifiedBackends(i, s2), v2)
             bs1 == ReadyBackends(ps1, e1)
             bs2 == ReadyBackends(ps2, e2)
  <1>1. ASSUME NEW b, RuleOf(b) = t PROVE b \in ps1 <=> b \in ps2
    <2>1. /\ SameCert(s1, s2, b.secret) /\ SameCert(s2, s1, b.secret)
          /\ GetByKey(v1, b.service) = GetByKey(v2, b.service)
      BY <1>1, RuleFields, SameCertSymmetric
    <2> QED BY ONLY <2>1, BackendAgrees
  <1> HIDE DEF ps1, ps2
  <1>2. ASSUME NEW b, RuleOf(b) = t PROVE b \in bs1 <=> b \in bs2
    <2>1. b.service = t.service
      BY <1>2, RuleFields
    <2> QED BY <1>1, <1>2, <2>1 DEF ReadyBackends
  <1> HIDE DEF bs1, bs2
  <1>3. MakeRoute(i, bs1)[t] = MakeRoute(i, bs2)[t]
    BY <1>2, RouteLocal
  <1> QED BY <1>3 DEF getRouteFromIngress, bs1, bs2, ps1, ps2
=============================================================================
