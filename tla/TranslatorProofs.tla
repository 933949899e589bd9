-------------------------- MODULE TranslatorProofs --------------------------
(***************************************************************************)
(* What TranslatorCases checks on small caches, for all of them.           *)
(***************************************************************************)
EXTENDS TranslatorCases, TranslatorLemmas

Typed == ing \in Ingresses /\ secrets \in SecretCaches /\ services \in ServiceCaches

\* The objects stay those of the instance.
LEMMA TypedHolds == Spec => []Typed
  <1>1. Init => Typed
    BY DEF Init, Typed
  <1>2. Typed /\ [Next]_vars => Typed'
    BY DEF Next, vars, Typed
  <1> QED BY <1>1, <1>2, PTL DEF Spec

\* A change of the secret or of the service of a tunnel always leads back to
\* the ingress of the tunnel: both are in the index of the ingress.
THEOREM TunnelsIndexedHolds == Spec => []TunnelsIndexed
  <1>1. Typed => TunnelsIndexed
    <2> SUFFICES ASSUME Typed, ing.class = IngressClass, NEW t \in Tunnels
                 PROVE  /\ t.secret \in ingressSecretIndexFunc(ing)
                        /\ t.service \in ingressServiceIndexFunc(ing)
      BY DEF TunnelsIndexed
    <2>1. t \in Rules /\ getRouteFromIngress(ing, secrets, services, endpoints)[t] # NoTunnel
      BY DEF Tunnels, route
    <2> QED BY <2>1, RouteIndexed, ObjectAssumption DEF ProperList, Typed
  <1> QED BY <1>1, TypedHolds, PTL

\* Every tunnel of getRouteFromIngress has a rule of the ingress, a secret that
\* covers its host, a TCP port of its service and an endpoint behind it.
THEOREM CriteriaMet == Spec => []TunnelsMeetCriteria
  <1>1. ASSUME Typed PROVE TunnelsMeetCriteria
    <2> SUFFICES ASSUME NEW t \in Tunnels
                 PROVE
                   /\ \E r \in ing.rules, p \in UNION {q.paths : q \in ing.rules} :
                        /\ r.http /\ r.host = t.host /\ p \in r.paths
                        /\ p.serviceName = t.service.name
                        /\ ing.namespace = t.service.namespace
                   /\ secrets[t.secret].cert = route[t].cert
                   /\ <<route[t].cert, t.host>> \in Covers
                   /\ \E i \in DOMAIN services[t.service] :
                        /\ services[t.service][i].port = t.port
                        /\ services[t.service][i].protocol = "TCP"
                   /\ \E n \in endpoints[t.service] : n > 0
      BY DEF TunnelsMeetCriteria
    <2>1. PICK c \in CertifiedBackends(ing, secrets) :
            /\ HasServicePort(services, c.service, c.port)
            /\ HasEndpointsAddresses(GetByKey(endpoints, c.service))
            /\ t.host = c.host /\ t.secret = c.secret /\ t.service = c.service
            /\ t.port = GetServicePort(services[c.service], c.port)
            /\ route[t].cert = c.cert
      BY TunnelOrigin DEF Tunnels, route
    <2>2. PICK r \in ServedRules(ing) : \E p \in SupportedPaths(r) :
            /\ HasVerifiedCert(secrets, RouteSecret(ing, r.host), r.host)
            /\ c = [host |-> r.host, secret |-> RouteSecret(ing, r.host),
                    cert |-> secrets[RouteSecret(ing, r.host)].cert,
                    service |-> ServiceOf(ing, p), port |-> p.servicePort]
      BY CertifiedOrigin
    <2>3. PICK p \in SupportedPaths(r) :
            c = [host |-> r.host, secret |-> RouteSecret(ing, r.host),
                 cert |-> secrets[RouteSecret(ing, r.host)].cert,
                 service |-> ServiceOf(ing, p), port |-> p.servicePort]
      BY <2>2
    <2>4. \E x \in ing.rules, y \in UNION {q.paths : q \in ing.rules} :
            /\ x.http /\ x.host = t.host /\ y \in x.paths
            /\ y.serviceName = t.service.name /\ ing.namespace = t.service.namespace
      <3>1. r \in ing.rules /\ r.http /\ r.host = t.host
        BY <2>1, <2>3 DEF ServedRules
      <3>2. p \in r.paths /\ p \in UNION {q.paths : q \in ing.rules}
        BY <3>1 DEF SupportedPaths
      <3>3. t.service = [namespace |-> ing.namespace, name |-> p.serviceName]
        BY <2>1, <2>3 DEF ServiceOf
      <3> QED BY <3>1, <3>2, <3>3
    <2>5. secrets[t.secret].cert = route[t].cert
      BY <2>1, <2>3
    <2>6. <<route[t].cert, t.host>> \in Covers
      <3>1. t.secret = RouteSecret(ing, r.host) /\ t.host = r.host
        BY <2>1, <2>3
      <3>2. HasVerifiedCert(secrets, t.secret, t.host)
        BY <2>2, <3>1
      <3> QED BY <2>5, <3>2 DEF HasVerifiedCert, verifyCertForHost, GetByKey
    <2>7. \E i \in DOMAIN services[t.service] :
            /\ services[t.service][i].port = t.port
            /\ services[t.service][i].protocol = "TCP"
      <3>1. /\ t.service \in DOMAIN services /\ services[t.service] # Absent
            /\ MatchingPorts(services[t.service], c.port) # {}
        BY <2>1 DEF HasServicePort, GetByKey
      <3>2. ProperList(services[t.service])
        BY <1>1, <3>1, ObjectAssumption DEF Typed, ProperList
      <3>3. PICK m \in MatchingPorts(services[t.service], c.port) :
              t.port = services[t.service][m].port
        BY <2>1, <3>1, <3>2, FirstPort
      <3> QED BY <3>3 DEF MatchingPorts
    <2>8. \E n \in endpoints[t.service] : n > 0
      BY <2>1 DEF HasEndpointsAddresses, GetByKey
    <2> QED BY <2>4, <2>5, <2>6, <2>7, <2>8
  <1> QED BY <1>1, TypedHolds, PTL

\* No rule and path that meet the criteria are left without a tunnel.
THEOREM BackendsKept == Spec => []NoBackendLost
  <1>1. ASSUME Typed PROVE NoBackendLost
    <2> SUFFICES ASSUME NEW r \in ing.rules, NEW p \in r.paths,
                        r.http /\ r.host # NoName /\ p.path \in {"", "/"} /\ p.serviceName # NoName,
                        HasVerifiedCert(secrets, RouteSecret(ing, r.host), r.host),
                        HasServicePort(services, ServiceOf(ing, p), p.servicePort),
                        HasEndpointsAddresses(GetByKey(endpoints, ServiceOf(ing, p)))
                 PROVE  \E t \in Tunnels : t.host = r.host /\ t.service = ServiceOf(ing, p)
      BY DEF NoBackendLost, ServiceOf
    <2>0. \A d \in CertifiedBackends(ing, secrets) : \E n \in DOMAIN secrets :
             d.cert = secrets[n].cert /\ secrets[n] # Absent /\ secrets[n].cert # NoCert
      BY ONLY CertifiedCert
    <2> DEFINE svc == ServiceOf(ing, p)
               c == [host |-> r.host, secret |-> RouteSecret(ing, r.host),
                     cert |-> secrets[RouteSecret(ing, r.host)].cert,
                     service |-> svc, port |-> p.servicePort]
               port == GetServicePort(services[svc], p.servicePort)
               b == [c EXCEPT !.port = port]
               cs == CertifiedBackends(ing, secrets)
               bs == ReadyBackends(PortedBackends(cs, services), endpoints)
    <2>1. c \in cs
      <3>1. r \in ServedRules(ing) /\ p \in SupportedPaths(r)
        BY DEF ServedRules, SupportedPaths
      <3> QED BY <3>1, CertifiedMember
    <2>2. /\ c.service = svc /\ c.port = p.servicePort
          /\ b.service = svc /\ b.host = r.host
      OBVIOUS
    <2>3. b \in PortedBackends(cs, services)
      <3> HIDE DEF c, cs
      <3> QED BY <2>1, <2>2 DEF PortedBackends
    <2>4. b \in bs
      <3> HIDE DEF b, cs
      <3> QED BY <2>2, <2>3 DEF ReadyBackends
    <2>5. RuleOf(b) \in Rules
      <3> HIDE DEF b
      <3> QED BY <1>1, <2>3, RulesAssumption DEF Typed
    <2>6. RuleOf(b).host = r.host /\ RuleOf(b).service = svc
      BY <2>2 DEF RuleOf
    <2>7. route[RuleOf(b)] # NoTunnel
      <3> DEFINE same == {x \in bs : RuleOf(x) = RuleOf(b)}
                 x == CHOOSE y \in same : TRUE
      <3>1. same # {}
        <4> HIDE DEF b, bs
        <4> QED BY <2>4
      <3>2. route[RuleOf(b)] = [cert |-> x.cert, opts |-> ing.opts]
        <4> HIDE DEF b
        <4> QED BY <2>5, <3>1 DEF route, getRouteFromIngress, MakeRoute
      <3>3. x \in PortedBackends(cs, services)
        <4>1. x \in same
          BY <3>1
        <4> QED BY <4>1 DEF ReadyBackends
      <3> HIDE DEF x, b
      <3>4. PICK d \in cs : x = [d EXCEPT !.port = GetServicePort(services[d.service], d.port)]
        BY <3>3 DEF PortedBackends
      <3>5. x.cert = d.cert
        BY <3>4, CertifiedShape
      <3>6. PICK n \in DOMAIN secrets :
              d.cert = secrets[n].cert /\ secrets[n] # Absent /\ secrets[n].cert # NoCert
        BY <2>0
      <3>7. [cert |-> x.cert, opts |-> ing.opts] \in Configs
        BY <1>1, <3>5, <3>6, RulesAssumption DEF Typed
      <3> QED BY <3>2, <3>7, RoutesAssumption
    <2> QED BY <2>5, <2>6, <2>7 DEF Tunnels
  <1> QED BY <1>1, TypedHolds, PTL
=============================================================================
