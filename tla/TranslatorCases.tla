--------------------------- MODULE TranslatorCases ---------------------------
(***************************************************************************)
(* The translator over every ingress and every content of the caches: the  *)
(* state is one input of getRouteFromIngress, and each step replaces one   *)
(* part of it.                                                             *)
(***************************************************************************)
EXTENDS Translator

CONSTANTS
    Ingresses,     \* ingress objects
    SecretCaches, ServiceCaches, EndpointCaches   \* contents of the caches

\* Kubernetes gives every object a name; spec.tls and the ports of a service
\* are lists.
ASSUME ObjectAssumption ==
    /\ \A cache \in SecretCaches : \A s \in DOMAIN cache : s.name # NoName
    /\ \A i \in Ingresses : Len(i.tls) \in Nat /\ DOMAIN i.tls = 1..Len(i.tls)
    /\ \A cache \in ServiceCaches : \A n \in DOMAIN cache :
         cache[n] # Absent =>
           Len(cache[n]) \in Nat /\ DOMAIN cache[n] = 1..Len(cache[n])

\* Rules has every rule that the translator can make of them, Configs every
\* certificate with the options of an ingress.
ASSUME RulesAssumption ==
    \A i \in Ingresses, ss \in SecretCaches :
      /\ \A vs \in ServiceCaches :
           {RuleOf(b) : b \in PortedBackends(CertifiedBackends(i, ss), vs)} \subseteq Rules
      /\ \A n \in DOMAIN ss :
           ss[n] # Absent => ss[n].cert = NoCert \/ [cert |-> ss[n].cert, opts |-> i.opts] \in Configs

VARIABLES ing, secrets, services, endpoints
vars == <<ing, secrets, services, endpoints>>

Init ==
    /\ ing \in Ingresses
    /\ secrets \in SecretCaches
    /\ services \in ServiceCaches
    /\ endpoints \in EndpointCaches

Next ==
    \/ ing' \in Ingresses /\ UNCHANGED <<secrets, services, endpoints>>
    \/ secrets' \in SecretCaches /\ UNCHANGED <<ing, services, endpoints>>
    \/ services' \in ServiceCaches /\ UNCHANGED <<ing, secrets, endpoints>>
    \/ endpoints' \in EndpointCaches /\ UNCHANGED <<ing, secrets, services>>

Spec == Init /\ [][Next]_vars

route == getRouteFromIngress(ing, secrets, services, endpoints)
Tunnels == {r \in Rules : route[r] # NoTunnel}

-----------------------------------------------------------------------------
(* Properties *)

\* Whatever a tunnel of the controller's class depends on is indexed: a later
\* event of its secret, its service or its endpoints leads back to the ingress
\* (ByIndex and IndexKeys of translator.go), though the index functions and
\* the translator resolve secrets by code of their own.
TunnelsIndexed ==
    ing.class = IngressClass =>
      \A r \in Tunnels : /\ r.secret \in ingressSecretIndexFunc(ing)
                         /\ r.service \in ingressServiceIndexFunc(ing)

\* A tunnel needs all of: a rule of the ingress for its host and service, a
\* secret whose certificate covers the host, a TCP port of the service, and
\* an endpoint with an address.  It is configured with that certificate.
TunnelsMeetCriteria ==
    \A t \in Tunnels :
      /\ \E r \in ing.rules, p \in UNION {q.paths : q \in ing.rules} :
           /\ r.http /\ r.host = t.host /\ p \in r.paths
           /\ p.serviceName = t.service.name /\ ing.namespace = t.service.namespace
      /\ secrets[t.secret].cert = route[t].cert
      /\ <<route[t].cert, t.host>> \in Covers
      /\ \E i \in DOMAIN services[t.service] :
           /\ services[t.service][i].port = t.port
           /\ services[t.service][i].protocol = "TCP"
      /\ \E n \in endpoints[t.service] : n > 0

\* Every host gets a tunnel that can have one: a rule whose secret covers the
\* host, with a supported path to a ready service, is never left out.
NoBackendLost ==
    \A r \in ing.rules : \A p \in r.paths :
      LET svc == [namespace |-> ing.namespace, name |-> p.serviceName]
      IN  /\ r.http /\ r.host # NoName /\ p.path \in {"", "/"} /\ p.serviceName # NoName
          /\ HasVerifiedCert(secrets, RouteSecret(ing, r.host), r.host)
          /\ HasServicePort(services, svc, p.servicePort)
          /\ HasEndpointsAddresses(GetByKey(endpoints, svc))
          => \E t \in Tunnels : t.host = r.host /\ t.service = svc

\* docs/controls.md on --default-origin-secret: "any tunnel that does not
\* specify a secret will use this default", and on --origin-secret-config the
\* same of "any matching host".  A host whose TLS entries name no secret gets the
\* default that applies to it, of its origin secret group or of the flag.
DefaultSecretUsed ==
    \A r \in ServedRules(ing) :
      (\A i \in HostEntries(ing, r.host) : ing.tls[i].secretName = NoName)
        => RouteSecret(ing, r.host) = FallbackSecret(r.host)
=============================================================================
