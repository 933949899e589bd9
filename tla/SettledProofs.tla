--------------------------- MODULE SettledProofs ---------------------------
(***************************************************************************)
(* The controller settles on the right tunnels, for any cluster, when it   *)
(* has one worker, sees every delete, and ingresses keep their class.  The *)
(* runs stale_route, tombstone and reclassed drop one of these each, and   *)
(* tunnels are left that should not be there.                              *)
(*                                                                         *)
(* A tunnel that is not what the caches ask for is on its way to be: some  *)
(* resource it depends on is Pending (a notification, an item of the queue *)
(* or the worker's first steps with it), or the worker is about to replace *)
(* the route (Rewrites) or to take tunnels out of it (Prunes).  For the    *)
(* latter the invariant says how old what the worker has read may be: it   *)
(* differs from the caches only where something is pending again.          *)
(*                                                                         *)
(* The last part is about any number of workers, in a cluster that changes *)
(* only when the controller is quiet (CalmSpec).  What a worker holds is   *)
(* then exact, and a tunnel that is not right is seen to by some worker.   *)
(***************************************************************************)
EXTENDS ControllerProofs, TranslatorLemmas

OneWorker    == \E w : Workers = {w}
SeenDeletes  == ~MissedDeletes
FixedClasses ==
    \A k \in Keys : \A a, b \in Objects["ingress"][k] :
       a.class = IngressClass => b.class = IngressClass

-----------------------------------------------------------------------------
(* The inductive invariant *)

\* A change of the resource is notified, or the worker w has yet to look at the
\* resource and at the ingresses that use it.
Pending(w, kind, n) ==
    \/ Notified(kind, n)
    \/ work[w].item = Item(kind, n) /\ work[w].pc \in {"handle", "updateByKind", "deleteByKind"}

\* Something the tunnel t of the ingress k depends on is pending.
Unsettled(w, k, t) ==
    \/ Pending(w, "ingress", k) \/ Pending(w, "secret", t.secret)
    \/ Pending(w, "service", t.service) \/ Pending(w, "endpoint", t.service)

\* What the worker is about to do to the table.
Reading(w)  == work[w].pc \in {"readServices", "readEndpoints"}
Rewrites(w, k) ==
    \/ /\ work[w].pc \in Translating
       /\ \/ k \in DOMAIN work[w].routes
          \/ \E x \in work[w].todo : x.key = k
          \/ Reading(w) /\ work[w].cur.key = k
    \/ work[w].pc = "deleteIngress" /\ work[w].item.name = k
Prunes(w, k, t) ==
    /\ work[w].pc = "deleteByKindKeys" /\ k \in work[w].todo
    /\ getKindRuleResource(work[w].item.kind, t) = work[w].item.name

\* The ingress is indexed under the resources of the tunnel.
Lists(k, t) ==
    LET ing == cache["ingress"][k]
    IN  /\ ing # Absent
        /\ t.secret \in ingressSecretIndexFunc(ing)
        /\ t.service \in ingressServiceIndexFunc(ing)

\* The table: what is not as wanted is being seen to, and what is there can be
\* found by its resources.
TableSettles(w) ==
    \A k \in ServedKeys, t \in Rules :
      \/ tunnels[k][t] = Wanted(k)[t]
      \/ Unsettled(w, k, t) \/ Rewrites(w, k) \/ Prunes(w, k, t)
TableIndexed(w) ==
    \A k \in ServedKeys, t \in Rules :
      tunnels[k][t] # NoTunnel => Pending(w, "ingress", k) \/ Rewrites(w, k) \/ Lists(k, t)

\* Ingresses that the worker has read are those of the cache, or notified.
Current(x) == x.ing = cache["ingress"][x.key] \/ Notified("ingress", x.key)
JobsCurrent(w) ==
    /\ work[w].pc \in Translating => \A x \in work[w].todo : Current(x)
    /\ Reading(w) => Current(work[w].cur)

\* So are the secrets and services behind the backends it has found, and the
\* backends can be found by them.
FoundCurrent(w) ==
    LET ing == work[w].cur.ing
        certified == CertifiedBackends(ing, cache["secret"])
        ported    == PortedBackends(certified, cache["service"])
    IN  /\ work[w].pc = "readServices" =>
             \A b \in work[w].found \cup certified :
               \/ b \in work[w].found /\ b \in certified
               \/ Notified("secret", b.secret)
        /\ work[w].pc = "readEndpoints" =>
             \A b \in work[w].found \cup ported :
               \/ b \in work[w].found /\ b \in ported
               \/ Notified("secret", b.secret) \/ Notified("service", b.service)
        /\ Reading(w) =>
             \A b \in work[w].found : /\ b.secret \in ingressSecretIndexFunc(ing)
                                      /\ b.service \in ingressServiceIndexFunc(ing)

\* And the routes it has made.
RoutesCurrent(w) ==
    work[w].pc \in Translating =>
      \A k \in DOMAIN work[w].routes, t \in Rules :
        /\ work[w].routes[k][t] = Wanted(k)[t] \/ Unsettled(w, k, t)
        /\ work[w].routes[k][t] # NoTunnel => Notified("ingress", k) \/ Lists(k, t)

\* What it found gone is gone, or notified.
GoneCurrent(w) ==
    LET item == work[w].item
    IN  /\ work[w].pc = "deleteIngress" =>
             /\ item.kind = "ingress"
             /\ cache["ingress"][item.name] = Absent \/ Notified("ingress", item.name)
        /\ work[w].pc \in {"updateByKind", "deleteByKind", "deleteByKindKeys"} =>
             item.kind \in {"endpoint", "secret", "service"}
        /\ work[w].pc \in {"deleteByKind", "deleteByKindKeys"} =>
             ~Passes(item.kind, cache[item.kind][item.name]) \/ Notified(item.kind, item.name)

\* No item is without a kind, none fails, and the routes of a call are those of
\* one item, and all of them.
Plain(w) ==
    /\ \A kind \in Kinds : \A i \in 1..Len(events[kind]) : events[kind][i].missed = FALSE
    /\ delayed = {} /\ \A i \in dirty \cup processing : i.kind \in Kinds
    /\ work[w].err = FALSE
    /\ work[w].pc \in {"handle", "updateByKind"} => DOMAIN work[w].routes = {}
    /\ work[w].pc = "update" => work[w].todo = {}

SettleInv(w) ==
    /\ TableSettles(w) /\ TableIndexed(w)
    /\ JobsCurrent(w) /\ FoundCurrent(w) /\ RoutesCurrent(w) /\ GoneCurrent(w)
    /\ Plain(w)

-----------------------------------------------------------------------------
(* What the caches ask for *)

\* Objects of a served ingress are objects and of the controller's class.
LEMMA ServedObjects ==
    ASSUME FixedClasses, NEW k \in ServedKeys, NEW obj \in Objects["ingress"][k]
    PROVE  /\ obj.class = IngressClass /\ obj # Absent /\ ProperList(obj.tls)
           /\ Passes("ingress", obj)
  <1>1. k \in Keys /\ k \in DOMAIN Objects["ingress"]
    BY ControllerAssumption DEF ServedKeys
  <1>2. obj.class = IngressClass
    BY <1>1 DEF FixedClasses, ServedKeys
  <1>3. obj # Absent /\ ProperList(obj.tls)
    BY <1>1, ClusterAssumption DEF Kinds, ProperList
  <1> QED BY <1>2, <1>3 DEF Passes

\* A wanted tunnel is made from the ingress of the cache.
LEMMA WantedRoute ==
    ASSUME Inv, NEW k \in ServedKeys, NEW t \in Rules, Wanted(k)[t] # NoTunnel
    PROVE  LET ing == cache["ingress"][k]
           IN  /\ ing \in Objects["ingress"][k] /\ ing # Absent /\ ing.class = IngressClass
               /\ ProperList(ing.tls)
               /\ getRouteFromIngress(ing, cache["secret"], cache["service"],
                                      cache["endpoint"])[t] # NoTunnel
  <1>1. k \in Keys /\ k \in DOMAIN Objects["ingress"]
    BY ControllerAssumption DEF ServedKeys
  <1>2. NoRoute[t] = NoTunnel
    BY DEF NoRoute
  <1>3. /\ cache["ingress"][k] # Absent /\ cache["ingress"][k].class = IngressClass
        /\ getRouteFromIngress(cache["ingress"][k], cache["secret"], cache["service"],
                               cache["endpoint"])[t] # NoTunnel
    BY <1>2 DEF Wanted
  <1>4. cache["ingress"][k] \in Objects["ingress"][k]
    BY <1>1, <1>3 DEF Inv, CacheInv, Kinds
  <1>5. ProperList(cache["ingress"][k].tls)
    BY <1>1, <1>4, ClusterAssumption DEF ProperList
  <1> QED BY <1>3, <1>4, <1>5

\* It can be found by its resources,
LEMMA WantedIndexed ==
    ASSUME Inv, NEW k \in ServedKeys, NEW t \in Rules, Wanted(k)[t] # NoTunnel
    PROVE  Lists(k, t)
  <1> DEFINE ing == cache["ingress"][k]
  <1>1. /\ ing # Absent /\ ing.class = IngressClass /\ ProperList(ing.tls)
        /\ getRouteFromIngress(ing, cache["secret"], cache["service"],
                               cache["endpoint"])[t] # NoTunnel
    BY WantedRoute
  <1>2. \A n \in DOMAIN cache["secret"] : n.name # NoName
    BY ClusterAssumption DEF Inv, CacheInv, Kinds
  <1> HIDE DEF ing
  <1>3. t.secret \in ingressSecretIndexFunc(ing) /\ t.service \in ingressServiceIndexFunc(ing)
    BY <1>1, <1>2, RouteIndexed
  <1> QED BY <1>1, <1>3 DEF Lists, ing

\* and they are there.
LEMMA WantedNeeds ==
    ASSUME Inv, NEW k \in ServedKeys, NEW t \in Rules, Wanted(k)[t] # NoTunnel
    PROVE  /\ cache["ingress"][k] # Absent
           /\ Passes("secret", cache["secret"][t.secret])
           /\ Passes("service", cache["service"][t.service])
           /\ Passes("endpoint", cache["endpoint"][t.service])
  <1> DEFINE ing == cache["ingress"][k]
  <1>1. /\ ing # Absent
        /\ getRouteFromIngress(ing, cache["secret"], cache["service"],
                               cache["endpoint"])[t] # NoTunnel
    BY WantedRoute
  <1> HIDE DEF ing
  <1>2. PICK c \in CertifiedBackends(ing, cache["secret"]) :
          /\ HasServicePort(cache["service"], c.service, c.port)
          /\ HasEndpointsAddresses(GetByKey(cache["endpoint"], c.service))
          /\ t.secret = c.secret /\ t.service = c.service
    BY <1>1, TunnelOrigin
  <1>3. PICK r \in ServedRules(ing) :
          /\ HasVerifiedCert(cache["secret"], RouteSecret(ing, r.host), r.host)
          /\ c.secret = RouteSecret(ing, r.host)
    BY CertifiedOrigin
  <1>4. Passes("secret", cache["secret"][t.secret])
    BY <1>2, <1>3 DEF HasVerifiedCert, GetByKey, Passes
  <1>5. Passes("service", cache["service"][t.service])
    BY <1>2 DEF HasServicePort, GetByKey, Passes
  <1>6. Passes("endpoint", cache["endpoint"][t.service])
    BY <1>2 DEF HasEndpointsAddresses, GetByKey, Passes
  <1> QED BY <1>1, <1>4, <1>5, <1>6 DEF ing

\* Every change that a filter lets through is announced.
Announced ==
    \A kind \in Kinds : \A n :
      \/ GetByKey(cache'[kind], n) = GetByKey(cache[kind], n)
      \/ /\ ~Passes(kind, GetByKey(cache[kind], n))
         /\ ~Passes(kind, GetByKey(cache'[kind], n))
      \/ Notified(kind, n)'

\* The others do not matter to a served ingress or a tunnel.
Agree ==
    /\ \A k \in ServedKeys :
         cache'["ingress"][k] = cache["ingress"][k] \/ Notified("ingress", k)'
    /\ \A n : SameCert(cache["secret"], cache'["secret"], n) \/ Notified("secret", n)'
    /\ \A n : \/ GetByKey(cache["service"], n) = GetByKey(cache'["service"], n)
              \/ Notified("service", n)'
    /\ \A n : \/ HasEndpointsAddresses(GetByKey(cache["endpoint"], n))
                   <=> HasEndpointsAddresses(GetByKey(cache'["endpoint"], n))
              \/ Notified("endpoint", n)'

LEMMA AnnouncedAgree ==
    ASSUME Inv, Inv', FixedClasses, Announced
    PROVE  Agree
  <1> USE DEF Kinds
  <1>1. ASSUME NEW k \in ServedKeys, ~Notified("ingress", k)'
        PROVE  cache'["ingress"][k] = cache["ingress"][k]
    <2>1. k \in DOMAIN Objects["ingress"]
      BY ControllerAssumption DEF ServedKeys
    <2>2. GetByKey(cache["ingress"], k) = cache["ingress"][k]
      BY <2>1 DEF GetByKey, Inv, CacheInv
    <2>3. GetByKey(cache'["ingress"], k) = cache'["ingress"][k]
      BY <2>1 DEF GetByKey, Inv, CacheInv
    <2>4. cache["ingress"][k] = Absent \/ Passes("ingress", cache["ingress"][k])
      BY <2>1, ServedObjects DEF Inv, CacheInv
    <2>5. cache'["ingress"][k] = Absent \/ Passes("ingress", cache'["ingress"][k])
      BY <2>1, ServedObjects DEF Inv, CacheInv
    <2> QED BY <1>1, <2>2, <2>3, <2>4, <2>5 DEF Announced
  <1>2. ASSUME NEW n, ~Notified("secret", n)'
        PROVE  SameCert(cache["secret"], cache'["secret"], n)
    BY <1>2 DEF Announced, Passes, SameCert
  <1>3. ASSUME NEW n, ~Notified("service", n)'
        PROVE  GetByKey(cache["service"], n) = GetByKey(cache'["service"], n)
    BY <1>3 DEF Announced, Passes
  <1>4. ASSUME NEW n, ~Notified("endpoint", n)'
        PROVE  HasEndpointsAddresses(GetByKey(cache["endpoint"], n))
                 <=> HasEndpointsAddresses(GetByKey(cache'["endpoint"], n))
    BY <1>4 DEF Announced, Passes, HasEndpointsAddresses
  <1> QED BY <1>1, <1>2, <1>3, <1>4 DEF Agree

\* What is wanted then stays, where nothing is pending.
LEMMA WantedAgrees ==
    ASSUME Agree, NEW w, NEW k \in ServedKeys, NEW t \in Rules, ~Unsettled(w, k, t)'
    PROVE  Wanted(k)'[t] = Wanted(k)[t]
  <1>1. /\ cache'["ingress"][k] = cache["ingress"][k]
        /\ SameCert(cache["secret"], cache'["secret"], t.secret)
        /\ GetByKey(cache["service"], t.service) = GetByKey(cache'["service"], t.service)
        /\ HasEndpointsAddresses(GetByKey(cache["endpoint"], t.service))
             <=> HasEndpointsAddresses(GetByKey(cache'["endpoint"], t.service))
    BY DEF Agree, Unsettled, Pending
  <1> DEFINE ing == cache["ingress"][k]
  <1>2. getRouteFromIngress(ing, cache["secret"], cache["service"], cache["endpoint"])[t]
          = getRouteFromIngress(ing, cache'["secret"], cache'["service"], cache'["endpoint"])[t]
    <2> HIDE DEF ing
    <2> QED BY ONLY t \in Rules, <1>1, RouteAgrees
  <1> QED BY <1>1, <1>2 DEF Wanted

-----------------------------------------------------------------------------
(* The cluster and the handlers *)

\* Nothing that was announced is lost.
Kept == \A kind \in Kinds : \A n : Notified(kind, n) => Notified(kind, n)'

\* An edit announces itself.
LEMMA EditAnnounced ==
    ASSUME Inv, SeenDeletes, NEW w, Plain(w), NEW kind \in Kinds,
           NEW name \in DOMAIN Objects[kind],
           NEW new \in Objects[kind][name] \cup {Absent}, NEW missed \in BOOLEAN,
           Edit(kind, name, new, missed)
    PROVE  Announced /\ Kept /\ Plain(w)'
  <1> DEFINE e == Event(name, cache[kind][name], new, missed)
  <1>1. missed = FALSE /\ e.missed = FALSE /\ e.name = name
        /\ e.old = cache[kind][name] /\ e.new = new
    BY DEF Edit, SeenDeletes, Event
  <1> HIDE DEF e
  <1>2. e \in Notifications(kind)
    <2>1. cache[kind][name] \in Objects[kind][name] \cup {Absent}
      BY DEF Inv, CacheInv
    <2>2. e \in [name : {name}, old : Objects[kind][name] \cup {Absent},
                 new : Objects[kind][name] \cup {Absent}, missed : BOOLEAN]
      BY <2>1 DEF Event, e
    <2> QED BY <2>2 DEF Notifications
  <1>3. /\ events[kind] \in Seq(Notifications(kind)) /\ Len(events[kind]) \in Nat
        /\ events'[kind] = Append(events[kind], e)
        /\ \A k \in Kinds \ {kind} : events'[k] = events[k]
    BY DEF Edit, Inv, CacheInv, e
  <1>4. /\ Len(events'[kind]) = Len(events[kind]) + 1
        /\ \A i \in 1..Len(events[kind]) : events'[kind][i] = events[kind][i]
        /\ events'[kind][Len(events[kind]) + 1] = e
    BY <1>2, <1>3, AppendProperties
  <1>5. dirty' = dirty /\ processing' = processing /\ delayed' = delayed /\ work' = work
    BY DEF Edit, qvars
  <1>6. Kept
    <2> SUFFICES ASSUME NEW k \in Kinds, NEW n, Notified(k, n) PROVE Notified(k, n)'
      BY DEF Kept
    <2>1. CASE Item(k, n) \in dirty
      BY <1>5, <2>1 DEF Notified
    <2>2. ASSUME NEW i \in 1..Len(events[k]), Item(k, n) \in Queued(k, events[k][i])
          PROVE  Notified(k, n)'
      <3>1. i \in 1..Len(events'[k]) /\ events'[k][i] = events[k][i]
        BY <1>3, <1>4
      <3> QED BY <2>2, <3>1 DEF Notified
    <2> QED BY <2>1, <2>2 DEF Notified
  <1>7. Passes(kind, cache[kind][name]) \/ Passes(kind, new) => Notified(kind, name)'
    <2>1. Len(events[kind]) + 1 \in 1..Len(events'[kind])
      BY <1>3, <1>4
    <2>2. Passes(kind, cache[kind][name]) \/ Passes(kind, new)
            => Item(kind, name) \in Queued(kind, e)
      BY <1>1 DEF Queued
    <2> QED BY <1>4, <2>1, <2>2 DEF Notified
  <1>8. Announced
    <2> SUFFICES ASSUME NEW k \in Kinds, NEW n
                 PROVE  \/ GetByKey(cache'[k], n) = GetByKey(cache[k], n)
                        \/ /\ ~Passes(k, GetByKey(cache[k], n))
                           /\ ~Passes(k, GetByKey(cache'[k], n))
                        \/ Notified(k, n)'
      BY DEF Announced
    <2>1. DOMAIN cache = Kinds /\ DOMAIN cache[kind] = DOMAIN Objects[kind]
      BY DEF Inv, CacheInv
    <2>2. CASE k = kind /\ n = name
      <3>1. GetByKey(cache[k], n) = cache[kind][name] /\ GetByKey(cache'[k], n) = new
        BY <2>1, <2>2 DEF Edit, GetByKey
      <3> QED BY <1>7, <2>2, <3>1
    <2>3. CASE k # kind \/ n # name
      BY <2>1, <2>3 DEF Edit, GetByKey
    <2> QED BY <2>2, <2>3
  <1>9. Plain(w)'
    <2>1. \A k \in Kinds : \A i \in 1..Len(events'[k]) : events'[k][i].missed = FALSE
      <3> SUFFICES ASSUME NEW k \in Kinds, NEW i \in 1..Len(events'[k])
                   PROVE  events'[k][i].missed = FALSE
        OBVIOUS
      <3>1. CASE k # kind
        BY <1>3, <3>1 DEF Plain
      <3>2. CASE k = kind /\ i = Len(events[kind]) + 1
        BY <1>1, <1>4, <3>2
      <3>3. CASE k = kind /\ i # Len(events[kind]) + 1
        <4>1. i \in 1..Len(events[kind])
          BY <1>3, <1>4, <3>3
        <4> QED BY <1>4, <3>3, <4>1 DEF Plain
      <3> QED BY <3>1, <3>2, <3>3
    <2> QED BY <1>5, <2>1 DEF Plain
  <1> QED BY <1>6, <1>8, <1>9

\* A handler passes its notification on to the queue.
LEMMA DeliverAnnounced ==
    ASSUME Inv, NEW w, Plain(w), NEW kind \in Kinds, Deliver(kind)
    PROVE  Announced /\ Kept /\ Plain(w)'
  <1>1. /\ events[kind] \in Seq(Notifications(kind)) /\ Len(events[kind]) \in Nat
        /\ events[kind] # <<>> /\ QueueInv
        /\ events'[kind] = Tail(events[kind])
        /\ \A k \in Kinds \ {kind} : events'[k] = events[k]
    BY DEF Deliver, Inv, CacheInv
  <1> DEFINE e == Head(events[kind])
  <1>2. /\ Len(events[kind]) >= 1 /\ e = events[kind][1] /\ e \in Notifications(kind)
        /\ Len(events'[kind]) = Len(events[kind]) - 1
        /\ \A i \in 1..Len(events[kind]) - 1 : events'[kind][i] = events[kind][i + 1]
    BY <1>1, HeadTailProperties, EmptySeq
  <1>3. dirty' = dirty \cup Queued(kind, e)
    BY <1>1, <1>2, QueuedServed, AddKeepsQueue DEF Deliver
  <1>4. cache' = cache /\ processing' = processing /\ delayed' = delayed /\ work' = work
    BY DEF Deliver
  <1> HIDE DEF e
  <1>5. Kept
    <2> SUFFICES ASSUME NEW k \in Kinds, NEW n, Notified(k, n) PROVE Notified(k, n)'
      BY DEF Kept
    <2>1. CASE Item(k, n) \in dirty
      BY <1>3, <2>1 DEF Notified
    <2>2. ASSUME NEW i \in 1..Len(events[k]), Item(k, n) \in Queued(k, events[k][i])
          PROVE  Notified(k, n)'
      <3>1. CASE k # kind
        BY <1>1, <2>2, <3>1 DEF Notified
      <3>2. CASE k = kind /\ i = 1
        BY <1>2, <1>3, <2>2, <3>2 DEF Notified
      <3>3. CASE k = kind /\ i # 1
        <4>1. /\ i - 1 \in 1..Len(events'[kind]) /\ i - 1 \in 1..Len(events[kind]) - 1
              /\ (i - 1) + 1 = i
          BY <1>1, <1>2, <3>3
        <4>2. events'[kind][i - 1] = events[kind][i]
          BY <1>2, <4>1
        <4> QED BY <2>2, <3>3, <4>1, <4>2 DEF Notified
      <3> QED BY <3>1, <3>2, <3>3
    <2> QED BY <2>1, <2>2 DEF Notified
  <1>6. Announced
    BY <1>4 DEF Announced
  <1>7. Plain(w)'
    <2>1. \A k \in Kinds : \A i \in 1..Len(events'[k]) : events'[k][i].missed = FALSE
      <3> SUFFICES ASSUME NEW k \in Kinds, NEW i \in 1..Len(events'[k])
                   PROVE  events'[k][i].missed = FALSE
        OBVIOUS
      <3>1. CASE k # kind
        BY <1>1, <3>1 DEF Plain
      <3>2. CASE k = kind
        <4>1. i \in 1..Len(events'[kind]) /\ Len(events'[kind]) = Len(events[kind]) - 1
          BY <1>2, <3>2
        <4>2. i + 1 \in 1..Len(events[kind]) /\ i \in 1..Len(events[kind]) - 1
          BY <1>1, <4>1
        <4> QED BY <1>2, <3>2, <4>2 DEF Plain
      <3> QED BY <3>1, <3>2
    <2>2. \A i \in Queued(kind, e) : i.kind \in Kinds
      <3>1. e.missed = FALSE
        BY <1>1, <1>2 DEF Plain
      <3> QED BY <3>1 DEF Queued, Item
    <2> QED BY <1>3, <1>4, <2>1, <2>2 DEF Plain
  <1> QED BY <1>5, <1>6, <1>7

\* An item with a kind is about an object of that kind.
LEMMA ItemName ==
    ASSUME NEW i \in ServedItems, i.kind \in Kinds
    PROVE  /\ i = Item(i.kind, i.name) /\ i.name \in DOMAIN Objects[i.kind]
           /\ i.kind = "ingress" => i.name \in ServedKeys
  BY DEF ServedItems, Items, ItemsOf, Item, NoKind, Kinds

\* While the worker does nothing, whatever the cluster does is seen to.
LEMMA Drift ==
    ASSUME Inv, Inv', FixedClasses, NEW w \in Workers, SettleInv(w),
           Announced, Kept, UNCHANGED <<work, tunnels>>, Plain(w)'
    PROVE  SettleInv(w)'
  <1>1. Agree
    BY AnnouncedAgree
  <1>2. work' = work /\ tunnels' = tunnels /\ JobInv(w)
    BY DEF Inv
  <1>3. \A kind \in Kinds : \A n : Pending(w, kind, n) => Pending(w, kind, n)'
    BY <1>2 DEF Kept, Pending
  <1>4. \A k, t : Unsettled(w, k, t) => Unsettled(w, k, t)'
    BY <1>3 DEF Unsettled, Kinds
  <1>5. \A k, t : (Rewrites(w, k) => Rewrites(w, k)') /\ (Prunes(w, k, t) => Prunes(w, k, t)')
    BY <1>2 DEF Rewrites, Prunes, Reading
  <1>6. ASSUME NEW k \in ServedKeys, ~Notified("ingress", k)'
        PROVE  /\ cache'["ingress"][k] = cache["ingress"][k] /\ ~Notified("ingress", k)
               /\ \A t : Lists(k, t)' = Lists(k, t)
    BY <1>1, <1>6 DEF Agree, Kept, Kinds, Lists
  <1>7. TableSettles(w)'
    <2> SUFFICES ASSUME NEW k \in ServedKeys, NEW t \in Rules, ~Unsettled(w, k, t)'
                 PROVE  \/ tunnels'[k][t] = Wanted(k)'[t]
                        \/ Rewrites(w, k)' \/ Prunes(w, k, t)'
      BY DEF TableSettles
    <2>1. Wanted(k)'[t] = Wanted(k)[t]
      BY <1>1, WantedAgrees
    <2> QED BY <1>2, <1>4, <1>5, <2>1 DEF SettleInv, TableSettles
  <1>8. TableIndexed(w)'
    <2> SUFFICES ASSUME NEW k \in ServedKeys, NEW t \in Rules, tunnels'[k][t] # NoTunnel,
                        ~Pending(w, "ingress", k)'
                 PROVE  Rewrites(w, k)' \/ Lists(k, t)'
      BY DEF TableIndexed
    <2>1. ~Notified("ingress", k)' /\ ~Pending(w, "ingress", k)
      BY <1>3 DEF Pending, Kinds
    <2> QED BY <1>2, <1>5, <1>6, <2>1 DEF SettleInv, TableIndexed
  <1>9. JobsCurrent(w)'
    <2>1. ASSUME NEW x \in Jobs, Current(x) PROVE Current(x)'
      <3>1. x.key \in ServedKeys
        BY JobProperties
      <3> QED BY <1>6, <2>1, <3>1 DEF Current
    <2> QED BY <1>2, <2>1 DEF SettleInv, JobsCurrent, JobInv, Reading, Translating
  <1>10. FoundCurrent(w)'
    <2> DEFINE ing == work[w].cur.ing
               found == work[w].found
               cs(c) == CertifiedBackends(ing, c["secret"])
               ps(c) == PortedBackends(cs(c), c["service"])
    <2>1. ASSUME work[w].pc = "readServices", NEW b \in found \cup cs(cache'),
                 ~Notified("secret", b.secret)'
          PROVE  b \in found /\ b \in cs(cache')
      <3>1. /\ SameCert(cache["secret"], cache'["secret"], b.secret)
            /\ SameCert(cache'["secret"], cache["secret"], b.secret)
            /\ ~Notified("secret", b.secret)
        BY <1>1, <2>1, SameCertSymmetric DEF Agree, Kept, Kinds
      <3>2. b \in cs(cache') => b \in cs(cache)
        BY ONLY <3>1, CertifiedLocal
      <3>3. b \in cs(cache) => b \in cs(cache')
        BY ONLY <3>1, CertifiedLocal
      <3>4. b \in found \cup cs(cache)
        BY <3>2
      <3>5. b \in found /\ b \in cs(cache)
        BY <2>1, <3>1, <3>4 DEF SettleInv, FoundCurrent
      <3> QED BY <3>3, <3>5
    <2>2. ASSUME work[w].pc = "readEndpoints", NEW b \in found \cup ps(cache'),
                 ~Notified("secret", b.secret)', ~Notified("service", b.service)'
          PROVE  b \in found /\ b \in ps(cache')
      <3>1. /\ SameCert(cache["secret"], cache'["secret"], b.secret)
            /\ SameCert(cache'["secret"], cache["secret"], b.secret)
            /\ GetByKey(cache["service"], b.service) = GetByKey(cache'["service"], b.service)
            /\ ~Notified("secret", b.secret) /\ ~Notified("service", b.service)
        BY <1>1, <2>2, SameCertSymmetric DEF Agree, Kept, Kinds
      <3>2. b \in ps(cache') => b \in ps(cache)
        BY ONLY <3>1, BackendAgrees
      <3>3. b \in ps(cache) => b \in ps(cache')
        BY ONLY <3>1, BackendAgrees
      <3>4. b \in found \cup ps(cache)
        BY <3>2
      <3>5. b \in found /\ b \in ps(cache)
        BY <2>2, <3>1, <3>4 DEF SettleInv, FoundCurrent
      <3> QED BY <3>3, <3>5
    <2>3. Reading(w) => \A b \in found : /\ b.secret \in ingressSecretIndexFunc(ing)
                                          /\ b.service \in ingressServiceIndexFunc(ing)
      BY DEF SettleInv, FoundCurrent
    <2> QED BY <1>2, <2>1, <2>2, <2>3 DEF FoundCurrent, Reading
  <1>11. RoutesCurrent(w)'
    <2> SUFFICES ASSUME work[w].pc \in Translating,
                        NEW k \in DOMAIN work[w].routes, NEW t \in Rules
                 PROVE  /\ work[w].routes[k][t] = Wanted(k)'[t] \/ Unsettled(w, k, t)'
                        /\ work[w].routes[k][t] # NoTunnel =>
                             Notified("ingress", k)' \/ Lists(k, t)'
      BY <1>2 DEF RoutesCurrent
    <2>1. k \in ServedKeys
      BY <1>2 DEF JobInv
    <2>2. ~Unsettled(w, k, t)' => Wanted(k)'[t] = Wanted(k)[t]
      BY <1>1, <2>1, WantedAgrees
    <2> QED BY <1>4, <1>6, <2>1, <2>2 DEF SettleInv, RoutesCurrent
  <1>12. GoneCurrent(w)'
    <2> DEFINE item == work[w].item
    <2>1. ASSUME work[w].pc \in {"deleteIngress", "deleteByKind", "deleteByKindKeys"}
          PROVE  item \in ServedItems /\ item.kind \in Kinds
      BY <2>1 DEF Inv, HandsInv, QueueInv, SettleInv, GoneCurrent, Kinds
    <2>2. ASSUME work[w].pc = "deleteIngress"
          PROVE  cache'["ingress"][item.name] = Absent \/ Notified("ingress", item.name)'
      <3>1. item.name \in ServedKeys
        BY <2>1, <2>2, ItemName DEF SettleInv, GoneCurrent
      <3> QED BY <1>6, <2>2, <3>1 DEF SettleInv, GoneCurrent
    <2>3. ASSUME work[w].pc \in {"deleteByKind", "deleteByKindKeys"},
                 ~Notified(item.kind, item.name)'
          PROVE  ~Passes(item.kind, cache'[item.kind][item.name])
      <3>1. item.kind \in Kinds /\ item.name \in DOMAIN Objects[item.kind]
        BY <2>1, <2>3, ItemName
      <3>2. /\ GetByKey(cache[item.kind], item.name) = cache[item.kind][item.name]
            /\ GetByKey(cache'[item.kind], item.name) = cache'[item.kind][item.name]
        BY <3>1 DEF GetByKey, Inv, CacheInv
      <3>3. ~Passes(item.kind, cache[item.kind][item.name])
        BY <2>3, <3>1 DEF SettleInv, GoneCurrent, Kept
      <3> QED BY <2>3, <3>1, <3>2, <3>3 DEF Announced
    <2>4. work[w].pc = "deleteIngress" => item.kind = "ingress"
      BY DEF SettleInv, GoneCurrent
    <2>5. work[w].pc \in {"updateByKind", "deleteByKind", "deleteByKindKeys"} =>
            item.kind \in {"endpoint", "secret", "service"}
      BY DEF SettleInv, GoneCurrent
    <2> QED BY <1>2, <2>2, <2>3, <2>4, <2>5 DEF GoneCurrent
  <1> QED BY <1>7, <1>8, <1>9, <1>10, <1>11, <1>12 DEF SettleInv

-----------------------------------------------------------------------------
(* The worker *)

\* The caches and the queue stay as they are: so do the notifications and what
\* the caches ask for.
LEMMA Still ==
    ASSUME UNCHANGED <<cache, events, dirty>>
    PROVE  /\ \A kind, n : Notified(kind, n)' <=> Notified(kind, n)
           /\ \A k : Wanted(k)' = Wanted(k)
           /\ \A k, t : Lists(k, t)' <=> Lists(k, t)
           /\ \A x : Current(x)' <=> Current(x)
  <1>1. cache' = cache /\ events' = events /\ dirty' = dirty
    OBVIOUS
  <1>2. \A kind, n : Notified(kind, n)' <=> Notified(kind, n)
    BY <1>1 DEF Notified
  <1>3. \A k : Wanted(k)' = Wanted(k)
    BY <1>1 DEF Wanted
  <1>4. \A k, t : Lists(k, t)' <=> Lists(k, t)
    BY <1>1 DEF Lists
  <1>5. \A x : Current(x)' <=> Current(x)
    BY <1>1, <1>2 DEF Current
  <1> QED BY <1>2, <1>3, <1>4, <1>5

\* A notification leaves the tunnel unsettled, and once the worker has looked at
\* its item nothing else does.
LEMMA DueUnsettled ==
    ASSUME NEW w, NEW k, NEW t
    PROVE  /\ Due(k, t) => Unsettled(w, k, t)
           /\ work[w].pc \notin {"handle", "updateByKind", "deleteByKind"} =>
                (Unsettled(w, k, t) => Due(k, t))
  BY DEF Due, Unsettled, Pending

\* Between two items, and before it looks at one, the worker has read nothing.
LEMMA NothingRead ==
    ASSUME NEW w, work[w].pc \in {"idle", "handle", "finish"}
    PROVE  JobsCurrent(w) /\ FoundCurrent(w) /\ RoutesCurrent(w) /\ GoneCurrent(w)
  BY DEF JobsCurrent, FoundCurrent, RoutesCurrent, GoneCurrent, Reading, Translating

LEMMA PlainStep ==
    ASSUME NEW w, Plain(w), UNCHANGED <<events, qvars>>, work'[w].err = work[w].err,
           work'[w].pc \in {"handle", "updateByKind"} => DOMAIN work'[w].routes = {},
           work'[w].pc = "update" => work'[w].todo = {}
    PROVE  Plain(w)'
  <1>1. events' = events /\ dirty' = dirty /\ processing' = processing /\ delayed' = delayed
    BY DEF qvars
  <1> QED BY <1>1 DEF Plain

\* Get: what was queued is in the worker's hands.
LEMMA GetSettles ==
    ASSUME Inv, NEW w \in Workers, SettleInv(w), Get(w)
    PROVE  SettleInv(w)'
  <1> DEFINE i == Head(queue)
  <1>1. i \in dirty
    <2>1. /\ queue \in Seq(Items) /\ queue # <<>>
          /\ \A j \in 1..Len(queue) : queue[j] \in dirty
      BY DEF Inv, QueueInv, Get
    <2>2. 1 \in 1..Len(queue) /\ i = queue[1]
      BY <2>1, HeadTailProperties, EmptySeq
    <2> QED BY <2>1, <2>2
  <1>2. i \in ServedItems /\ i.kind \in Kinds
    BY <1>1 DEF Inv, QueueInv, SettleInv, Plain
  <1>3. /\ work[w].pc = "idle" /\ cache' = cache /\ events' = events /\ tunnels' = tunnels
        /\ dirty' = dirty \ {i} /\ processing' = processing \cup {i} /\ delayed' = delayed
        /\ work'[w].pc = "handle" /\ work'[w].item = i
        /\ work'[w].err = FALSE /\ DOMAIN work'[w].routes = {}
    BY DEF Get, Inv, HandsInv, Idle
  <1> HIDE DEF i
  <1>4. ASSUME NEW kind, NEW n, Pending(w, kind, n) PROVE Pending(w, kind, n)'
    <2>1. Notified(kind, n)
      BY <1>3, <1>4 DEF Pending
    <2>2. CASE Item(kind, n) = i
      BY <1>3, <2>2 DEF Pending
    <2>3. CASE Item(kind, n) # i
      <3>1. Notified(kind, n)'
        BY <1>3, <2>1, <2>3 DEF Notified
      <3> QED BY <3>1 DEF Pending
    <2> QED BY <2>2, <2>3
  <1>5. \A k, t : Unsettled(w, k, t) => Unsettled(w, k, t)'
    BY <1>4 DEF Unsettled
  <1>6. \A k, t : ~Rewrites(w, k) /\ ~Prunes(w, k, t)
    BY <1>3 DEF Rewrites, Prunes, Translating
  <1>7. \A k, t : Wanted(k)' = Wanted(k) /\ (Lists(k, t)' <=> Lists(k, t))
    BY <1>3 DEF Wanted, Lists
  <1>8. TableSettles(w)'
    BY <1>3, <1>5, <1>6, <1>7 DEF SettleInv, TableSettles
  <1>9. TableIndexed(w)'
    BY <1>3, <1>4, <1>6, <1>7 DEF SettleInv, TableIndexed
  <1>10. JobsCurrent(w)' /\ FoundCurrent(w)' /\ RoutesCurrent(w)' /\ GoneCurrent(w)'
    BY <1>3 DEF JobsCurrent, FoundCurrent, RoutesCurrent, GoneCurrent, Reading, Translating
  <1>11. Plain(w)'
    BY <1>2, <1>3 DEF SettleInv, Plain
  <1> QED BY <1>8, <1>9, <1>10, <1>11 DEF SettleInv

\* handleIngress: the worker will replace or remove the route of the ingress.
LEMMA HandleIngressSettles ==
    ASSUME Inv, NEW w \in Workers, SettleInv(w), handleIngress(w)
    PROVE  SettleInv(w)'
  <1>1. UNCHANGED <<cache, events, qvars, tunnels>> /\ work[w].pc = "handle"
    BY DEF handleIngress
  <1>2. PICK n : work[w].item = Item("ingress", n) /\ n = work[w].item.name
    <2>1. work[w].item \in ServedItems /\ work[w].item.kind = "ingress"
      BY DEF Inv, HandsInv, QueueInv, handleIngress
    <2> QED BY <2>1, ItemName DEF Kinds
  <1> DEFINE obj == cache["ingress"][n]
  <1>3. /\ work'[w].pc = IF obj = Absent THEN "deleteIngress" ELSE "translate"
        /\ work'[w].todo = IF obj = Absent THEN {} ELSE {[key |-> n, ing |-> obj]}
        /\ work'[w].item = work[w].item /\ work'[w].err = work[w].err
        /\ work'[w].routes = work[w].routes
    BY <1>2 DEF handleIngress, Inv, HandsInv, Idle
  <1> HIDE DEF obj
  <1>4. /\ \A kind, m : Notified(kind, m)' <=> Notified(kind, m)
        /\ \A k : Wanted(k)' = Wanted(k)
        /\ \A k, t : Lists(k, t)' <=> Lists(k, t)
        /\ \A x : Current(x)' <=> Current(x)
    BY <1>1, Still DEF qvars
  <1>5. \A kind, m : Pending(w, kind, m) => Pending(w, kind, m)' \/ (kind = "ingress" /\ m = n)
    BY <1>2, <1>4 DEF Pending, Item
  <1>6. \A k, t : Unsettled(w, k, t) => Unsettled(w, k, t)' \/ k = n
    BY <1>5 DEF Unsettled
  <1>7. \A k, t : ~Rewrites(w, k) /\ ~Prunes(w, k, t)
    BY <1>1 DEF Rewrites, Prunes, Translating
  <1>8. Rewrites(w, n)'
    <2>1. CASE obj = Absent
      BY <1>2, <1>3, <2>1 DEF Rewrites
    <2>2. CASE obj # Absent
      <3> DEFINE x == [key |-> n, ing |-> obj]
      <3>1. work'[w].pc = "translate" /\ x \in work'[w].todo /\ x.key = n
        BY <1>3, <2>2
      <3> QED BY <3>1 DEF Rewrites, Translating
    <2> QED BY <2>1, <2>2
  <1>9. TableSettles(w)'
    BY <1>1, <1>4, <1>6, <1>7, <1>8 DEF SettleInv, TableSettles
  <1>10. TableIndexed(w)'
    BY <1>1, <1>4, <1>5, <1>7, <1>8 DEF SettleInv, TableIndexed
  <1>11. JobsCurrent(w)'
    <2>1. \A x \in work'[w].todo : Current(x)
      BY <1>3 DEF Current, obj
    <2> QED BY <1>3, <1>4, <2>1 DEF JobsCurrent, Reading
  <1>12. FoundCurrent(w)'
    BY <1>3 DEF FoundCurrent, Reading
  <1>13. DOMAIN work'[w].routes = {}
    BY <1>1, <1>3 DEF SettleInv, Plain
  <1>14. RoutesCurrent(w)'
    BY <1>13 DEF RoutesCurrent
  <1>15. GoneCurrent(w)'
    BY <1>1, <1>2, <1>3 DEF GoneCurrent, Item, obj
  <1>16. Plain(w)'
    BY <1>1, <1>3, PlainStep DEF SettleInv
  <1> QED BY <1>9, <1>10, <1>11, <1>12, <1>14, <1>15, <1>16 DEF SettleInv

\* handleByKind: the worker has yet to look at the ingresses of the resource.
LEMMA HandleByKindSettles ==
    ASSUME Inv, NEW w \in Workers, SettleInv(w), handleByKind(w)
    PROVE  SettleInv(w)'
  <1> DEFINE item == work[w].item
  <1>1. UNCHANGED <<cache, events, qvars, tunnels>> /\ work[w].pc = "handle"
    BY DEF handleByKind
  <1>2. item.kind \in {"endpoint", "secret", "service"}
    BY DEF handleByKind
  <1>3. /\ work'[w].pc = IF cache[item.kind][item.name] # Absent THEN "updateByKind"
                                                                  ELSE "deleteByKind"
        /\ work'[w].item = item /\ work'[w].err = work[w].err
        /\ work'[w].routes = work[w].routes
    BY DEF handleByKind, Goto, Inv, HandsInv, Idle
  <1>4. /\ \A kind, m : Notified(kind, m)' <=> Notified(kind, m)
        /\ \A k : Wanted(k)' = Wanted(k)
        /\ \A k, t : Lists(k, t)' <=> Lists(k, t)
    BY <1>1, Still DEF qvars
  <1>5. \A kind, m : Pending(w, kind, m) => Pending(w, kind, m)'
    BY <1>3, <1>4 DEF Pending
  <1>6. \A k, t : Unsettled(w, k, t) => Unsettled(w, k, t)'
    BY <1>5 DEF Unsettled
  <1>7. \A k, t : ~Rewrites(w, k) /\ ~Prunes(w, k, t)
    BY <1>1 DEF Rewrites, Prunes, Translating
  <1>8. TableSettles(w)'
    BY <1>1, <1>4, <1>6, <1>7 DEF SettleInv, TableSettles
  <1>9. TableIndexed(w)'
    BY <1>1, <1>4, <1>5, <1>7 DEF SettleInv, TableIndexed
  <1>10. JobsCurrent(w)' /\ FoundCurrent(w)' /\ RoutesCurrent(w)'
    BY <1>3, SMTT(30) DEF JobsCurrent, FoundCurrent, RoutesCurrent, Reading, Translating
  <1>11. GoneCurrent(w)'
    BY <1>1, <1>2, <1>3, SMTT(30) DEF GoneCurrent, Passes
  <1>12. Plain(w)'
    BY <1>1, <1>3, PlainStep DEF SettleInv, Plain
  <1> QED BY <1>8, <1>9, <1>10, <1>11, <1>12 DEF SettleInv

\* The worker has an item of a secret, a service or endpoints: the tunnels of the
\* table can be found, if their ingress is not notified;
LEMMA StillListed ==
    ASSUME Inv, NEW w \in Workers, SettleInv(w),
           work[w].pc \in {"updateByKind", "deleteByKind"},
           NEW k \in ServedKeys, NEW t \in Rules, tunnels[k][t] # NoTunnel
    PROVE  Notified("ingress", k) \/ Lists(k, t)
  <1>1. ~Rewrites(w, k)
    BY DEF Rewrites, Translating
  <1>2. work[w].item.kind \in {"endpoint", "secret", "service"}
    BY DEF SettleInv, GoneCurrent
  <1>3. Pending(w, "ingress", k) => Notified("ingress", k)
    BY <1>2 DEF Pending, Item
  <1> QED BY <1>1, <1>3 DEF SettleInv, TableIndexed

\* and one that is not as wanted is due for another reason, or its ingress is
\* indexed under the resource.
LEMMA Indexed ==
    ASSUME Inv, NEW w \in Workers, SettleInv(w),
           work[w].pc \in {"updateByKind", "deleteByKind"},
           NEW k \in ServedKeys, NEW t \in Rules, tunnels[k][t] # Wanted(k)[t], ~Due(k, t)
    PROVE  /\ k \in IndexKeys(work[w].item)
           /\ getKindRuleResource(work[w].item.kind, t) = work[w].item.name
  <1> DEFINE item == work[w].item
  <1>1. item.kind \in {"endpoint", "secret", "service"}
    BY DEF SettleInv, GoneCurrent
  <1>2. ~Rewrites(w, k) /\ ~Prunes(w, k, t)
    BY DEF Rewrites, Prunes, Translating
  <1>3. ~Pending(w, "ingress", k)
    BY <1>1 DEF Due, Pending, Item
  <1>4. Lists(k, t)
    <2>1. CASE Wanted(k)[t] # NoTunnel
      BY <2>1, WantedIndexed
    <2>2. CASE tunnels[k][t] # NoTunnel
      BY <2>2, StillListed DEF Due
    <2> QED BY <2>1, <2>2
  <1>5. Unsettled(w, k, t)
    BY <1>2 DEF SettleInv, TableSettles
  <1>6. getKindRuleResource(item.kind, t) = item.name
    BY <1>3, <1>5 DEF Due, Unsettled, Pending, Item, getKindRuleResource
  <1>7. k \in Keys
    BY DEF ServedKeys
  <1> QED BY <1>1, <1>4, <1>6, <1>7 DEF IndexKeys, Lists, getKindRuleResource

\* updateByKind: the ingresses that are listed will be translated.
LEMMA UpdateByKindSettles ==
    ASSUME Inv, NEW w \in Workers, SettleInv(w), updateByKind(w)
    PROVE  SettleInv(w)'
  <1> DEFINE ks == IndexKeys(work[w].item)
             jobs == {[key |-> k, ing |-> cache["ingress"][k]] : k \in ks}
  <1>1. UNCHANGED <<cache, events, qvars, tunnels>> /\ work[w].pc = "updateByKind"
    BY DEF updateByKind
  <1>2. /\ work'[w].pc = IF ks = {} THEN "finish" ELSE "translate"
        /\ work'[w].todo = jobs
        /\ work'[w].item = work[w].item /\ work'[w].err = work[w].err
        /\ work'[w].routes = work[w].routes
    <2> HIDE DEF ks
    <2> QED BY DEF updateByKind, Inv, HandsInv, Idle, ks
  <1>3. /\ \A kind, m : Notified(kind, m)' <=> Notified(kind, m)
        /\ \A k : Wanted(k)' = Wanted(k)
        /\ \A k, t : Lists(k, t)' <=> Lists(k, t)
        /\ \A x : Current(x)' <=> Current(x)
    BY <1>1, Still DEF qvars
  <1>4. \A k, t : Due(k, t) => Unsettled(w, k, t)'
    BY <1>3 DEF Due, Unsettled, Pending
  <1>5. ASSUME NEW k \in ks PROVE Rewrites(w, k)'
    <2> DEFINE x == [key |-> k, ing |-> cache["ingress"][k]]
    <2>1. work'[w].pc = "translate" /\ x \in work'[w].todo /\ x.key = k
      BY <1>2, <1>5
    <2> QED BY <2>1 DEF Rewrites, Translating
  <1>6. TableSettles(w)'
    <2> SUFFICES ASSUME NEW k \in ServedKeys, NEW t \in Rules, tunnels[k][t] # Wanted(k)[t],
                        ~Due(k, t)
                 PROVE  Rewrites(w, k)'
      BY <1>1, <1>3, <1>4 DEF TableSettles
    <2>1. k \in ks
      BY <1>1, Indexed
    <2> QED BY <1>5, <2>1
  <1>7. TableIndexed(w)'
    <2> SUFFICES ASSUME NEW k \in ServedKeys, NEW t \in Rules, tunnels[k][t] # NoTunnel
                 PROVE  Pending(w, "ingress", k)' \/ Lists(k, t)
      BY <1>1, <1>3 DEF TableIndexed
    <2>1. Notified("ingress", k) \/ Lists(k, t)
      BY <1>1, StillListed
    <2> QED BY <1>3, <2>1 DEF Pending
  <1>8. JobsCurrent(w)'
    <2>1. \A x \in jobs : Current(x)
      BY DEF Current
    <2> HIDE DEF jobs
    <2> QED BY <1>2, <1>3, <2>1 DEF JobsCurrent, Reading
  <1>9. FoundCurrent(w)'
    BY <1>2 DEF FoundCurrent, Reading
  <1>10. RoutesCurrent(w)'
    <2>1. DOMAIN work'[w].routes = {}
      BY <1>1, <1>2 DEF SettleInv, Plain
    <2> QED BY <2>1 DEF RoutesCurrent
  <1>11. GoneCurrent(w)'
    BY <1>2 DEF GoneCurrent
  <1>12. Plain(w)'
    BY <1>1, <1>2, PlainStep DEF SettleInv
  <1> QED BY <1>6, <1>7, <1>8, <1>9, <1>10, <1>11, <1>12 DEF SettleInv

\* deleteByKind: those that are listed will lose their tunnels of the resource.
LEMMA DeleteByKindSettles ==
    ASSUME Inv, NEW w \in Workers, SettleInv(w), deleteByKind(w)
    PROVE  SettleInv(w)'
  <1> DEFINE ks == IndexKeys(work[w].item)
  <1>1. UNCHANGED <<cache, events, qvars, tunnels>> /\ work[w].pc = "deleteByKind"
    BY DEF deleteByKind
  <1>2. /\ work'[w].pc = IF ks = {} THEN "finish" ELSE "deleteByKindKeys"
        /\ work'[w].todo = ks
        /\ work'[w].item = work[w].item /\ work'[w].err = work[w].err
    <2> HIDE DEF ks
    <2> QED BY DEF deleteByKind, Inv, HandsInv, Idle, ks
  <1>3. /\ \A kind, m : Notified(kind, m)' <=> Notified(kind, m)
        /\ \A k : Wanted(k)' = Wanted(k)
        /\ \A k, t : Lists(k, t)' <=> Lists(k, t)
    BY <1>1, Still DEF qvars
  <1>4. \A k, t : Due(k, t) => Unsettled(w, k, t)'
    BY <1>3 DEF Due, Unsettled, Pending
  <1>5. TableSettles(w)'
    <2> SUFFICES ASSUME NEW k \in ServedKeys, NEW t \in Rules, tunnels[k][t] # Wanted(k)[t],
                        ~Due(k, t)
                 PROVE  Prunes(w, k, t)'
      BY <1>1, <1>3, <1>4 DEF TableSettles
    <2>1. k \in ks /\ getKindRuleResource(work[w].item.kind, t) = work[w].item.name
      BY <1>1, Indexed
    <2> QED BY <1>2, <2>1 DEF Prunes
  <1>6. TableIndexed(w)'
    <2> SUFFICES ASSUME NEW k \in ServedKeys, NEW t \in Rules, tunnels[k][t] # NoTunnel
                 PROVE  Pending(w, "ingress", k)' \/ Lists(k, t)
      BY <1>1, <1>3 DEF TableIndexed
    <2>1. Notified("ingress", k) \/ Lists(k, t)
      BY <1>1, StillListed
    <2> QED BY <1>3, <2>1 DEF Pending
  <1>7. JobsCurrent(w)' /\ FoundCurrent(w)' /\ RoutesCurrent(w)'
    BY <1>2 DEF JobsCurrent, FoundCurrent, RoutesCurrent, Reading, Translating
  <1>8. GoneCurrent(w)'
    BY <1>1, <1>2, <1>3 DEF SettleInv, GoneCurrent
  <1>9. Plain(w)'
    BY <1>1, <1>2, PlainStep DEF SettleInv
  <1> QED BY <1>5, <1>6, <1>7, <1>8, <1>9 DEF SettleInv

\* While a worker translates, it is going to replace the same routes.
LEMMA TranslationSettles ==
    ASSUME NEW w, SettleInv(w), UNCHANGED <<cache, events, qvars, tunnels>>,
           work[w].pc \in Translating, work'[w].pc \in Translating,
           work'[w].err = work[w].err, work'[w].pc = "update" => work'[w].todo = {},
           \A k : Rewrites(w, k) => Rewrites(w, k)'
    PROVE  TableSettles(w)' /\ TableIndexed(w)' /\ GoneCurrent(w)' /\ Plain(w)'
  <1>1. /\ \A kind, m : Notified(kind, m)' <=> Notified(kind, m)
        /\ \A k : Wanted(k)' = Wanted(k)
        /\ \A k, t : Lists(k, t)' <=> Lists(k, t)
    BY Still DEF qvars
  <1>2. \A kind, m : Pending(w, kind, m) => Pending(w, kind, m)'
    BY <1>1 DEF Pending, Translating
  <1>3. \A k, t : Unsettled(w, k, t) => Unsettled(w, k, t)'
    BY <1>2 DEF Unsettled
  <1>4. \A k, t : ~Prunes(w, k, t)
    BY DEF Prunes, Translating
  <1>5. TableSettles(w)'
    BY <1>1, <1>3, <1>4 DEF SettleInv, TableSettles
  <1>6. TableIndexed(w)'
    BY <1>1, <1>2 DEF SettleInv, TableIndexed
  <1>7. GoneCurrent(w)'
    BY DEF GoneCurrent, Translating
  <1>8. Plain(w)'
    BY PlainStep DEF SettleInv, Translating
  <1> QED BY <1>5, <1>6, <1>7, <1>8

\* The routes a worker has made stay as good as they are.
LEMMA RouteStays ==
    ASSUME NEW w, SettleInv(w), UNCHANGED <<cache, events, dirty>>,
           work[w].pc \in Translating, NEW k \in DOMAIN work[w].routes, NEW t \in Rules
    PROVE  /\ work[w].routes[k][t] = Wanted(k)'[t] \/ Unsettled(w, k, t)'
           /\ work[w].routes[k][t] # NoTunnel => Notified("ingress", k)' \/ Lists(k, t)'
  <1>1. /\ \A kind, m : Notified(kind, m)' <=> Notified(kind, m)
        /\ Wanted(k)' = Wanted(k) /\ (Lists(k, t)' <=> Lists(k, t))
    BY Still
  <1>2. Unsettled(w, k, t) => Unsettled(w, k, t)'
    BY <1>1 DEF Unsettled, Pending, Translating
  <1> QED BY <1>1, <1>2 DEF SettleInv, RoutesCurrent

\* readSecrets: the backends found are those of the cache.
LEMMA ReadSecretsSettles ==
    ASSUME Inv, FixedClasses, NEW w \in Workers, SettleInv(w), readSecrets(w)
    PROVE  SettleInv(w)'
  <1>1. /\ UNCHANGED <<cache, events, qvars, tunnels>> /\ work[w].pc = "translate"
        /\ cache' = cache /\ UNCHANGED <<cache, events, dirty>>
    BY DEF readSecrets, qvars
  <1>2. PICK x \in work[w].todo :
          work' = [work EXCEPT ![w].pc = "readServices", ![w].cur = x,
                               ![w].todo = @ \ {x},
                               ![w].found = CertifiedBackends(x.ing, cache["secret"])]
    BY DEF readSecrets
  <1> DEFINE bs == CertifiedBackends(x.ing, cache["secret"])
  <1>3. /\ work'[w].pc = "readServices" /\ work'[w].cur = x /\ work'[w].found = bs
        /\ work'[w].todo = work[w].todo \ {x} /\ work'[w].item = work[w].item
        /\ work'[w].err = work[w].err /\ work'[w].routes = work[w].routes
    <2> HIDE DEF bs
    <2> QED BY <1>2 DEF Inv, HandsInv, Idle, bs
  <1>4. x \in Jobs
    BY <1>1 DEF Inv, JobInv, Translating
  <1>5. ASSUME NEW k, Rewrites(w, k) PROVE Rewrites(w, k)'
    BY <1>1, <1>3, <1>5 DEF Rewrites, Reading, Translating
  <1>6. TableSettles(w)' /\ TableIndexed(w)' /\ GoneCurrent(w)' /\ Plain(w)'
    BY <1>1, <1>3, <1>5, TranslationSettles DEF Translating
  <1>7. JobsCurrent(w)'
    <2>1. \A y \in work[w].todo : Current(y)'
      BY <1>1, Still DEF SettleInv, JobsCurrent, Translating
    <2> QED BY <1>3, <2>1 DEF JobsCurrent
  <1>8. FoundCurrent(w)'
    <2>1. x.ing.class = IngressClass /\ ProperList(x.ing.tls)
      BY <1>4, JobProperties, ServedObjects
    <2>2. \A n \in DOMAIN cache["secret"] : n.name # NoName
      BY ClusterAssumption DEF Inv, CacheInv, Kinds
    <2>3. \A b \in bs : /\ b.secret \in ingressSecretIndexFunc(x.ing)
                         /\ b.service \in ingressServiceIndexFunc(x.ing)
      BY <2>1, <2>2, BackendIndexed
    <2> HIDE DEF bs
    <2>4. CertifiedBackends(x.ing, cache'["secret"]) = bs
      BY <1>1 DEF bs
    <2> QED BY <1>3, <2>3, <2>4 DEF FoundCurrent, Reading
  <1>9. RoutesCurrent(w)'
    BY <1>1, <1>3, RouteStays DEF RoutesCurrent, Translating
  <1> QED BY <1>6, <1>7, <1>8, <1>9 DEF SettleInv

\* readServices: the backends that are left have a port in the cache.
LEMMA ReadServicesSettles ==
    ASSUME Inv, NEW w \in Workers, SettleInv(w), readServices(w)
    PROVE  SettleInv(w)'
  <1> DEFINE ing == work[w].cur.ing
             found == work[w].found
             cs == CertifiedBackends(ing, cache["secret"])
             svcs == cache["service"]
             bs == PortedBackends(found, svcs)
             ps == PortedBackends(cs, svcs)
  <1>1. /\ UNCHANGED <<cache, events, qvars, tunnels>> /\ work[w].pc = "readServices"
        /\ cache' = cache /\ UNCHANGED <<cache, events, dirty>>
    BY DEF readServices, qvars
  <1>2. /\ work'[w].pc = "readEndpoints" /\ work'[w].cur = work[w].cur /\ work'[w].found = bs
        /\ work'[w].todo = work[w].todo /\ work'[w].item = work[w].item
        /\ work'[w].err = work[w].err /\ work'[w].routes = work[w].routes
    <2> HIDE DEF bs
    <2> QED BY DEF readServices, Inv, HandsInv, Idle, bs
  <1>3. ASSUME NEW k, Rewrites(w, k) PROVE Rewrites(w, k)'
    BY <1>1, <1>2, <1>3 DEF Rewrites, Reading, Translating
  <1>4. TableSettles(w)' /\ TableIndexed(w)' /\ GoneCurrent(w)' /\ Plain(w)'
    BY <1>1, <1>2, <1>3, TranslationSettles DEF Translating
  <1>5. JobsCurrent(w)'
    BY <1>1, <1>2, Still DEF SettleInv, JobsCurrent, Translating, Reading
  <1>6. RoutesCurrent(w)'
    BY <1>1, <1>2, RouteStays DEF RoutesCurrent, Translating
  <1>7. /\ \A c \in found : {"secret", "service", "port"} \subseteq DOMAIN c
        /\ \A c \in cs : {"secret", "service", "port"} \subseteq DOMAIN c
    <2>1. \A c \in found : IsBackend(c)
      BY <1>1 DEF Inv, JobInv
    <2>2. \A c \in cs : DOMAIN c = {"host", "secret", "cert", "service", "port"}
      BY CertifiedShape
    <2> HIDE DEF found, cs
    <2> QED BY <2>1, <2>2 DEF IsBackend
  <1>8. \A b \in found \cup cs : (b \in found /\ b \in cs) \/ Notified("secret", b.secret)
    BY <1>1 DEF SettleInv, FoundCurrent
  <1>9. \A b \in found : /\ b.secret \in ingressSecretIndexFunc(ing)
                          /\ b.service \in ingressServiceIndexFunc(ing)
    BY <1>1 DEF SettleInv, FoundCurrent, Reading
  <1> HIDE DEF found, cs, svcs
  <1>10. ASSUME NEW b \in bs \cup ps, ~Notified("secret", b.secret)
         PROVE  b \in bs /\ b \in ps
    <2>1. \A c \in found : c.secret = b.secret => c \in cs
      BY <1>8, <1>10
    <2>2. \A c \in cs : c.secret = b.secret => c \in found
      BY <1>8, <1>10
    <2>3. b \in bs => b \in ps
      BY ONLY <1>7, <2>1, PortedLocal
    <2>4. b \in ps => b \in bs
      BY ONLY <1>7, <2>2, PortedLocal
    <2> QED BY <1>10, <2>3, <2>4
  <1>11. ASSUME NEW b \in bs
         PROVE  /\ b.secret \in ingressSecretIndexFunc(ing)
                /\ b.service \in ingressServiceIndexFunc(ing)
    <2>1. PICK c \in found : b = [c EXCEPT !.port = GetServicePort(svcs[c.service], c.port)]
      BY <1>11 DEF PortedBackends
    <2>2. b.secret = c.secret /\ b.service = c.service
      BY <1>7, <2>1
    <2> QED BY <1>9, <2>2
  <1>12. FoundCurrent(w)'
    <2>1. PortedBackends(CertifiedBackends(work'[w].cur.ing, cache'["secret"]),
                         cache'["service"]) = ps
      BY <1>1, <1>2 DEF cs, svcs
    <2>2. \A m : Notified("secret", m)' <=> Notified("secret", m)
      BY <1>1, Still
    <2> HIDE DEF bs, ps
    <2> QED BY <1>2, <1>10, <1>11, <2>1, <2>2 DEF FoundCurrent
  <1> QED BY <1>4, <1>5, <1>6, <1>12 DEF SettleInv

\* readEndpoints: the route is what the caches ask for, but for what is notified.
LEMMA ReadEndpointsSettles ==
    ASSUME Inv, FixedClasses, NEW w \in Workers, SettleInv(w), readEndpoints(w)
    PROVE  SettleInv(w)'
  <1>1. /\ UNCHANGED <<cache, events, qvars, tunnels>> /\ work[w].pc = "readEndpoints"
        /\ cache' = cache /\ UNCHANGED <<cache, events, dirty>>
    BY DEF readEndpoints, qvars
  <1>2. PICK x \in Jobs : x = work[w].cur
    BY <1>1 DEF Inv, JobInv
  <1> DEFINE k == x.key
             found == work[w].found
             ready == ReadyBackends(found, cache["endpoint"])
             route == MakeRoute(x.ing, ready)
             old == work[w].routes
             new == [j \in DOMAIN old \cup {k} |-> IF j = k THEN route ELSE old[j]]
             pc == IF work[w].todo = {} THEN "update" ELSE "translate"
  <1>3. /\ work'[w].pc = pc /\ work'[w].todo = work[w].todo /\ work'[w].routes = new
        /\ work'[w].item = work[w].item /\ work'[w].err = work[w].err
    <2>1. work' = [work EXCEPT ![w].pc = pc, ![w].found = {}, ![w].cur = None,
                               ![w].routes = new]
      BY <1>2 DEF readEndpoints
    <2> HIDE DEF new, pc
    <2> QED BY <2>1, SMTT(30) DEF Inv, HandsInv, Idle
  <1>4. work'[w].pc \in Translating /\ ~Reading(w)'
    BY <1>3 DEF Translating, Reading
  <1>5. work'[w].pc = "update" => work'[w].todo = {}
    BY <1>3
  <1> HIDE DEF route, pc
  <1>6. ASSUME NEW j, Rewrites(w, j) PROVE Rewrites(w, j)'
    <2>1. \/ j \in DOMAIN old \/ j = k \/ \E y \in work[w].todo : y.key = j
      BY <1>1, <1>2, <1>6 DEF Rewrites
    <2> QED BY <1>3, <1>4, <2>1 DEF Rewrites
  <1>7. TableSettles(w)' /\ TableIndexed(w)' /\ GoneCurrent(w)' /\ Plain(w)'
    BY <1>1, <1>3, <1>4, <1>5, <1>6, TranslationSettles DEF Translating
  <1>8. JobsCurrent(w)' /\ FoundCurrent(w)'
    <2>1. \A y \in work[w].todo : Current(y)'
      BY <1>1, Still DEF SettleInv, JobsCurrent, Translating
    <2> QED BY <1>3, <1>4, <2>1 DEF JobsCurrent, FoundCurrent, Reading
  <1>9. Notified("ingress", k) \/ x.ing = cache["ingress"][k]
    BY <1>1, <1>2 DEF SettleInv, JobsCurrent, Reading, Current
  <1>10. /\ k \in ServedKeys /\ x.ing \in Objects["ingress"][k]
         /\ x.ing # Absent /\ x.ing.class = IngressClass
    BY JobProperties, ServedObjects
  <1>11. ASSUME NEW t \in Rules, ~Due(k, t) PROVE route[t] = Wanted(k)[t]
    <2> DEFINE ps == PortedBackends(CertifiedBackends(x.ing, cache["secret"]), cache["service"])
               wanted == ReadyBackends(ps, cache["endpoint"])
    <2>1. Wanted(k) = MakeRoute(x.ing, wanted)
      BY <1>9, <1>10, <1>11 DEF Due, Wanted, getRouteFromIngress
    <2>2. \A b \in found \cup ps : \/ b \in found /\ b \in ps
                                   \/ Notified("secret", b.secret)
                                   \/ Notified("service", b.service)
      BY <1>1, <1>2 DEF SettleInv, FoundCurrent
    <2> HIDE DEF ps, found
    <2>3. \A b \in ready \cup wanted : RuleOf(b) = t => (b \in ready /\ b \in wanted)
      BY <1>11, <2>2, RuleFields DEF Due, ReadyBackends
    <2> HIDE DEF ready, wanted
    <2>4. MakeRoute(x.ing, ready)[t] = MakeRoute(x.ing, wanted)[t]
      BY ONLY t \in Rules, <2>3, RouteLocal
    <2> QED BY <2>1, <2>4 DEF route
  <1>12. ASSUME NEW t \in Rules, route[t] # NoTunnel, ~Notified("ingress", k)
         PROVE  Lists(k, t)
    <2>1. PICK b \in ready : RuleOf(b) = t
      BY <1>12, RouteBackend DEF route
    <2>2. b \in found
      BY <2>1 DEF ReadyBackends
    <2>3. b.secret \in ingressSecretIndexFunc(x.ing) /\ b.service \in ingressServiceIndexFunc(x.ing)
      BY <1>1, <1>2, <2>2 DEF SettleInv, FoundCurrent, Reading
    <2>4. t.secret = b.secret /\ t.service = b.service
      BY <2>1, RuleFields
    <2> QED BY <1>9, <1>10, <1>12, <2>3, <2>4 DEF Lists
  <1>13. RoutesCurrent(w)'
    <2> SUFFICES ASSUME NEW j \in DOMAIN new, NEW t \in Rules
                 PROVE  /\ new[j][t] = Wanted(j)'[t] \/ Unsettled(w, j, t)'
                        /\ new[j][t] # NoTunnel => Notified("ingress", j)' \/ Lists(j, t)'
      <3> HIDE DEF new
      <3> QED BY <1>3 DEF RoutesCurrent
    <2>1. CASE j # k
      <3>1. j \in DOMAIN old /\ new[j] = old[j]
        BY <2>1
      <3>2. /\ old[j][t] = Wanted(j)'[t] \/ Unsettled(w, j, t)'
            /\ old[j][t] # NoTunnel => Notified("ingress", j)' \/ Lists(j, t)'
        BY <1>1, <3>1, RouteStays DEF Translating
      <3> QED BY <3>1, <3>2
    <2>2. CASE j = k
      <3>1. /\ \A kind, m : Notified(kind, m)' <=> Notified(kind, m)
            /\ Wanted(k)' = Wanted(k) /\ (Lists(k, t)' <=> Lists(k, t))
        BY <1>1, Still
      <3>2. Due(k, t) => Unsettled(w, k, t)'
        BY <3>1 DEF Due, Unsettled, Pending
      <3>3. new[j] = route
        BY <2>2
      <3> HIDE DEF new
      <3> QED BY <1>11, <1>12, <2>2, <3>1, <3>2, <3>3
    <2> QED BY <2>1, <2>2
  <1> QED BY <1>7, <1>8, <1>13, SMTT(30) DEF SettleInv

\* A table that is as wanted, but for what is due, and can be found by its
\* resources.
Right(table) ==
    \A k \in ServedKeys, t \in Rules :
      /\ table[k][t] = Wanted(k)[t] \/ Due(k, t)
      /\ table[k][t] # NoTunnel => Notified("ingress", k) \/ Lists(k, t)

\* After its call of the router the worker has nothing left to do to the table.
LEMMA CallSettles ==
    ASSUME Inv, NEW w \in Workers, SettleInv(w), NEW pc, NEW table,
           pc \notin {"handle", "updateByKind", "deleteByKind"}, RouterCall(w, pc, table),
           Right(table)
    PROVE  SettleInv(w)'
  <1>1. /\ work[w].pc = pc /\ tunnels' = table /\ UNCHANGED <<cache, events, qvars>>
        /\ UNCHANGED <<cache, events, dirty>>
    BY DEF RouterCall, qvars
  <1>2. work'[w].pc = "finish" /\ work'[w].err = FALSE
    BY DEF RouterCall, Inv, HandsInv, Idle
  <1>3. /\ \A kind, m : Notified(kind, m)' <=> Notified(kind, m)
        /\ \A k : Wanted(k)' = Wanted(k)
        /\ \A k, t : Lists(k, t)' <=> Lists(k, t)
    BY <1>1, Still
  <1>4. \A k, t : Due(k, t) => Unsettled(w, k, t)'
    BY <1>3 DEF Due, Unsettled, Pending
  <1>5. TableSettles(w)'
    BY <1>1, <1>3, <1>4 DEF TableSettles, Right
  <1>6. TableIndexed(w)'
    BY <1>1, <1>3 DEF TableIndexed, Pending, Right
  <1>7. JobsCurrent(w)' /\ FoundCurrent(w)' /\ RoutesCurrent(w)' /\ GoneCurrent(w)'
    BY <1>2 DEF JobsCurrent, FoundCurrent, RoutesCurrent, GoneCurrent, Reading, Translating
  <1>8. Plain(w)'
    BY <1>1, <1>2, PlainStep DEF SettleInv, Plain
  <1> QED BY <1>5, <1>6, <1>7, <1>8 DEF SettleInv

\* updateRoutes: the routes replaced are as wanted, but for what is due.
LEMMA UpdateRoutesRight ==
    ASSUME Inv, NEW w \in Workers, SettleInv(w), updateRoutes(w)
    PROVE  Right(tunnels')
  <1> DEFINE table == Replace(tunnels, work[w].routes)
  <1>1. RouterCall(w, "update", table) /\ tunnels' = table /\ work[w].pc = "update"
    BY DEF updateRoutes, RouterCall
  <1>2. ASSUME NEW k \in ServedKeys, NEW t \in Rules
        PROVE  /\ table[k][t] = Wanted(k)[t] \/ Due(k, t)
               /\ table[k][t] # NoTunnel => Notified("ingress", k) \/ Lists(k, t)
    <2>1. k \in Keys /\ ~Prunes(w, k, t) /\ (Unsettled(w, k, t) => Due(k, t))
      BY <1>1, DueUnsettled DEF ServedKeys, Prunes
    <2>2. CASE k \in DOMAIN work[w].routes
      <3>1. table[k] = work[w].routes[k]
        BY <2>1, <2>2 DEF Replace
      <3> QED BY <1>1, <2>1, <2>2, <3>1 DEF SettleInv, RoutesCurrent, Translating
    <2>3. CASE k \notin DOMAIN work[w].routes
      <3>1. table[k] = tunnels[k]
        BY <2>1, <2>3 DEF Replace
      <3>2. work[w].todo = {}
        BY <1>1 DEF SettleInv, Plain
      <3>3. ~Rewrites(w, k)
        BY <1>1, <2>3, <3>2 DEF Rewrites, Reading
      <3>4. Pending(w, "ingress", k) => Notified("ingress", k)
        BY <1>1 DEF Pending
      <3> HIDE DEF table
      <3> QED BY <2>1, <3>1, <3>3, <3>4 DEF SettleInv, TableSettles, TableIndexed
    <2> QED BY <2>2, <2>3
  <1> HIDE DEF table
  <1> QED BY <1>1, <1>2 DEF Right

\* deleteIngress: the route is gone, and so is the ingress.
LEMMA DeleteIngressRight ==
    ASSUME Inv, NEW w \in Workers, SettleInv(w), deleteIngress(w)
    PROVE  Right(tunnels')
  <1> DEFINE n == work[w].item.name
             table == Drop(tunnels, n)
  <1>1. RouterCall(w, "deleteIngress", table) /\ tunnels' = table /\ work[w].pc = "deleteIngress"
    BY DEF deleteIngress, RouterCall
  <1>2. ASSUME NEW k \in ServedKeys, NEW t \in Rules
        PROVE  /\ table[k][t] = Wanted(k)[t] \/ Due(k, t)
               /\ table[k][t] # NoTunnel => Notified("ingress", k) \/ Lists(k, t)
    <2>1. k \in Keys /\ ~Prunes(w, k, t) /\ (Unsettled(w, k, t) => Due(k, t))
      BY <1>1, DueUnsettled DEF ServedKeys, Prunes
    <2>2. CASE k = n
      <3>1. table[k][t] = NoTunnel /\ NoRoute[t] = NoTunnel
        BY <2>1, <2>2 DEF Drop, NoRoute
      <3>2. cache["ingress"][k] = Absent \/ Notified("ingress", k)
        BY <1>1, <2>2 DEF SettleInv, GoneCurrent
      <3> QED BY <3>1, <3>2 DEF Wanted, Due
    <2>3. CASE k # n
      <3>1. table[k] = tunnels[k]
        BY <2>1, <2>3 DEF Drop
      <3>2. ~Rewrites(w, k)
        BY <1>1, <2>3 DEF Rewrites, Translating
      <3>3. Pending(w, "ingress", k) => Notified("ingress", k)
        BY <1>1 DEF Pending
      <3> HIDE DEF table
      <3> QED BY <2>1, <3>1, <3>2, <3>3 DEF SettleInv, TableSettles, TableIndexed
    <2> QED BY <2>2, <2>3
  <1> HIDE DEF table
  <1> QED BY <1>1, <1>2 DEF Right

\* deleteByKindKeys: the tunnels are gone, and so is what they need.
LEMMA DeleteByKindKeysRight ==
    ASSUME Inv, NEW w \in Workers, SettleInv(w), deleteByKindKeys(w)
    PROVE  Right(tunnels')
  <1> DEFINE item == work[w].item
             table == DropByKind(tunnels, item.kind, item.name, work[w].todo)
  <1>1. RouterCall(w, "deleteByKindKeys", table) /\ tunnels' = table /\ work[w].pc = "deleteByKindKeys"
    BY DEF deleteByKindKeys, RouterCall
  <1>2. ASSUME NEW k \in ServedKeys, NEW t \in Rules
        PROVE  /\ table[k][t] = Wanted(k)[t] \/ Due(k, t)
               /\ table[k][t] # NoTunnel => Notified("ingress", k) \/ Lists(k, t)
    <2>1. k \in Keys /\ ~Rewrites(w, k) /\ (Unsettled(w, k, t) => Due(k, t))
      BY <1>1, DueUnsettled DEF ServedKeys, Rewrites, Translating
    <2>2. CASE Prunes(w, k, t)
      <3>1. table[k][t] = NoTunnel
        BY <2>1, <2>2 DEF DropByKind, Prunes
      <3>2. /\ item.kind \in {"endpoint", "secret", "service"}
            /\ ~Passes(item.kind, cache[item.kind][item.name]) \/ Notified(item.kind, item.name)
        BY <1>1 DEF SettleInv, GoneCurrent
      <3>3. getKindRuleResource(item.kind, t) = item.name
        BY <2>2 DEF Prunes
      <3>4. Notified(item.kind, item.name) => Due(k, t)
        BY <3>2, <3>3 DEF Due, getKindRuleResource
      <3>5. ASSUME Wanted(k)[t] # NoTunnel PROVE Passes(item.kind, cache[item.kind][item.name])
        BY <3>2, <3>3, <3>5, WantedNeeds DEF getKindRuleResource
      <3> HIDE DEF table
      <3> QED BY <3>1, <3>2, <3>4, <3>5
    <2>3. CASE ~Prunes(w, k, t)
      <3>1. table[k][t] = tunnels[k][t]
        BY <1>1, <2>1, <2>3 DEF DropByKind, Prunes
      <3>2. Pending(w, "ingress", k) => Notified("ingress", k)
        BY <1>1 DEF Pending
      <3> HIDE DEF table
      <3> QED BY <2>1, <2>3, <3>1, <3>2 DEF SettleInv, TableSettles, TableIndexed
    <2> QED BY <2>2, <2>3
  <1> HIDE DEF table
  <1> QED BY <1>1, <1>2 DEF Right

\* The call of an item, in the three forms it has.
LEMMA CallRight ==
    ASSUME Inv, NEW w \in Workers, SettleInv(w),
           updateRoutes(w) \/ deleteIngress(w) \/ deleteByKindKeys(w)
    PROVE  Right(tunnels') /\ SettleInv(w)'
  <1>1. Right(tunnels')
    BY UpdateRoutesRight, DeleteIngressRight, DeleteByKindKeysRight
  <1>2. PICK pc \in {"update", "deleteIngress", "deleteByKindKeys"} :
          \E table : RouterCall(w, pc, table)
    BY DEF updateRoutes, deleteIngress, deleteByKindKeys
  <1>3. RouterCall(w, pc, tunnels')
    BY <1>2 DEF RouterCall
  <1> QED BY <1>1, <1>3, CallSettles

\* Done: nothing was left to do for the item.
LEMMA DoneSettles ==
    ASSUME Inv, NEW w \in Workers, SettleInv(w), work[w].pc = "finish", Done(w),
           delayed' = delayed
    PROVE  SettleInv(w)'
  <1>1. /\ UNCHANGED <<cache, events, dirty>> /\ tunnels' = tunnels /\ events' = events
        /\ dirty' = dirty /\ processing' \subseteq processing
        /\ work'[w].pc = "idle" /\ work'[w].err = FALSE
    BY DEF Done, Inv, HandsInv, Idle
  <1>2. /\ \A kind, m : Notified(kind, m)' <=> Notified(kind, m)
        /\ \A k : Wanted(k)' = Wanted(k)
        /\ \A k, t : Lists(k, t)' <=> Lists(k, t)
    BY <1>1, Still
  <1>3. \A kind, m : Pending(w, kind, m) => Pending(w, kind, m)'
    BY <1>2 DEF Pending
  <1>4. \A k, t : Unsettled(w, k, t) => Unsettled(w, k, t)'
    BY <1>3 DEF Unsettled
  <1>5. \A k, t : ~Rewrites(w, k) /\ ~Prunes(w, k, t)
    BY DEF Rewrites, Prunes, Translating
  <1>6. TableSettles(w)'
    BY <1>1, <1>2, <1>4, <1>5 DEF SettleInv, TableSettles
  <1>7. TableIndexed(w)'
    BY <1>1, <1>2, <1>3, <1>5 DEF SettleInv, TableIndexed
  <1>8. JobsCurrent(w)' /\ FoundCurrent(w)' /\ RoutesCurrent(w)' /\ GoneCurrent(w)'
    BY <1>1 DEF JobsCurrent, FoundCurrent, RoutesCurrent, GoneCurrent, Reading, Translating
  <1>9. Plain(w)'
    BY <1>1 DEF SettleInv, Plain
  <1> QED BY <1>6, <1>7, <1>8, <1>9 DEF SettleInv

-----------------------------------------------------------------------------
(* Theorems *)

\* At the start the Add of every ingress is on its way.
LEMMA InitSettles ==
    ASSUME Init, Inv, NEW w \in Workers
    PROVE  SettleInv(w)
  <1>1. /\ work[w].pc = "idle" /\ work[w].err = FALSE
        /\ dirty = {} /\ processing = {} /\ delayed = {}
        /\ cache = InitialCache /\ \A kind \in Kinds : events[kind] = InitialEvents(kind)
    BY DEF Init, Idle
  <1>2. \A k \in ServedKeys, t \in Rules : tunnels[k][t] = NoTunnel
    BY DEF Init, NoTable, NoRoute, ServedKeys
  <1>3. TableSettles(w)
    <2> SUFFICES ASSUME NEW k \in ServedKeys, NEW t \in Rules, Wanted(k)[t] # NoTunnel
                 PROVE  Notified("ingress", k)
      BY <1>2 DEF TableSettles, Unsettled, Pending
    <2> DEFINE obj == InitialCache["ingress"][k]
               e == Event(k, Absent, obj, FALSE)
    <2>1. obj # Absent /\ obj.class = IngressClass
      BY <1>1, WantedRoute
    <2>2. k \in DOMAIN Objects["ingress"] /\ "ingress" \in Kinds
      BY ControllerAssumption DEF ServedKeys, Kinds
    <2>3. PICK i \in 1..Len(events["ingress"]) : events["ingress"][i] = e
      BY <1>1, <2>1, <2>2, InitialAdds
    <2>4. Item("ingress", k) \in Queued("ingress", e)
      BY <2>1 DEF Queued, Event, Passes
    <2> HIDE DEF e
    <2> QED BY <2>3, <2>4 DEF Notified
  <1>4. TableIndexed(w)
    BY <1>2 DEF TableIndexed
  <1>5. JobsCurrent(w) /\ FoundCurrent(w) /\ RoutesCurrent(w) /\ GoneCurrent(w)
    BY <1>1, NothingRead
  <1>6. Plain(w)
    BY <1>1, InitialAdds DEF Plain
  <1> QED BY <1>3, <1>4, <1>5, <1>6 DEF SettleInv

\* Every step of the worker,
LEMMA WorkerSettles ==
    ASSUME Inv, FixedClasses, NEW w \in Workers, SettleInv(w), WorkerStep(w)
    PROVE  SettleInv(w)'
  <1>1. ASSUME handleUnexpected(w) PROVE FALSE
    <2>1. work[w].item \in processing
      BY <1>1 DEF handleUnexpected, Inv, HandsInv
    <2> QED BY <1>1, <2>1 DEF handleUnexpected, SettleInv, Plain, Kinds, NoKind
  <1>2. ASSUME Requeue(w) PROVE FALSE
    BY <1>2 DEF Requeue, SettleInv, Plain
  <1>3. CASE Forget(w)
    BY <1>3, DoneSettles DEF Forget
  <1> QED BY <1>1, <1>2, <1>3, GetSettles, HandleIngressSettles, HandleByKindSettles,
             UpdateByKindSettles, DeleteByKindSettles, ReadSecretsSettles,
             ReadServicesSettles, ReadEndpointsSettles, CallRight DEF WorkerStep

\* the cluster and the handlers keeps the tunnels settling.
LEMMA StepSettles ==
    ASSUME Inv, Inv', SeenDeletes, FixedClasses, NEW w, Workers = {w}, SettleInv(w),
           [Next]_vars
    PROVE  SettleInv(w)'
  <1>1. w \in Workers /\ Plain(w)
    BY DEF SettleInv
  <1>2. ASSUME Announced, Kept, Plain(w)', UNCHANGED <<work, tunnels>> PROVE SettleInv(w)'
    BY <1>1, <1>2, Drift
  <1>3. CASE UNCHANGED vars
    <2>1. UNCHANGED <<cache, events, dirty>> /\ UNCHANGED <<events, qvars>>
          /\ work' = work /\ UNCHANGED <<work, tunnels>> /\ cache' = cache
      BY <1>3 DEF vars, qvars
    <2>2. Announced /\ Kept
      BY <2>1, Still DEF Announced, Kept
    <2>3. Plain(w)'
      BY <1>1, <2>1 DEF Plain, qvars
    <2> QED BY <1>2, <2>1, <2>2, <2>3
  <1>4. CASE ClusterStep
    <2>1. PICK kind \in Kinds : \E name \in DOMAIN Objects[kind] :
            \E new \in Objects[kind][name] \cup {Absent}, missed \in BOOLEAN :
              Edit(kind, name, new, missed)
      BY <1>4 DEF ClusterStep
    <2>2. PICK name \in DOMAIN Objects[kind] :
            \E new \in Objects[kind][name] \cup {Absent}, missed \in BOOLEAN :
              Edit(kind, name, new, missed)
      BY <2>1
    <2>3. PICK new \in Objects[kind][name] \cup {Absent}, missed \in BOOLEAN :
            Edit(kind, name, new, missed)
      BY <2>2
    <2>4. Announced /\ Kept /\ Plain(w)'
      BY <1>1, <2>3, EditAnnounced
    <2>5. UNCHANGED <<work, tunnels>>
      BY <2>3 DEF Edit
    <2> QED BY <1>2, <2>4, <2>5
  <1>5. ASSUME NEW kind \in Kinds, Deliver(kind) PROVE SettleInv(w)'
    <2>1. Announced /\ Kept /\ Plain(w)'
      BY <1>1, <1>5, DeliverAnnounced
    <2> QED BY <1>2, <1>5, <2>1 DEF Deliver
  <1>6. ASSUME NEW item \in Items, DelayedAdd(item) PROVE FALSE
    BY <1>1, <1>6 DEF DelayedAdd, Plain
  <1>7. ASSUME NEW v \in Workers, WorkerStep(v) PROVE SettleInv(w)'
    BY <1>1, <1>7, WorkerSettles
  <1> QED BY <1>3, <1>4, <1>5, <1>6, <1>7 DEF Next

\* The invariant, under the three conditions.
Settles ==
    OneWorker /\ SeenDeletes /\ FixedClasses => \A w \in Workers : SettleInv(w)

\* A tunnel that is not what the caches ask for is always being seen to.
THEOREM SettlesInvariant == Spec => []Settles
  <1>1. Init /\ Inv => Settles
    BY InitSettles DEF Settles
  <1>2. Settles /\ Inv /\ Inv' /\ [Next]_vars => Settles'
    <2> SUFFICES ASSUME Settles, Inv, Inv', [Next]_vars,
                        OneWorker, SeenDeletes, FixedClasses
                 PROVE  \A w \in Workers : SettleInv(w)'
      BY DEF Settles, OneWorker, SeenDeletes, FixedClasses
    <2>1. PICK w : Workers = {w}
      BY DEF OneWorker
    <2>2. SettleInv(w)
      BY <2>1 DEF Settles
    <2>3. SettleInv(w)'
      BY <2>1, <2>2, StepSettles
    <2> QED BY <2>1, <2>3
  <1> QED BY <1>1, <1>2, Invariant, PTL DEF Spec

\* When nothing is on its way, the tunnels are what the caches ask for.
LEMMA QuietSettled ==
    ASSUME Inv, OneWorker, NEW w \in Workers, SettleInv(w), FixedClasses, Quiet,
           NEW k \in Keys, NEW t \in Rules
    PROVE  tunnels[k][t] = Wanted(k)[t]
  <1>1. work[w].pc = "idle"
    BY DEF Quiet, Inv, HandsInv
  <1>2. \A kind \in Kinds : \A n : ~Notified(kind, n)
    <2>1. \A kind \in Kinds : Len(events[kind]) = 0 /\ dirty = {}
      BY DEF Quiet
    <2> QED BY <2>1 DEF Notified
  <1>3. ~Due(k, t) /\ ~Unsettled(w, k, t) /\ ~Rewrites(w, k) /\ ~Prunes(w, k, t)
    BY <1>1, <1>2 DEF Due, Unsettled, Pending, Rewrites, Prunes, Kinds, Translating
  <1>4. CASE k \in ServedKeys
    BY <1>3, <1>4 DEF SettleInv, TableSettles
  <1>5. CASE k \notin ServedKeys
    <2>1. cache["ingress"][k] = Absent \/ cache["ingress"][k].class # IngressClass
      BY <1>5, ControllerAssumption DEF Inv, CacheInv, Kinds, ServedKeys
    <2> QED BY <1>5, <2>1 DEF Wanted, Inv, TableInv
  <1> QED BY <1>4, <1>5

\* Once every event is dealt with, no tunnel is left that the caches do not ask
\* for, or with an old certificate or old options: for any cluster and any
\* number of changes, with one worker, every delete seen and fixed classes.
THEOREM NothingStale ==
    OneWorker /\ SeenDeletes /\ FixedClasses => (Spec => []NoStaleTunnel)
  <1> SUFFICES ASSUME OneWorker, SeenDeletes, FixedClasses PROVE Spec => []NoStaleTunnel
    OBVIOUS
  <1>1. ASSUME Settles, Inv PROVE NoStaleTunnel
    <2>1. PICK w \in Workers : SettleInv(w)
      BY <1>1 DEF OneWorker, Settles
    <2> QED BY <1>1, <2>1, QuietSettled DEF NoStaleTunnel
  <1> QED BY <1>1, SettlesInvariant, Invariant, PTL

\* And every tunnel that they ask for is up.
THEOREM NothingMissing ==
    OneWorker /\ SeenDeletes /\ FixedClasses => (Spec => []NoMissingTunnel)
  <1> SUFFICES ASSUME OneWorker, SeenDeletes, FixedClasses PROVE Spec => []NoMissingTunnel
    OBVIOUS
  <1>1. ASSUME Settles, Inv PROVE NoMissingTunnel
    <2>1. PICK w \in Workers : SettleInv(w)
      BY <1>1 DEF OneWorker, Settles
    <2> QED BY <1>1, <2>1, QuietSettled DEF NoMissingTunnel
  <1> QED BY <1>1, SettlesInvariant, Invariant, PTL

\* Only a call of the router changes the tunnels.
LEMMA CallsOnly ==
    ASSUME [Next]_vars, tunnels' # tunnels
    PROVE  \E w \in Workers : updateRoutes(w) \/ deleteIngress(w) \/ deleteByKindKeys(w)
  <1>1. ~UNCHANGED vars /\ ~ClusterStep
    BY DEF vars, ClusterStep, Edit
  <1>2. \A kind \in Kinds : ~Deliver(kind)
    BY DEF Deliver
  <1>3. \A item \in Items : ~DelayedAdd(item)
    BY DEF DelayedAdd
  <1>4. PICK w \in Workers : WorkerStep(w)
    BY <1>1, <1>2, <1>3 DEF Next
  <1>5. /\ ~Get(w) /\ ~handleIngress(w) /\ ~handleByKind(w) /\ ~handleUnexpected(w)
        /\ ~updateByKind(w) /\ ~deleteByKind(w)
    BY SMTT(30) DEF Get, handleIngress, handleByKind, handleUnexpected, updateByKind, deleteByKind
  <1>6. ~readSecrets(w) /\ ~readServices(w) /\ ~readEndpoints(w)
    BY DEF readSecrets, readServices, readEndpoints
  <1>7. ~Forget(w) /\ ~Requeue(w)
    BY DEF Forget, Requeue, Done
  <1> QED BY <1>4, <1>5, <1>6, <1>7 DEF WorkerStep

\* A tunnel that is as the caches ask, and that no announced change concerns, is
\* neither taken down nor replaced, however old what a worker has read is: for
\* any cluster and any changes, under the same three conditions.
THEOREM NothingDisturbed ==
    OneWorker /\ SeenDeletes /\ FixedClasses => (Spec => Undisturbed)
  <1> SUFFICES ASSUME OneWorker, SeenDeletes, FixedClasses PROVE Spec => Undisturbed
    OBVIOUS
  <1> DEFINE Left == \A k \in Keys, r \in Rules :
               tunnels'[k][r] # tunnels[k][r] => tunnels[k][r] # Wanted(k)[r] \/ Due(k, r)
  <1>1. ASSUME Settles, Inv, Inv', [Next]_vars PROVE Left
    <2> SUFFICES ASSUME NEW k \in Keys, NEW r \in Rules, tunnels'[k][r] # tunnels[k][r]
                 PROVE  tunnels[k][r] # Wanted(k)[r] \/ Due(k, r)
      OBVIOUS
    <2>1. PICK w \in Workers : updateRoutes(w) \/ deleteIngress(w) \/ deleteByKindKeys(w)
      BY <1>1, CallsOnly
    <2>2. SettleInv(w)
      BY <1>1 DEF Settles
    <2>3. Right(tunnels')
      BY <1>1, <2>1, <2>2, CallRight
    <2>4. CASE k \in ServedKeys
      BY <2>3, <2>4 DEF Right
    <2>5. CASE k \notin ServedKeys
      BY <1>1, <2>5 DEF Inv, TableInv
    <2> QED BY <2>4, <2>5
  <1> QED BY <1>1, SettlesInvariant, Invariant, PTL DEF Spec, Undisturbed

-----------------------------------------------------------------------------
(* Any number of workers and a calm cluster: what a worker has read is what *)
(* the caches hold, because they do not change while it works.              *)

SomeWorker == Workers # {}

\* The worker is seeing to the tunnel, or to the ingress; somebody is.
Busy(w, k, t) == Unsettled(w, k, t) \/ Rewrites(w, k) \/ Prunes(w, k, t)
Handles(w, k) == Pending(w, "ingress", k) \/ Rewrites(w, k)
Seen(k, t)    == \E w \in Workers : Busy(w, k, t)
Handled(k)    == \E w \in Workers : Handles(w, k)

CalmTable ==
    \A k \in ServedKeys, t \in Rules :
      /\ tunnels[k][t] = Wanted(k)[t] \/ Seen(k, t)
      /\ tunnels[k][t] # NoTunnel => Handled(k) \/ Lists(k, t)

\* What the worker has read and made of it is exact.
Exact(w) ==
    LET item == work[w].item
        ing  == work[w].cur.ing
        certified == CertifiedBackends(ing, cache["secret"])
    IN  /\ work[w].pc \in Translating =>
             /\ \A x \in work[w].todo : x.ing = cache["ingress"][x.key]
             /\ \A k \in DOMAIN work[w].routes : work[w].routes[k] = Wanted(k)
        /\ Reading(w) => ing = cache["ingress"][work[w].cur.key]
        /\ work[w].pc = "readServices" => work[w].found = certified
        /\ work[w].pc = "readEndpoints" =>
             work[w].found = PortedBackends(certified, cache["service"])
        /\ work[w].pc = "deleteIngress" =>
             item.kind = "ingress" /\ cache["ingress"][item.name] = Absent
        /\ work[w].pc \in {"updateByKind", "deleteByKind", "deleteByKindKeys"} =>
             item.kind \in {"endpoint", "secret", "service"}
        /\ work[w].pc \in {"deleteByKind", "deleteByKindKeys"} =>
             cache[item.kind][item.name] = Absent

CalmInv == CalmTable /\ \A w \in Workers : Exact(w) /\ Plain(w)

\* A worker that does nothing in a step is as busy after it.
LEMMA OthersStay ==
    ASSUME UNCHANGED <<cache, events, dirty>>, NEW v, work'[v] = work[v]
    PROVE  /\ \A k, t : Busy(v, k, t) => Busy(v, k, t)'
           /\ \A k : Handles(v, k) => Handles(v, k)'
           /\ Exact(v) => Exact(v)'
  <1>1. cache' = cache /\ \A kind, n : Notified(kind, n)' <=> Notified(kind, n)
    BY Still
  <1>2. \A kind, n : Pending(v, kind, n) => Pending(v, kind, n)'
    BY <1>1 DEF Pending
  <1>3. \A k, t : Unsettled(v, k, t) => Unsettled(v, k, t)'
    BY <1>2 DEF Unsettled
  <1>4. \A k : Rewrites(v, k) => Rewrites(v, k)'
    BY DEF Rewrites, Reading
  <1>5. \A k, t : Prunes(v, k, t) => Prunes(v, k, t)'
    BY DEF Prunes
  <1>6. Exact(v) => Exact(v)'
    <2>1. \A k : Wanted(k)' = Wanted(k)
      BY Still
    <2> QED BY <1>1, <2>1 DEF Exact, Reading
  <1> QED BY <1>2, <1>3, <1>4, <1>5, <1>6 DEF Busy, Handles

\* The queue and the notifications are plain for all workers or for none.
LEMMA PlainForAll ==
    ASSUME NEW w, NEW v, Plain(w)', Plain(v), work'[v] = work[v]
    PROVE  Plain(v)'
  BY DEF Plain

\* A step of the worker w makes a tunnel as wanted or leaves it alone, and then
\* somebody goes on seeing to what w was busy with.
LEMMA CalmStep ==
    ASSUME Inv, CalmInv, NEW w \in Workers, UNCHANGED <<cache, events, dirty>>,
           \A v \in Workers \ {w} : work'[v] = work[v], Exact(w)', Plain(w)',
           \A k \in ServedKeys, t \in Rules :
             \/ tunnels'[k][t] = Wanted(k)[t]
             \/ /\ tunnels'[k][t] = tunnels[k][t]
                /\ Busy(w, k, t) => Seen(k, t)'
                /\ Handles(w, k) => Handled(k)'
    PROVE  CalmInv'
  <1>1. ASSUME NEW v \in Workers PROVE Exact(v)' /\ Plain(v)'
    <2>1. CASE v = w
      BY <2>1
    <2>2. CASE v # w
      BY <2>2, OthersStay, PlainForAll DEF CalmInv
    <2> QED BY <2>1, <2>2
  <1>2. ASSUME NEW k \in ServedKeys, NEW t \in Rules
        PROVE  /\ tunnels'[k][t] = Wanted(k)'[t] \/ Seen(k, t)'
               /\ tunnels'[k][t] # NoTunnel => Handled(k)' \/ Lists(k, t)'
    <2>1. Wanted(k)' = Wanted(k) /\ (Lists(k, t)' <=> Lists(k, t))
      BY Still
    <2>2. CASE tunnels'[k][t] = Wanted(k)[t]
      BY <2>1, <2>2, WantedIndexed
    <2>3. CASE /\ tunnels'[k][t] = tunnels[k][t]
               /\ Busy(w, k, t) => Seen(k, t)'
               /\ Handles(w, k) => Handled(k)'
      <3>1. Seen(k, t) => Seen(k, t)'
        <4> SUFFICES ASSUME NEW v \in Workers, Busy(v, k, t) PROVE Seen(k, t)'
          BY DEF Seen
        <4>1. CASE v = w
          BY <2>3, <4>1
        <4>2. CASE v # w
          <5>1. Busy(v, k, t)'
            BY <4>2, OthersStay
          <5> QED BY <5>1 DEF Seen
        <4> QED BY <4>1, <4>2
      <3>2. Handled(k) => Handled(k)'
        <4> SUFFICES ASSUME NEW v \in Workers, Handles(v, k) PROVE Handled(k)'
          BY DEF Handled
        <4>1. CASE v = w
          BY <2>3, <4>1
        <4>2. CASE v # w
          <5>1. Handles(v, k)'
            BY <4>2, OthersStay
          <5> QED BY <5>1 DEF Handled
        <4> QED BY <4>1, <4>2
      <3> QED BY <2>1, <2>3, <3>1, <3>2 DEF CalmInv, CalmTable
    <2> QED BY <2>2, <2>3
  <1> QED BY <1>1, <1>2 DEF CalmInv, CalmTable

\* A notified resource keeps any worker busy, and one that has looked at its item
\* is busy with nothing else.
LEMMA CalmDue ==
    ASSUME NEW w \in Workers, UNCHANGED <<cache, events, dirty>>, NEW k, NEW t
    PROVE  /\ Due(k, t) => Seen(k, t)'
           /\ Notified("ingress", k) => Handled(k)'
           /\ /\ work[w].pc \notin {"handle", "updateByKind", "deleteByKind"}
              /\ ~Rewrites(w, k) /\ ~Prunes(w, k, t)
              => (Busy(w, k, t) => Due(k, t)) /\ (Handles(w, k) => Notified("ingress", k))
  <1>1. \A kind, n : Notified(kind, n)' <=> Notified(kind, n)
    BY Still
  <1>2. Due(k, t) => Busy(w, k, t)'
    BY <1>1 DEF Due, Busy, Unsettled, Pending
  <1>3. Notified("ingress", k) => Handles(w, k)'
    BY <1>1 DEF Handles, Pending
  <1>4. /\ work[w].pc \notin {"handle", "updateByKind", "deleteByKind"}
        /\ ~Rewrites(w, k) /\ ~Prunes(w, k, t)
        => (Busy(w, k, t) => Due(k, t)) /\ (Handles(w, k) => Notified("ingress", k))
    BY DEF Busy, Handles, Due, Unsettled, Pending
  <1> QED BY <1>2, <1>3, <1>4 DEF Seen, Handled

\* Get: what was notified is in the hands of the worker.
LEMMA GetCalm ==
    ASSUME Inv, CalmInv, NEW w \in Workers, Get(w)
    PROVE  CalmInv'
  <1> DEFINE i == Head(queue)
  <1>1. i \in dirty
    <2>1. /\ queue \in Seq(Items) /\ queue # <<>>
          /\ \A j \in 1..Len(queue) : queue[j] \in dirty
      BY DEF Inv, QueueInv, Get
    <2>2. 1 \in 1..Len(queue) /\ i = queue[1]
      BY <2>1, HeadTailProperties, EmptySeq
    <2> QED BY <2>1, <2>2
  <1>2. i.kind \in Kinds
    BY <1>1 DEF CalmInv, Plain
  <1>3. /\ work[w].pc = "idle" /\ cache' = cache /\ events' = events /\ tunnels' = tunnels
        /\ dirty' = dirty \ {i} /\ processing' = processing \cup {i} /\ delayed' = delayed
        /\ work'[w].pc = "handle" /\ work'[w].item = i
        /\ work'[w].err = FALSE /\ DOMAIN work'[w].routes = {}
    BY DEF Get, Inv, HandsInv, Idle
  <1>4. \A v \in Workers \ {w} : work'[v] = work[v]
    BY DEF Get, Inv, HandsInv
  <1> HIDE DEF i
  <1>5. ASSUME NEW v \in Workers, NEW kind, NEW n, Pending(v, kind, n)
        PROVE  Pending(v, kind, n)' \/ Pending(w, kind, n)'
    <2>1. CASE Notified(kind, n) /\ Item(kind, n) = i
      BY <1>3, <2>1 DEF Pending
    <2>2. CASE Notified(kind, n) /\ Item(kind, n) # i
      <3>1. Notified(kind, n)'
        BY <1>3, <2>2 DEF Notified
      <3> QED BY <3>1 DEF Pending
    <2>3. CASE ~Notified(kind, n)
      BY <1>3, <1>4, <1>5, <2>3 DEF Pending
    <2> QED BY <2>1, <2>2, <2>3
  <1>6. ASSUME NEW v \in Workers, NEW k
        PROVE  /\ Rewrites(v, k) => Rewrites(v, k)'
               /\ \A t : Prunes(v, k, t) => Prunes(v, k, t)'
    BY <1>3, <1>4 DEF Rewrites, Prunes, Reading, Translating
  <1>7. ASSUME NEW v \in Workers, NEW k, NEW t, Busy(v, k, t) PROVE Seen(k, t)'
    <2>1. Unsettled(v, k, t) => Unsettled(v, k, t)' \/ Unsettled(w, k, t)'
      BY <1>5 DEF Unsettled
    <2> QED BY <1>6, <1>7, <2>1 DEF Busy, Seen
  <1>8. ASSUME NEW v \in Workers, NEW k, Handles(v, k) PROVE Handled(k)'
    BY <1>5, <1>6, <1>8 DEF Handles, Handled
  <1>9. \A k, t : Wanted(k)' = Wanted(k) /\ (Lists(k, t)' <=> Lists(k, t))
    BY <1>3 DEF Wanted, Lists
  <1>10. CalmTable'
    <2>1. \A k, t : (Seen(k, t) => Seen(k, t)') /\ (Handled(k) => Handled(k)')
      BY <1>7, <1>8 DEF Seen, Handled
    <2> QED BY <1>3, <1>9, <2>1 DEF CalmInv, CalmTable
  <1>11. ASSUME NEW v \in Workers PROVE Exact(v)' /\ Plain(v)'
    <2>1. CASE v = w
      BY <1>2, <1>3, <2>1 DEF CalmInv, Exact, Plain, Reading, Translating
    <2>2. CASE v # w
      <3>1. Exact(v)'
        BY <1>3, <1>4, <1>9, <2>2 DEF CalmInv, Exact, Reading
      <3>2. Plain(v)'
        BY <1>2, <1>3, <1>4, <2>2 DEF CalmInv, Plain
      <3> QED BY <3>1, <3>2
    <2> QED BY <2>1, <2>2
  <1> QED BY <1>10, <1>11 DEF CalmInv

\* handleIngress: the worker will replace or remove the route of the ingress.
LEMMA HandleIngressCalm ==
    ASSUME Inv, CalmInv, NEW w \in Workers, handleIngress(w)
    PROVE  CalmInv'
  <1>1. /\ UNCHANGED <<cache, events, qvars, tunnels>> /\ work[w].pc = "handle"
        /\ UNCHANGED <<cache, events, dirty>> /\ cache' = cache /\ tunnels' = tunnels
        /\ \A v \in Workers \ {w} : work'[v] = work[v]
    BY DEF handleIngress, qvars, Inv, HandsInv
  <1>2. PICK n : work[w].item = Item("ingress", n) /\ n = work[w].item.name
    <2>1. work[w].item \in ServedItems /\ work[w].item.kind = "ingress"
      BY SMTT(30) DEF Inv, HandsInv, QueueInv, handleIngress
    <2> QED BY <2>1, ItemName DEF Kinds
  <1> DEFINE obj == cache["ingress"][n]
  <1>3. /\ work'[w].pc = IF obj = Absent THEN "deleteIngress" ELSE "translate"
        /\ work'[w].todo = IF obj = Absent THEN {} ELSE {[key |-> n, ing |-> obj]}
        /\ work'[w].item = work[w].item /\ work'[w].err = work[w].err
        /\ work'[w].routes = work[w].routes
    BY <1>2, ZenonT(30) DEF handleIngress, Inv, HandsInv, Idle
  <1> HIDE DEF obj
  <1>4. Rewrites(w, n)'
    <2>1. CASE obj = Absent
      BY <1>2, <1>3, <2>1 DEF Rewrites
    <2>2. CASE obj # Absent
      <3> DEFINE x == [key |-> n, ing |-> obj]
      <3>1. work'[w].pc = "translate" /\ x \in work'[w].todo /\ x.key = n
        BY <1>3, <2>2
      <3> QED BY <3>1 DEF Rewrites, Translating
    <2> QED BY <2>1, <2>2
  <1>5. ASSUME NEW k \in ServedKeys, NEW t \in Rules
        PROVE  (Busy(w, k, t) => Seen(k, t)') /\ (Handles(w, k) => Handled(k)')
    <2>1. CASE k = n
      BY <1>4, <2>1 DEF Busy, Seen, Handles, Handled
    <2>2. CASE k # n
      <3>1. ~Rewrites(w, k) /\ ~Prunes(w, k, t)
        BY <1>1 DEF Rewrites, Prunes, Translating
      <3>2. /\ Busy(w, k, t) => Due(k, t)
            /\ Handles(w, k) => Notified("ingress", k)
        BY <1>2, <2>2, <3>1 DEF Busy, Handles, Unsettled, Pending, Due, Item
      <3> QED BY <1>1, <3>2, CalmDue
    <2> QED BY <2>1, <2>2
  <1>6. DOMAIN work'[w].routes = {} /\ Plain(w)'
    BY <1>1, <1>3, PlainStep DEF CalmInv, Plain
  <1>7. Exact(w)'
    <2>1. \A x \in work'[w].todo : x.ing = cache["ingress"][x.key]
      BY <1>3 DEF obj
    <2> QED BY <1>1, <1>2, <1>3, <1>6, <2>1 DEF Exact, Reading, Item, obj
  <1> QED BY <1>1, <1>5, <1>6, <1>7, CalmStep

\* handleByKind: the worker has yet to look at the ingresses of the resource.
LEMMA HandleByKindCalm ==
    ASSUME Inv, CalmInv, NEW w \in Workers, handleByKind(w)
    PROVE  CalmInv'
  <1> DEFINE item == work[w].item
  <1>1. /\ UNCHANGED <<cache, events, qvars, tunnels>> /\ work[w].pc = "handle"
        /\ UNCHANGED <<cache, events, dirty>> /\ cache' = cache /\ tunnels' = tunnels
        /\ \A v \in Workers \ {w} : work'[v] = work[v]
        /\ item.kind \in {"endpoint", "secret", "service"}
    BY DEF handleByKind, qvars, Goto, Inv, HandsInv
  <1>2. /\ work'[w].pc = IF cache[item.kind][item.name] # Absent THEN "updateByKind"
                                                                  ELSE "deleteByKind"
        /\ work'[w].item = item /\ work'[w].err = work[w].err
        /\ work'[w].routes = work[w].routes
    BY DEF handleByKind, Goto, Inv, HandsInv, Idle
  <1>3. \A kind, m : Notified(kind, m)' <=> Notified(kind, m)
    BY <1>1, Still
  <1>4. \A kind, m : Pending(w, kind, m) => Pending(w, kind, m)'
    BY <1>2, <1>3 DEF Pending
  <1>5. \A k, t : Unsettled(w, k, t) => Unsettled(w, k, t)'
    BY <1>4 DEF Unsettled
  <1>6. \A k, t : ~Rewrites(w, k) /\ ~Prunes(w, k, t)
    BY <1>1 DEF Rewrites, Prunes, Translating
  <1>7. \A k, t : (Busy(w, k, t) => Seen(k, t)') /\ (Handles(w, k) => Handled(k)')
    BY <1>4, <1>5, <1>6, SMTT(30) DEF Busy, Seen, Handles, Handled
  <1>8. Exact(w)'
    BY <1>1, <1>2, SMTT(30) DEF Exact, Reading, Translating
  <1>9. Plain(w)'
    BY <1>1, <1>2, PlainStep DEF CalmInv, Plain
  <1> QED BY <1>1, <1>7, <1>8, <1>9, CalmStep

\* The worker has an item of a secret, a service or endpoints.  A tunnel that is
\* not as wanted and that it is busy with is due for another reason, or another
\* worker handles its ingress, or the ingress is indexed under the resource.
LEMMA CalmIndexed ==
    ASSUME Inv, CalmInv, NEW w \in Workers, work[w].pc \in {"updateByKind", "deleteByKind"},
           UNCHANGED <<cache, events, dirty>>, \A v \in Workers \ {w} : work'[v] = work[v],
           NEW k \in ServedKeys, NEW t \in Rules
    PROVE  /\ Handles(w, k) => Handled(k)'
           /\ \/ tunnels[k][t] = Wanted(k)[t]
              \/ Busy(w, k, t) => Seen(k, t)'
              \/ /\ k \in IndexKeys(work[w].item)
                 /\ getKindRuleResource(work[w].item.kind, t) = work[w].item.name
  <1> DEFINE item == work[w].item
  <1>1. item.kind \in {"endpoint", "secret", "service"}
    BY DEF CalmInv, Exact
  <1>2. ~Rewrites(w, k) /\ ~Prunes(w, k, t)
    BY DEF Rewrites, Prunes, Translating
  <1>3. Handles(w, k) => Notified("ingress", k)
    BY <1>1, <1>2 DEF Handles, Pending, Item
  <1>4. Handles(w, k) => Handled(k)'
    BY <1>3, CalmDue
  <1>5. ASSUME tunnels[k][t] # Wanted(k)[t], Busy(w, k, t), ~Seen(k, t)'
        PROVE  k \in IndexKeys(item) /\ getKindRuleResource(item.kind, t) = item.name
    <2>1. ~Due(k, t) /\ ~Handles(w, k)
      BY <1>3, <1>5, CalmDue DEF Due
    <2>2. ~Handled(k)
      <3> SUFFICES ASSUME NEW v \in Workers, Handles(v, k) PROVE FALSE
        BY DEF Handled
      <3>1. v # w
        BY <2>1
      <3>2. Handles(v, k)'
        BY <3>1, OthersStay
      <3>3. Busy(v, k, t)'
        BY <3>2 DEF Handles, Busy, Unsettled
      <3> QED BY <1>5, <3>3 DEF Seen
    <2>3. Lists(k, t)
      BY <1>5, <2>2, WantedIndexed DEF CalmInv, CalmTable
    <2>4. getKindRuleResource(item.kind, t) = item.name
      BY <1>1, <1>2, <1>5, <2>1 DEF Busy, Due, Unsettled, Pending, Item, getKindRuleResource
    <2>5. k \in Keys
      BY DEF ServedKeys
    <2> QED BY <1>1, <2>3, <2>4, <2>5 DEF IndexKeys, Lists, getKindRuleResource
  <1> QED BY <1>4, <1>5

\* updateByKind: the ingresses that are listed will be translated.
LEMMA UpdateByKindCalm ==
    ASSUME Inv, CalmInv, NEW w \in Workers, updateByKind(w)
    PROVE  CalmInv'
  <1> DEFINE ks == IndexKeys(work[w].item)
             jobs == {[key |-> k, ing |-> cache["ingress"][k]] : k \in ks}
  <1>1. /\ UNCHANGED <<cache, events, qvars, tunnels>> /\ work[w].pc = "updateByKind"
        /\ UNCHANGED <<cache, events, dirty>> /\ cache' = cache /\ tunnels' = tunnels
    BY DEF updateByKind, qvars
  <1>2. /\ work'[w].pc = IF ks = {} THEN "finish" ELSE "translate"
        /\ work'[w].todo = jobs
        /\ work'[w].item = work[w].item /\ work'[w].err = work[w].err
        /\ work'[w].routes = work[w].routes
        /\ \A v \in Workers \ {w} : work'[v] = work[v]
    <2> HIDE DEF ks
    <2> QED BY DEF updateByKind, Inv, HandsInv, Idle, ks
  <1>3. ASSUME NEW k \in ks PROVE Rewrites(w, k)'
    <2> DEFINE x == [key |-> k, ing |-> cache["ingress"][k]]
    <2>1. work'[w].pc = "translate" /\ x \in work'[w].todo /\ x.key = k
      BY <1>2, <1>3
    <2> QED BY <2>1 DEF Rewrites, Translating
  <1>4. ASSUME NEW k \in ServedKeys, NEW t \in Rules
        PROVE  \/ tunnels[k][t] = Wanted(k)[t]
               \/ (Busy(w, k, t) => Seen(k, t)') /\ (Handles(w, k) => Handled(k)')
    <2> HIDE DEF ks, jobs
    <2>1. k \in ks => Seen(k, t)'
      BY <1>3 DEF Busy, Seen
    <2> QED BY <1>1, <1>2, <2>1, CalmIndexed DEF ks
  <1>5. DOMAIN work'[w].routes = {} /\ Plain(w)'
    <2> HIDE DEF ks, jobs
    <2> QED BY <1>1, <1>2, PlainStep DEF CalmInv, Plain
  <1>6. Exact(w)'
    <2>1. \A x \in jobs : x.ing = cache["ingress"][x.key]
      OBVIOUS
    <2> HIDE DEF ks, jobs
    <2> QED BY <1>1, <1>2, <1>5, <2>1 DEF Exact, Reading
  <1> HIDE DEF ks, jobs
  <1> QED BY <1>1, <1>2, <1>4, <1>5, <1>6, CalmStep

\* deleteByKind: those that are listed will lose their tunnels of the resource.
LEMMA DeleteByKindCalm ==
    ASSUME Inv, CalmInv, NEW w \in Workers, deleteByKind(w)
    PROVE  CalmInv'
  <1> DEFINE ks == IndexKeys(work[w].item)
  <1>1. /\ UNCHANGED <<cache, events, qvars, tunnels>> /\ work[w].pc = "deleteByKind"
        /\ UNCHANGED <<cache, events, dirty>> /\ cache' = cache /\ tunnels' = tunnels
    BY DEF deleteByKind, qvars
  <1> HIDE DEF ks
  <1>2. /\ work'[w].pc = IF ks = {} THEN "finish" ELSE "deleteByKindKeys"
        /\ work'[w].todo = ks
        /\ work'[w].item = work[w].item /\ work'[w].err = work[w].err
        /\ \A v \in Workers \ {w} : work'[v] = work[v]
    BY DEF deleteByKind, Inv, HandsInv, Idle, ks
  <1>3. ASSUME NEW k \in ServedKeys, NEW t \in Rules
        PROVE  \/ tunnels[k][t] = Wanted(k)[t]
               \/ (Busy(w, k, t) => Seen(k, t)') /\ (Handles(w, k) => Handled(k)')
    <2>1. k \in ks /\ getKindRuleResource(work[w].item.kind, t) = work[w].item.name
            => Prunes(w, k, t)'
      BY <1>2 DEF Prunes
    <2>2. Prunes(w, k, t)' => Seen(k, t)'
      BY DEF Busy, Seen
    <2> QED BY <1>1, <1>2, <2>1, <2>2, CalmIndexed DEF ks
  <1>4. Exact(w)'
    BY <1>1, <1>2 DEF CalmInv, Exact, Reading, Translating
  <1>5. Plain(w)'
    BY <1>1, <1>2, PlainStep DEF CalmInv
  <1> QED BY <1>1, <1>2, <1>3, <1>4, <1>5, CalmStep

\* While a worker translates, it is going to replace the same routes.
LEMMA TranslationCalm ==
    ASSUME Inv, CalmInv, NEW w \in Workers, UNCHANGED <<cache, events, qvars, tunnels>>,
           \A v \in Workers \ {w} : work'[v] = work[v],
           work[w].pc \in Translating, work'[w].pc \in Translating,
           work'[w].err = work[w].err, work'[w].pc = "update" => work'[w].todo = {},
           \A k : Rewrites(w, k) => Rewrites(w, k)', Exact(w)'
    PROVE  CalmInv'
  <1>1. UNCHANGED <<cache, events, dirty>> /\ tunnels' = tunnels
    BY DEF qvars
  <1>2. Plain(w)'
    BY PlainStep DEF CalmInv, Translating
  <1>3. ASSUME NEW k \in ServedKeys, NEW t \in Rules
        PROVE  (Busy(w, k, t) => Seen(k, t)') /\ (Handles(w, k) => Handled(k)')
    <2>1. CASE Rewrites(w, k)
      BY <2>1 DEF Busy, Seen, Handles, Handled
    <2>2. CASE ~Rewrites(w, k)
      BY <1>1, <2>2, CalmDue DEF Prunes, Translating
    <2> QED BY <2>1, <2>2
  <1> QED BY <1>1, <1>2, <1>3, CalmStep

\* readSecrets: the backends found are those of the cache.
LEMMA ReadSecretsCalm ==
    ASSUME Inv, CalmInv, NEW w \in Workers, readSecrets(w)
    PROVE  CalmInv'
  <1>1. /\ UNCHANGED <<cache, events, qvars, tunnels>> /\ work[w].pc = "translate"
        /\ cache' = cache /\ UNCHANGED <<cache, events, dirty>>
    BY DEF readSecrets, qvars
  <1>2. PICK x \in work[w].todo :
          work' = [work EXCEPT ![w].pc = "readServices", ![w].cur = x,
                               ![w].todo = @ \ {x},
                               ![w].found = CertifiedBackends(x.ing, cache["secret"])]
    BY DEF readSecrets
  <1> DEFINE bs == CertifiedBackends(x.ing, cache["secret"])
  <1> HIDE DEF bs
  <1>3. /\ work'[w].pc = "readServices" /\ work'[w].cur = x /\ work'[w].found = bs
        /\ work'[w].todo = work[w].todo \ {x} /\ work'[w].item = work[w].item
        /\ work'[w].err = work[w].err /\ work'[w].routes = work[w].routes
        /\ \A v \in Workers \ {w} : work'[v] = work[v]
    BY <1>2 DEF Inv, HandsInv, Idle, bs
  <1>4. ASSUME NEW k, Rewrites(w, k) PROVE Rewrites(w, k)'
    BY <1>1, <1>3, <1>4 DEF Rewrites, Reading, Translating
  <1>5. Exact(w)'
    <2>1. /\ \A y \in work[w].todo : y.ing = cache["ingress"][y.key]
          /\ \A k \in DOMAIN work[w].routes : work[w].routes[k] = Wanted(k)
      BY <1>1 DEF CalmInv, Exact, Translating
    <2>2. CertifiedBackends(x.ing, cache'["secret"]) = bs /\ \A k : Wanted(k)' = Wanted(k)
      BY <1>1, Still DEF bs
    <2> QED BY <1>1, <1>3, <2>1, <2>2 DEF Exact, Reading
  <1> QED BY <1>1, <1>3, <1>4, <1>5, TranslationCalm DEF Translating

\* readServices: the backends that are left have a port in the cache.
LEMMA ReadServicesCalm ==
    ASSUME Inv, CalmInv, NEW w \in Workers, readServices(w)
    PROVE  CalmInv'
  <1> DEFINE bs == PortedBackends(work[w].found, cache["service"])
  <1>1. /\ UNCHANGED <<cache, events, qvars, tunnels>> /\ work[w].pc = "readServices"
        /\ cache' = cache /\ UNCHANGED <<cache, events, dirty>>
    BY DEF readServices, qvars
  <1> HIDE DEF bs
  <1>2. /\ work'[w].pc = "readEndpoints" /\ work'[w].cur = work[w].cur /\ work'[w].found = bs
        /\ work'[w].todo = work[w].todo /\ work'[w].item = work[w].item
        /\ work'[w].err = work[w].err /\ work'[w].routes = work[w].routes
        /\ \A v \in Workers \ {w} : work'[v] = work[v]
    BY DEF readServices, Inv, HandsInv, Idle, bs
  <1>3. ASSUME NEW k, Rewrites(w, k) PROVE Rewrites(w, k)'
    BY <1>1, <1>2, <1>3 DEF Rewrites, Reading, Translating
  <1>4. Exact(w)'
    <2>1. /\ \A y \in work[w].todo : y.ing = cache["ingress"][y.key]
          /\ \A k \in DOMAIN work[w].routes : work[w].routes[k] = Wanted(k)
          /\ work[w].cur.ing = cache["ingress"][work[w].cur.key]
          /\ work[w].found = CertifiedBackends(work[w].cur.ing, cache["secret"])
      BY <1>1 DEF CalmInv, Exact, Translating, Reading
    <2>2. \A k : Wanted(k)' = Wanted(k)
      BY <1>1, Still
    <2> QED BY <1>1, <1>2, <2>1, <2>2 DEF Exact, Reading, bs
  <1> QED BY <1>1, <1>2, <1>3, <1>4, TranslationCalm DEF Translating

\* readEndpoints: the route is what the caches ask for.
LEMMA ReadEndpointsCalm ==
    ASSUME Inv, CalmInv, FixedClasses, NEW w \in Workers, readEndpoints(w)
    PROVE  CalmInv'
  <1>1. /\ UNCHANGED <<cache, events, qvars, tunnels>> /\ work[w].pc = "readEndpoints"
        /\ cache' = cache /\ UNCHANGED <<cache, events, dirty>>
    BY DEF readEndpoints, qvars
  <1>2. PICK x \in Jobs : x = work[w].cur
    BY <1>1 DEF Inv, JobInv
  <1> DEFINE k == x.key
             route == MakeRoute(x.ing, ReadyBackends(work[w].found, cache["endpoint"]))
             old == work[w].routes
             new == [j \in DOMAIN old \cup {k} |-> IF j = k THEN route ELSE old[j]]
             pc == IF work[w].todo = {} THEN "update" ELSE "translate"
  <1>3. /\ work'[w].pc = pc /\ work'[w].todo = work[w].todo /\ work'[w].routes = new
        /\ work'[w].item = work[w].item /\ work'[w].err = work[w].err
        /\ \A v \in Workers \ {w} : work'[v] = work[v]
    <2>1. work' = [work EXCEPT ![w].pc = pc, ![w].found = {}, ![w].cur = None,
                               ![w].routes = new]
      BY <1>2 DEF readEndpoints
    <2> HIDE DEF new, pc
    <2> QED BY <2>1, SMTT(30) DEF Inv, HandsInv, Idle
  <1>4. work'[w].pc \in Translating /\ ~Reading(w)'
    BY <1>3 DEF Translating, Reading
  <1>5. work'[w].pc = "update" => work'[w].todo = {}
    BY <1>3
  <1> HIDE DEF route, pc
  <1>6. ASSUME NEW j, Rewrites(w, j) PROVE Rewrites(w, j)'
    <2>1. \/ j \in DOMAIN old \/ j = k \/ \E y \in work[w].todo : y.key = j
      BY <1>1, <1>2, <1>6 DEF Rewrites
    <2> QED BY <1>3, <1>4, <2>1 DEF Rewrites
  <1>7. /\ \A y \in work[w].todo : y.ing = cache["ingress"][y.key]
        /\ \A j \in DOMAIN old : old[j] = Wanted(j)
        /\ x.ing = cache["ingress"][k]
        /\ work[w].found = PortedBackends(CertifiedBackends(x.ing, cache["secret"]),
                                          cache["service"])
    BY <1>1, <1>2 DEF CalmInv, Exact, Translating, Reading
  <1>8. route = Wanted(k)
    <2>1. x.ing # Absent /\ x.ing.class = IngressClass
      BY JobProperties, ServedObjects
    <2> QED BY <1>7, <2>1 DEF route, Wanted, getRouteFromIngress
  <1>9. \A j \in DOMAIN new : new[j] = Wanted(j)
    BY <1>7, <1>8
  <1>10. Exact(w)'
    <2>1. \A j : Wanted(j)' = Wanted(j)
      BY <1>1, Still
    <2> HIDE DEF new
    <2>2. \A j \in DOMAIN work'[w].routes : work'[w].routes[j] = Wanted(j)'
      BY <1>3, <1>9, <2>1
    <2> QED BY <1>1, <1>3, <1>4, <1>7, <2>2 DEF Exact, Reading, Translating
  <1> HIDE DEF new
  <1> QED BY <1>1, <1>3, <1>4, <1>5, <1>6, <1>10, TranslationCalm, SMTT(30) DEF Translating

\* What a call of the router makes of a tunnel: as wanted, or what it was.
Mends(w, table) ==
    \A k \in ServedKeys, t \in Rules :
      \/ table[k][t] = Wanted(k)[t]
      \/ table[k][t] = tunnels[k][t] /\ ~Rewrites(w, k) /\ ~Prunes(w, k, t)

\* updateRoutes replaces routes by what the caches ask for,
LEMMA UpdateRoutesMends ==
    ASSUME Inv, CalmInv, NEW w \in Workers, updateRoutes(w)
    PROVE  Mends(w, tunnels')
  <1> DEFINE table == Replace(tunnels, work[w].routes)
  <1>1. tunnels' = table /\ work[w].pc = "update"
    BY DEF updateRoutes, RouterCall
  <1>2. ASSUME NEW k \in ServedKeys, NEW t \in Rules
        PROVE  \/ table[k][t] = Wanted(k)[t]
               \/ table[k][t] = tunnels[k][t] /\ ~Rewrites(w, k) /\ ~Prunes(w, k, t)
    <2>1. k \in Keys /\ ~Prunes(w, k, t) /\ work[w].todo = {}
      BY <1>1 DEF ServedKeys, Prunes, CalmInv, Plain
    <2>2. CASE k \in DOMAIN work[w].routes
      <3>1. table[k] = work[w].routes[k]
        BY <2>1, <2>2 DEF Replace
      <3>2. work[w].routes[k] = Wanted(k)
        BY <1>1, <2>2 DEF CalmInv, Exact, Translating
      <3> QED BY <3>1, <3>2
    <2>3. CASE k \notin DOMAIN work[w].routes
      <3>1. table[k] = tunnels[k]
        BY <2>1, <2>3 DEF Replace
      <3>2. ~Rewrites(w, k)
        BY <1>1, <2>1, <2>3 DEF Rewrites, Reading
      <3> QED BY <2>1, <3>1, <3>2
    <2> QED BY <2>2, <2>3
  <1> QED BY <1>1, <1>2 DEF Mends

\* deleteIngress removes the route of an ingress that is gone,
LEMMA DeleteIngressMends ==
    ASSUME Inv, CalmInv, NEW w \in Workers, deleteIngress(w)
    PROVE  Mends(w, tunnels')
  <1> DEFINE n == work[w].item.name
             table == Drop(tunnels, n)
  <1>1. tunnels' = table /\ work[w].pc = "deleteIngress"
    BY DEF deleteIngress, RouterCall
  <1>2. ASSUME NEW k \in ServedKeys, NEW t \in Rules
        PROVE  \/ table[k][t] = Wanted(k)[t]
               \/ table[k][t] = tunnels[k][t] /\ ~Rewrites(w, k) /\ ~Prunes(w, k, t)
    <2>1. k \in Keys /\ ~Prunes(w, k, t)
      BY <1>1 DEF ServedKeys, Prunes
    <2>2. CASE k = n
      <3>1. table[k] = NoRoute
        BY <2>1, <2>2 DEF Drop
      <3>2. Wanted(k) = NoRoute
        BY <1>1, <2>2 DEF CalmInv, Exact, Wanted
      <3> QED BY <3>1, <3>2
    <2>3. CASE k # n
      <3>1. table[k] = tunnels[k]
        BY <2>1, <2>3 DEF Drop
      <3>2. ~Rewrites(w, k)
        BY <1>1, <2>3 DEF Rewrites, Translating
      <3> QED BY <2>1, <3>1, <3>2
    <2> QED BY <2>2, <2>3
  <1> QED BY <1>1, <1>2 DEF Mends

\* and deleteByKindKeys the tunnels of a resource that is gone.
LEMMA DeleteByKindKeysMends ==
    ASSUME Inv, CalmInv, NEW w \in Workers, deleteByKindKeys(w)
    PROVE  Mends(w, tunnels')
  <1> DEFINE item == work[w].item
             table == DropByKind(tunnels, item.kind, item.name, work[w].todo)
  <1>1. tunnels' = table /\ work[w].pc = "deleteByKindKeys"
    BY DEF deleteByKindKeys, RouterCall
  <1>2. ASSUME NEW k \in ServedKeys, NEW t \in Rules
        PROVE  \/ table[k][t] = Wanted(k)[t]
               \/ table[k][t] = tunnels[k][t] /\ ~Rewrites(w, k) /\ ~Prunes(w, k, t)
    <2>1. k \in Keys /\ ~Rewrites(w, k)
      BY <1>1 DEF ServedKeys, Rewrites, Translating
    <2>2. CASE Prunes(w, k, t)
      <3>1. table[k][t] = NoTunnel
        BY <2>1, <2>2, SMTT(30) DEF DropByKind, Prunes
      <3>2. /\ item.kind \in {"endpoint", "secret", "service"}
            /\ ~Passes(item.kind, cache[item.kind][item.name])
        BY <1>1 DEF CalmInv, Exact, Passes
      <3>3. getKindRuleResource(item.kind, t) = item.name
        BY <2>2 DEF Prunes
      <3>4. ASSUME Wanted(k)[t] # NoTunnel PROVE Passes(item.kind, cache[item.kind][item.name])
        BY <3>2, <3>3, <3>4, WantedNeeds DEF getKindRuleResource
      <3> HIDE DEF table
      <3> QED BY <3>1, <3>2, <3>4
    <2>3. CASE ~Prunes(w, k, t)
      <3>1. table[k][t] = tunnels[k][t]
        BY <1>1, <2>1, <2>3 DEF DropByKind, Prunes
      <3> QED BY <2>1, <2>3, <3>1
    <2> QED BY <2>2, <2>3
  <1> QED BY <1>1, <1>2 DEF Mends

\* The call of an item, in the three forms it has.
LEMMA CallCalm ==
    ASSUME Inv, CalmInv, NEW w \in Workers,
           updateRoutes(w) \/ deleteIngress(w) \/ deleteByKindKeys(w)
    PROVE  Mends(w, tunnels') /\ CalmInv'
  <1>1. Mends(w, tunnels')
    BY UpdateRoutesMends, DeleteIngressMends, DeleteByKindKeysMends
  <1>2. PICK pc \in {"update", "deleteIngress", "deleteByKindKeys"} :
          \E table : RouterCall(w, pc, table)
    BY DEF updateRoutes, deleteIngress, deleteByKindKeys
  <1>3. /\ work[w].pc = pc /\ UNCHANGED <<cache, events, qvars>>
        /\ UNCHANGED <<cache, events, dirty>> /\ UNCHANGED <<events, qvars>>
        /\ work'[w].pc = "finish" /\ work'[w].err = FALSE
        /\ \A v \in Workers \ {w} : work'[v] = work[v]
    BY <1>2 DEF RouterCall, qvars, Inv, HandsInv, Idle
  <1>4. Exact(w)'
    BY <1>3 DEF Exact, Reading, Translating
  <1>5. Plain(w)'
    BY <1>3, PlainStep DEF CalmInv, Plain
  <1>6. ASSUME NEW k \in ServedKeys, NEW t \in Rules, ~Rewrites(w, k), ~Prunes(w, k, t)
        PROVE  (Busy(w, k, t) => Seen(k, t)') /\ (Handles(w, k) => Handled(k)')
    BY <1>3, <1>6, CalmDue
  <1>7. CalmInv'
    BY <1>1, <1>3, <1>4, <1>5, <1>6, CalmStep DEF Mends
  <1> QED BY <1>1, <1>7

\* Done: nothing was left to do for the item.
LEMMA DoneCalm ==
    ASSUME Inv, CalmInv, NEW w \in Workers, work[w].pc = "finish", Done(w),
           delayed' = delayed
    PROVE  CalmInv'
  <1>1. /\ UNCHANGED <<cache, events, dirty>> /\ tunnels' = tunnels /\ events' = events
        /\ dirty' = dirty /\ processing' \subseteq processing
        /\ work'[w].pc = "idle" /\ work'[w].err = FALSE
        /\ \A v \in Workers \ {w} : work'[v] = work[v]
    BY DEF Done, Inv, HandsInv, Idle
  <1>2. Exact(w)'
    BY <1>1 DEF Exact, Reading, Translating
  <1>3. Plain(w)'
    BY <1>1 DEF CalmInv, Plain
  <1>4. ASSUME NEW k \in ServedKeys, NEW t \in Rules
        PROVE  (Busy(w, k, t) => Seen(k, t)') /\ (Handles(w, k) => Handled(k)')
    BY <1>1, CalmDue DEF Rewrites, Prunes, Translating
  <1> QED BY <1>1, <1>2, <1>3, <1>4, CalmStep

\* Every step of a worker.
LEMMA WorkerCalm ==
    ASSUME Inv, CalmInv, FixedClasses, NEW w \in Workers, WorkerStep(w)
    PROVE  CalmInv'
  <1>1. ASSUME handleUnexpected(w) PROVE FALSE
    <2>1. work[w].item \in processing
      BY <1>1 DEF handleUnexpected, Inv, HandsInv
    <2> QED BY <1>1, <2>1 DEF handleUnexpected, CalmInv, Plain, Kinds, NoKind
  <1>2. ASSUME Requeue(w) PROVE FALSE
    BY <1>2 DEF Requeue, CalmInv, Plain
  <1>3. CASE Forget(w)
    BY <1>3, DoneCalm DEF Forget
  <1> QED BY <1>1, <1>2, <1>3, GetCalm, HandleIngressCalm, HandleByKindCalm,
             UpdateByKindCalm, DeleteByKindCalm, ReadSecretsCalm, ReadServicesCalm,
             ReadEndpointsCalm, CallCalm DEF WorkerStep

\* The cluster and the handlers, while no worker has read anything or the caches
\* stay as they are.
LEMMA CalmDrift ==
    ASSUME Inv, Inv', CalmInv, FixedClasses, SomeWorker, Announced, Kept,
           UNCHANGED <<work, tunnels>>, cache' # cache => Quiet,
           \A w \in Workers : Plain(w)'
    PROVE  CalmInv'
  <1>1. Agree /\ work' = work /\ tunnels' = tunnels
    BY AnnouncedAgree
  <1>2. ASSUME NEW w \in Workers PROVE Exact(w)'
    <2>1. CASE cache' = cache
      <3>1. \A k : Wanted(k)' = Wanted(k)
        BY <2>1 DEF Wanted
      <3> QED BY <1>1, <2>1, <3>1 DEF CalmInv, Exact, Reading
    <2>2. CASE Quiet
      <3>1. work'[w].pc = "idle"
        BY <1>1, <2>2 DEF Quiet, Inv, HandsInv
      <3> QED BY <3>1 DEF Exact, Reading, Translating
    <2> QED BY <2>1, <2>2
  <1>3. ASSUME NEW w \in Workers
        PROVE  /\ \A kind \in Kinds : \A n : Pending(w, kind, n) => Pending(w, kind, n)'
               /\ \A k : Rewrites(w, k) => Rewrites(w, k)'
               /\ \A k, t : Prunes(w, k, t) => Prunes(w, k, t)'
    BY <1>1 DEF Kept, Pending, Rewrites, Prunes, Reading
  <1>4. \A k, t : (Seen(k, t) => Seen(k, t)') /\ (Handled(k) => Handled(k)')
    <2>1. \A w \in Workers : \A k, t : Busy(w, k, t) => Busy(w, k, t)'
      BY <1>3 DEF Busy, Unsettled, Kinds
    <2>2. \A w \in Workers : \A k : Handles(w, k) => Handles(w, k)'
      BY <1>3 DEF Handles, Kinds
    <2> QED BY <2>1, <2>2 DEF Seen, Handled
  <1>5. ASSUME NEW k \in ServedKeys, NEW t \in Rules, ~Seen(k, t)'
        PROVE  tunnels'[k][t] = Wanted(k)'[t]
    <2>1. PICK w \in Workers : ~Unsettled(w, k, t)'
      BY <1>5 DEF SomeWorker, Seen, Busy
    <2>2. Wanted(k)'[t] = Wanted(k)[t]
      BY <1>1, <2>1, WantedAgrees
    <2> QED BY <1>1, <1>4, <1>5, <2>2 DEF CalmInv, CalmTable
  <1>6. ASSUME NEW k \in ServedKeys, NEW t \in Rules, tunnels'[k][t] # NoTunnel,
               ~Handled(k)'
        PROVE  Lists(k, t)'
    <2>1. ~Notified("ingress", k)'
      BY <1>6 DEF SomeWorker, Handled, Handles, Pending
    <2>2. cache'["ingress"][k] = cache["ingress"][k]
      BY <1>1, <2>1 DEF Agree
    <2> QED BY <1>1, <1>4, <1>6, <2>2 DEF CalmInv, CalmTable, Lists
  <1>7. CalmTable'
    BY <1>5, <1>6 DEF CalmTable
  <1> QED BY <1>2, <1>7 DEF CalmInv

\* A step of a calm cluster.
LEMMA CalmStepKeeps ==
    ASSUME Inv, Inv', SomeWorker, SeenDeletes, FixedClasses, CalmInv, [CalmNext]_vars
    PROVE  CalmInv'
  <1>1. \A w \in Workers : Plain(w)
    BY DEF CalmInv
  <1>2. CASE UNCHANGED vars
    <2>1. UNCHANGED <<cache, events, dirty>> /\ UNCHANGED <<work, tunnels>> /\ cache' = cache
          /\ events' = events /\ dirty' = dirty /\ processing' = processing
          /\ delayed' = delayed /\ work' = work
      BY <1>2 DEF vars, qvars
    <2>2. Announced /\ Kept
      BY <2>1, Still DEF Announced, Kept
    <2>3. \A w \in Workers : Plain(w)'
      BY <1>1, <2>1 DEF Plain
    <2> QED BY <2>1, <2>2, <2>3, CalmDrift
  <1>3. CASE ClusterStep /\ (cache' # cache => Quiet)
    <2>1. PICK kind \in Kinds : \E name \in DOMAIN Objects[kind] :
            \E new \in Objects[kind][name] \cup {Absent}, missed \in BOOLEAN :
              Edit(kind, name, new, missed)
      BY <1>3 DEF ClusterStep
    <2>2. PICK name \in DOMAIN Objects[kind] :
            \E new \in Objects[kind][name] \cup {Absent}, missed \in BOOLEAN :
              Edit(kind, name, new, missed)
      BY <2>1
    <2>3. PICK new \in Objects[kind][name] \cup {Absent}, missed \in BOOLEAN :
            Edit(kind, name, new, missed)
      BY <2>2
    <2>4. Announced /\ Kept /\ \A w \in Workers : Plain(w)'
      BY <1>1, <2>3, EditAnnounced DEF SomeWorker
    <2>5. UNCHANGED <<work, tunnels>>
      BY <2>3 DEF Edit
    <2> QED BY <1>3, <2>4, <2>5, CalmDrift
  <1>4. ASSUME NEW kind \in Kinds, Deliver(kind) PROVE CalmInv'
    <2>1. Announced /\ Kept /\ \A w \in Workers : Plain(w)'
      BY <1>1, <1>4, DeliverAnnounced DEF SomeWorker
    <2>2. UNCHANGED <<work, tunnels>> /\ cache' = cache
      BY <1>4 DEF Deliver
    <2> QED BY <2>1, <2>2, CalmDrift
  <1>5. ASSUME NEW item \in Items, DelayedAdd(item) PROVE FALSE
    BY <1>1, <1>5 DEF DelayedAdd, Plain, SomeWorker
  <1>6. ASSUME NEW w \in Workers, WorkerStep(w) PROVE CalmInv'
    BY <1>6, WorkerCalm
  <1> QED BY <1>2, <1>3, <1>4, <1>5, <1>6 DEF CalmNext, Next

Calm == SomeWorker /\ SeenDeletes /\ FixedClasses => CalmInv

\* In a calm cluster, whatever a worker has read is what the caches hold, and
\* somebody sees to every tunnel that is not as wanted.
THEOREM CalmInvariant == CalmSpec => [](Inv /\ Calm)
  <1>1. Init => Inv /\ Calm
    <2> SUFFICES ASSUME Init PROVE Inv /\ Calm
      OBVIOUS
    <2>1. Inv /\ \A w \in Workers : SettleInv(w)
      BY InitInv, InitSettles
    <2>2. ASSUME SomeWorker PROVE CalmInv
      <3>1. PICK w \in Workers : SettleInv(w)
        BY <2>1, <2>2 DEF SomeWorker
      <3>2. CalmTable
        BY <3>1 DEF SettleInv, TableSettles, TableIndexed, CalmTable, Seen, Busy, Handled, Handles
      <3>3. \A v \in Workers : work[v].pc = "idle" /\ Plain(v)
        BY <2>1 DEF Init, Idle, SettleInv
      <3>4. \A v \in Workers : Exact(v)
        BY <3>3 DEF Exact, Reading, Translating
      <3> QED BY <3>2, <3>3, <3>4 DEF CalmInv
    <2> QED BY <2>1, <2>2 DEF Calm
  <1>2. Inv /\ Calm /\ [CalmNext]_vars => (Inv /\ Calm)'
    <2> SUFFICES ASSUME Inv, Calm, [CalmNext]_vars PROVE Inv' /\ Calm'
      OBVIOUS
    <2>1. [Next]_vars
      BY DEF CalmNext
    <2>2. Inv'
      BY <2>1, StepInv
    <2>3. ASSUME SomeWorker, SeenDeletes, FixedClasses PROVE CalmInv'
      BY <2>2, <2>3, CalmStepKeeps DEF Calm
    <2> QED BY <2>2, <2>3 DEF Calm, SomeWorker, SeenDeletes, FixedClasses
  <1> QED BY <1>1, <1>2, PTL DEF CalmSpec

\* When nothing is on its way, the tunnels are what the caches ask for.
LEMMA CalmQuiet ==
    ASSUME Inv, CalmInv, Quiet, NEW k \in Keys, NEW t \in Rules
    PROVE  tunnels[k][t] = Wanted(k)[t]
  <1>1. \A w \in Workers : work[w].pc = "idle"
    BY DEF Quiet, Inv, HandsInv
  <1>2. \A kind \in Kinds : \A n : ~Notified(kind, n)
    <2>1. \A kind \in Kinds : Len(events[kind]) = 0 /\ dirty = {}
      BY DEF Quiet
    <2> QED BY <2>1 DEF Notified
  <1>3. \A w \in Workers : ~Busy(w, k, t)
    BY <1>1, <1>2 DEF Busy, Unsettled, Pending, Rewrites, Prunes, Kinds, Translating
  <1>4. CASE k \in ServedKeys
    BY <1>3, <1>4 DEF CalmInv, CalmTable, Seen
  <1>5. CASE k \notin ServedKeys
    <2>1. cache["ingress"][k] = Absent \/ cache["ingress"][k].class # IngressClass
      BY <1>5, ControllerAssumption DEF Inv, CacheInv, Kinds, ServedKeys
    <2> QED BY <1>5, <2>1 DEF Wanted, Inv, TableInv
  <1> QED BY <1>4, <1>5

\* With any number of workers, a controller that has dealt with every event has
\* no tunnel left that the caches do not ask for, if the cluster is calm, every
\* delete is seen and classes are fixed: the stale tunnels of the run stale_route
\* come from changes that overlap a translation and from nothing else.
THEOREM CalmNothingStale ==
    SomeWorker /\ SeenDeletes /\ FixedClasses => (CalmSpec => []NoStaleTunnel)
  <1> SUFFICES ASSUME SomeWorker, SeenDeletes, FixedClasses
               PROVE  CalmSpec => []NoStaleTunnel
    OBVIOUS
  <1>1. Inv /\ Calm => NoStaleTunnel
    BY CalmQuiet DEF Calm, NoStaleTunnel
  <1> QED BY <1>1, CalmInvariant, PTL

\* And every tunnel that they ask for is up.
THEOREM CalmNothingMissing ==
    SomeWorker /\ SeenDeletes /\ FixedClasses => (CalmSpec => []NoMissingTunnel)
  <1> SUFFICES ASSUME SomeWorker, SeenDeletes, FixedClasses
               PROVE  CalmSpec => []NoMissingTunnel
    OBVIOUS
  <1>1. Inv /\ Calm => NoMissingTunnel
    BY CalmQuiet DEF Calm, NoMissingTunnel
  <1> QED BY <1>1, CalmInvariant, PTL

\* No worker, however many there are, takes down or replaces a tunnel that is as
\* the caches ask.
THEOREM CalmNothingDisturbed ==
    SomeWorker /\ SeenDeletes /\ FixedClasses => (CalmSpec => Undisturbed)
  <1> SUFFICES ASSUME SomeWorker, SeenDeletes, FixedClasses
               PROVE  CalmSpec => Undisturbed
    OBVIOUS
  <1> DEFINE Left == \A k \in Keys, r \in Rules :
               tunnels'[k][r] # tunnels[k][r] => tunnels[k][r] # Wanted(k)[r] \/ Due(k, r)
  <1>1. ASSUME Inv, Inv', Calm, [CalmNext]_vars PROVE Left
    <2> SUFFICES ASSUME NEW k \in Keys, NEW r \in Rules, tunnels'[k][r] # tunnels[k][r]
                 PROVE  tunnels[k][r] # Wanted(k)[r]
      OBVIOUS
    <2>1. [Next]_vars /\ tunnels' # tunnels
      BY <1>1 DEF CalmNext
    <2>2. PICK w \in Workers : updateRoutes(w) \/ deleteIngress(w) \/ deleteByKindKeys(w)
      BY <2>1, CallsOnly
    <2>3. Mends(w, tunnels')
      BY <1>1, <2>2, CallCalm DEF Calm
    <2>4. CASE k \in ServedKeys
      BY <2>3, <2>4 DEF Mends
    <2>5. CASE k \notin ServedKeys
      BY <1>1, <2>5 DEF Inv, TableInv
    <2> QED BY <2>4, <2>5
  <1> QED BY <1>1, CalmInvariant, PTL DEF CalmSpec, Undisturbed
=============================================================================
