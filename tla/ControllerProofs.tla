-------------------------- MODULE ControllerProofs --------------------------
(***************************************************************************)
(* Proofs about Controller for any cluster, any number of workers and any  *)
(* mix of missed and seen deletes.                                         *)
(*                                                                         *)
(* Two things carry them.  The work queue gives an item to one worker at a *)
(* time: what is queued is dirty, queued once and not being processed      *)
(* (QueueInv), and a worker that is not idle holds an item of its own      *)
(* (HandsInv).  And the filters and the index keep ingresses of other      *)
(* classes out of the queue, of what workers translate and of the table:   *)
(* the invariant is typed over ServedItems and ServedKeys, not over all.   *)
(***************************************************************************)
EXTENDS Controller, SequenceTheorems, FiniteSetTheorems, TLAPS

\* Ingresses that may be of the controller's class, and items about them or
\* about other resources.
ServedKeys  == {k \in Keys : \E obj \in Objects["ingress"][k] : obj.class = IngressClass}
ServedItems == {i \in Items : i.kind = "ingress" => i.name \in ServedKeys}

\* Notifications of a kind, jobs of a translation, certificates of secrets.
Notifications(kind) ==
    UNION {[name : {n}, old : Objects[kind][n] \cup {Absent},
            new : Objects[kind][n] \cup {Absent}, missed : BOOLEAN] :
           n \in DOMAIN Objects[kind]}
Jobs  == UNION {[key : {k}, ing : Objects["ingress"][k]] : k \in ServedKeys}
Certs == {s.cert : s \in UNION {Objects["secret"][n] : n \in DOMAIN Objects["secret"]}}
           \ {NoCert}

IsBackend(b) ==
    /\ b = [host |-> b.host, secret |-> b.secret, cert |-> b.cert,
            service |-> b.service, port |-> b.port]
    /\ b.cert \in Certs

Translating == {"translate", "readServices", "readEndpoints", "update"}
Steps == Translating \cup {"idle", "handle", "updateByKind", "deleteByKind",
                           "deleteIngress", "deleteByKindKeys", "finish"}

-----------------------------------------------------------------------------
(* The inductive invariant *)

\* The caches hold objects of the cluster, the notifications are about them.
CacheInv ==
    /\ DOMAIN cache = Kinds /\ DOMAIN events = Kinds
    /\ \A kind \in Kinds :
         /\ DOMAIN cache[kind] = DOMAIN Objects[kind]
         /\ \A n \in DOMAIN Objects[kind] : cache[kind][n] \in Objects[kind][n] \cup {Absent}
         /\ events[kind] \in Seq(Notifications(kind))
    /\ edits \in 0..MaxEdits

\* What is queued is dirty, queued once, and not in the hands of a worker.
QueueInv ==
    /\ dirty \subseteq ServedItems /\ processing \subseteq ServedItems
    /\ delayed \subseteq ServedItems
    /\ queue \in Seq(Items)
    /\ \A i \in 1..Len(queue) : queue[i] \in dirty \ processing
    /\ \A i, j \in 1..Len(queue) : i # j => queue[i] # queue[j]
    /\ failures \in [Items -> 0..RequeueLimit]

\* A worker that is not idle holds an item, and no two hold the same.
HandsInv ==
    /\ DOMAIN work = Workers
    /\ \A w \in Workers :
         /\ DOMAIN work[w] = DOMAIN Idle
         /\ work[w].pc \in Steps
         /\ work[w].pc = "idle" => work[w].item = None
         /\ work[w].pc # "idle" => work[w].item \in processing
    /\ \A v, w \in Workers :
         v # w /\ work[v].pc # "idle" /\ work[w].pc # "idle" => work[v].item # work[w].item

\* What a worker translates, has found and has made of it.
JobInv(w) ==
    /\ work[w].pc \in Translating => work[w].todo \subseteq Jobs
    /\ work[w].pc \in {"readServices", "readEndpoints"} =>
         work[w].cur \in Jobs /\ \A b \in work[w].found : IsBackend(b)
    /\ DOMAIN work[w].routes \subseteq ServedKeys
    /\ \A k \in DOMAIN work[w].routes : work[w].routes[k] \in Route

\* The table of tunnels has nothing for the others.
TableInv ==
    /\ tunnels \in [Keys -> Route]
    /\ \A k \in Keys \ ServedKeys : tunnels[k] = NoRoute

Inv == CacheInv /\ QueueInv /\ HandsInv /\ (\A w \in Workers : JobInv(w)) /\ TableInv

-----------------------------------------------------------------------------
(* The cluster, the notifications and the queue *)

\* The Add of every object that is there at the start is on its way.
LEMMA InitialAdds ==
    ASSUME NEW kind \in Kinds
    PROVE  /\ InitialEvents(kind) \in Seq(Notifications(kind))
           /\ \A i \in 1..Len(InitialEvents(kind)) : InitialEvents(kind)[i].missed = FALSE
           /\ \A n \in DOMAIN Objects[kind] : InitialCache[kind][n] # Absent =>
                \E i \in 1..Len(InitialEvents(kind)) :
                   InitialEvents(kind)[i] = Event(n, Absent, InitialCache[kind][n], FALSE)
  <1> DEFINE names == {m \in DOMAIN Objects[kind] : InitialCache[kind][m] # Absent}
             add(n) == Event(n, Absent, InitialCache[kind][n], FALSE)
             adds == {add(n) : n \in names}
             N == Cardinality(adds)
             complete(s) == \A e \in adds : \E i \in DOMAIN s : s[i] = e
             S == CHOOSE s \in [1..N -> adds] : complete(s)
  <1>1. IsFiniteSet(adds)
    <2>1. IsFiniteSet(names)
      BY ClusterAssumption, FS_Subset
    <2>2. [n \in names |-> add(n)] \in Surjection(names, adds)
      BY DEF Surjection
    <2> QED BY <2>1, <2>2, FS_Surjection
  <1>2. N \in Nat /\ \E s \in [1..N -> adds] : complete(s)
    <2>1. N \in Nat /\ ExistsBijection(1..N, adds)
      BY <1>1, FS_CardinalityType
    <2> HIDE DEF N, adds
    <2>2. PICK s \in Bijection(1..N, adds) : TRUE
      BY <2>1 DEF ExistsBijection
    <2>3. s \in [1..N -> adds] /\ \A e \in adds : \E i \in 1..N : s[i] = e
      BY <2>2 DEF Bijection, Surjection
    <2> QED BY <2>1, <2>3
  <1>3. InitialEvents(kind) = S
    BY DEF InitialEvents
  <1>4. S \in [1..N -> adds] /\ complete(S)
    <2> HIDE DEF N, adds, complete
    <2> QED BY <1>2
  <1> HIDE DEF S, N
  <1>5. S \in Seq(adds) /\ Len(S) = N /\ DOMAIN S = 1..N
    <2> HIDE DEF adds, complete
    <2> QED BY <1>2, <1>4
  <1>6. adds \subseteq Notifications(kind)
    <2> SUFFICES ASSUME NEW n \in names PROVE add(n) \in Notifications(kind)
      OBVIOUS
    <2>1. n \in DOMAIN Objects[kind] /\ InitialCache[kind][n] \in Objects[kind][n] \cup {Absent}
      BY ClusterAssumption
    <2>2. add(n) \in [name : {n}, old : Objects[kind][n] \cup {Absent},
                      new : Objects[kind][n] \cup {Absent}, missed : BOOLEAN]
      BY <2>1 DEF Event
    <2> QED BY <2>1, <2>2 DEF Notifications
  <1>7. InitialEvents(kind) \in Seq(Notifications(kind))
    <2> HIDE DEF adds
    <2> QED BY <1>3, <1>5, <1>6, SeqMonotonic
  <1>8. ASSUME NEW n \in DOMAIN Objects[kind], InitialCache[kind][n] # Absent
        PROVE  \E i \in 1..Len(InitialEvents(kind)) : InitialEvents(kind)[i] = add(n)
    <2>1. add(n) \in adds
      BY <1>8
    <2> HIDE DEF adds, add
    <2> QED BY <1>3, <1>4, <1>5, <2>1
  <1>9. ASSUME NEW i \in 1..Len(InitialEvents(kind)) PROVE InitialEvents(kind)[i].missed = FALSE
    <2>1. \A e \in adds : e.missed = FALSE
      BY DEF Event
    <2> HIDE DEF adds, complete
    <2> QED BY <1>3, <1>4, <1>5, <2>1
  <1> QED BY <1>7, <1>8, <1>9

\* What a notification queues is one item that is served, or nothing.
LEMMA QueuedServed ==
    ASSUME NEW kind \in Kinds, NEW e \in Notifications(kind)
    PROVE  \/ Queued(kind, e) = {}
           \/ \E i \in ServedItems : Queued(kind, e) = {i}
  <1>1. PICK n \in DOMAIN Objects[kind] :
          e \in [name : {n}, old : Objects[kind][n] \cup {Absent},
                 new : Objects[kind][n] \cup {Absent}, missed : BOOLEAN]
    BY DEF Notifications
  <1>2. CASE e.missed
    <2>1. CASE kind = "service"
      <3>1. Item(NoKind, n) \in ServedItems
        BY <2>1 DEF ServedItems, Items, Item, NoKind
      <3> QED BY <1>1, <1>2, <2>1, <3>1 DEF Queued
    <2> QED BY <1>2, <2>1 DEF Queued
  <1>3. CASE ~e.missed /\ (Passes(kind, e.old) \/ Passes(kind, e.new))
    <2>1. PICK obj \in Objects[kind][n] : Passes(kind, obj)
      BY <1>1, <1>3 DEF Passes
    <2>2. Item(kind, n) \in Items /\ Item(kind, n).kind = kind /\ Item(kind, n).name = n
      BY DEF Items, ItemsOf, Item
    <2>3. Item(kind, n) \in ServedItems
      BY <2>1, <2>2, ControllerAssumption DEF ServedItems, ServedKeys, Passes
    <2> QED BY <1>1, <1>3, <2>3 DEF Queued
  <1> QED BY <1>2, <1>3 DEF Queued

\* Add keeps the queue without duplicates and clear of what is processed.
LEMMA AddKeepsQueue ==
    ASSUME QueueInv, NEW items, items = {} \/ \E i \in ServedItems : items = {i},
           Add(items), UNCHANGED <<processing, failures>>, delayed' \subseteq delayed
    PROVE  QueueInv' /\ dirty' = dirty \cup items
  <1>1. CASE items \ dirty = {}
    BY <1>1 DEF Add, QueueInv
  <1>2. CASE items \ dirty # {}
    <2>1. PICK i \in ServedItems : items = {i} /\ i \notin dirty
      BY <1>2
    <2>2. items \ dirty = {i} /\ (CHOOSE x \in items \ dirty : TRUE) = i
      BY <2>1
    <2>3. dirty' = dirty \cup {i} /\ dirty' = dirty \cup items
      BY <2>1, <2>2 DEF Add
    <2>4. i \in Items /\ queue \in Seq(Items)
      BY <2>1 DEF ServedItems, QueueInv
    <2>5. CASE i \in processing
      <3>1. queue' = queue
        BY <2>2, <2>5 DEF Add
      <3> QED BY <2>3, <3>1 DEF QueueInv
    <2>6. CASE i \notin processing
      <3>1. queue' = Append(queue, i)
        BY <2>2, <2>6 DEF Add
      <3>2. /\ queue' \in Seq(Items) /\ Len(queue') = Len(queue) + 1 /\ Len(queue) \in Nat
            /\ \A j \in 1..Len(queue) : queue'[j] = queue[j]
            /\ queue'[Len(queue) + 1] = i
        BY <2>4, <3>1, AppendProperties
      <3>3. \A j \in 1..Len(queue') : j \in 1..Len(queue) \/ j = Len(queue) + 1
        BY <3>2
      <3>4. \A j \in 1..Len(queue) : queue[j] \in dirty \ processing /\ queue[j] # i
        BY <2>1 DEF QueueInv
      <3>5. \A j \in 1..Len(queue') : queue'[j] \in dirty' \ processing'
        BY <2>1, <2>3, <2>6, <3>2, <3>3, <3>4
      <3>6. \A j, m \in 1..Len(queue') : j # m => queue'[j] # queue'[m]
        BY <3>2, <3>3, <3>4 DEF QueueInv
      <3> QED BY <2>3, <3>2, <3>5, <3>6 DEF QueueInv
    <2> QED BY <2>5, <2>6
  <1> QED BY <1>1, <1>2

\* An edit changes one object and appends its notification.
LEMMA EditKeepsCache ==
    ASSUME CacheInv, NEW kind \in Kinds, NEW name \in DOMAIN Objects[kind],
           NEW new \in Objects[kind][name] \cup {Absent}, NEW missed \in BOOLEAN,
           Edit(kind, name, new, missed)
    PROVE  CacheInv'
  <1> DEFINE e == Event(name, cache[kind][name], new, missed)
  <1>1. e \in Notifications(kind)
    <2>1. cache[kind][name] \in Objects[kind][name] \cup {Absent}
      BY DEF CacheInv
    <2>2. e \in [name : {name}, old : Objects[kind][name] \cup {Absent},
                 new : Objects[kind][name] \cup {Absent}, missed : BOOLEAN]
      BY <2>1 DEF Event
    <2> QED BY <2>2 DEF Notifications
  <1> HIDE DEF e
  <1>2. edits' \in 0..MaxEdits
    BY ControllerAssumption DEF Edit, CacheInv
  <1>3. /\ DOMAIN cache' = Kinds
        /\ \A k \in Kinds :
             /\ DOMAIN cache'[k] = DOMAIN Objects[k]
             /\ \A n \in DOMAIN Objects[k] : cache'[k][n] \in Objects[k][n] \cup {Absent}
    BY DEF Edit, CacheInv
  <1>4. DOMAIN events' = Kinds /\ \A k \in Kinds : events'[k] \in Seq(Notifications(k))
    <2>1. events' = [events EXCEPT ![kind] = Append(events[kind], e)]
      BY DEF Edit, e
    <2>2. Append(events[kind], e) \in Seq(Notifications(kind))
      BY <1>1, AppendProperties DEF CacheInv
    <2> QED BY <2>1, <2>2 DEF CacheInv
  <1> QED BY <1>2, <1>3, <1>4 DEF CacheInv

\* A notification that is taken queues its item.
LEMMA DeliverKeeps ==
    ASSUME CacheInv, QueueInv, NEW kind \in Kinds, Deliver(kind)
    PROVE  CacheInv' /\ QueueInv'
  <1>1. /\ Head(events[kind]) \in Notifications(kind)
        /\ Tail(events[kind]) \in Seq(Notifications(kind))
    BY HeadTailProperties DEF CacheInv, Deliver
  <1>2. CacheInv'
    BY <1>1 DEF CacheInv, Deliver
  <1>3. QueueInv'
    BY <1>1, QueuedServed, AddKeepsQueue DEF Deliver
  <1> QED BY <1>2, <1>3

\* Get hands out an item that nobody holds and that is queued no more.
LEMMA GetKeeps ==
    ASSUME QueueInv, HandsInv, NEW w \in Workers, Get(w)
    PROVE  QueueInv' /\ HandsInv'
  <1>1. /\ queue \in Seq(Items) /\ Len(queue) \in Nat /\ Len(queue) >= 1
        /\ Head(queue) = queue[1] /\ queue' \in Seq(Items) /\ Len(queue') = Len(queue) - 1
        /\ \A j \in 1..Len(queue) - 1 : queue'[j] = queue[j + 1]
    BY HeadTailProperties, EmptySeq DEF QueueInv, Get
  <1>2. Head(queue) \in dirty \ processing
    BY <1>1 DEF QueueInv
  <1>3. \A j \in 1..Len(queue') : j + 1 \in 1..Len(queue) /\ queue'[j] = queue[j + 1]
    BY <1>1
  <1>4. \A j \in 1..Len(queue') : queue'[j] \in (dirty \ processing) \ {Head(queue)}
    BY <1>1, <1>3, SMTT(30) DEF QueueInv
  <1>5. ASSUME NEW i \in 1..Len(queue'), NEW j \in 1..Len(queue'), i # j
        PROVE  queue'[i] # queue'[j]
    <2>1. i + 1 \in 1..Len(queue) /\ j + 1 \in 1..Len(queue) /\ i + 1 # j + 1
      BY <1>1, <1>5
    <2> QED BY <1>3, <2>1 DEF QueueInv
  <1>6. /\ dirty' = dirty \ {Head(queue)} /\ processing' = processing \cup {Head(queue)}
        /\ failures' = failures /\ delayed' = delayed
    BY DEF Get
  <1>7. QueueInv'
    BY <1>1, <1>2, <1>4, <1>5, <1>6 DEF QueueInv
  <1>8. /\ DOMAIN work' = Workers
        /\ \A v \in Workers \ {w} : work'[v] = work[v]
        /\ DOMAIN work'[w] = DOMAIN Idle
        /\ work'[w].pc = "handle" /\ work'[w].item = Head(queue)
    BY DEF Get, HandsInv, Idle
  <1>9. HandsInv'
    BY <1>2, <1>6, <1>8 DEF HandsInv, Steps
  <1> QED BY <1>7, <1>9

\* Done takes the item out of the worker's hands.
LEMMA DoneKeeps ==
    ASSUME QueueInv, HandsInv, NEW w \in Workers, work[w].pc = "finish", Done(w),
           failures' \in [Items -> 0..RequeueLimit], delayed' \subseteq ServedItems
    PROVE  QueueInv' /\ HandsInv' /\ work'[w] = Idle
  <1> DEFINE item == work[w].item
  <1>1. item \in processing /\ item \in Items
    BY DEF HandsInv, QueueInv, ServedItems
  <1>2. /\ dirty' = dirty /\ processing' = processing \ {item}
        /\ queue' = IF item \in dirty THEN Append(queue, item) ELSE queue
    BY DEF Done
  <1> HIDE DEF item
  <1>3. ASSUME item \notin dirty PROVE QueueInv'
    <2>1. queue' = queue
      BY <1>2, <1>3
    <2> QED BY <1>2, <2>1 DEF QueueInv
  <1>4. ASSUME item \in dirty PROVE QueueInv'
    <2>1. /\ queue' \in Seq(Items) /\ Len(queue') = Len(queue) + 1 /\ Len(queue) \in Nat
          /\ \A j \in 1..Len(queue) : queue'[j] = queue[j]
          /\ queue'[Len(queue) + 1] = item
      BY <1>1, <1>2, <1>4, AppendProperties DEF QueueInv
    <2>2. \A j \in 1..Len(queue') : j \in 1..Len(queue) \/ j = Len(queue) + 1
      BY <2>1
    <2>3. \A j \in 1..Len(queue) : queue[j] \in dirty \ processing /\ queue[j] # item
      BY <1>1 DEF QueueInv
    <2>4. \A j \in 1..Len(queue') : queue'[j] \in dirty' \ processing'
      BY <1>2, <1>4, <2>1, <2>2, <2>3
    <2>5. \A j, m \in 1..Len(queue') : j # m => queue'[j] # queue'[m]
      BY <2>1, <2>2, <2>3 DEF QueueInv
    <2> QED BY <1>2, <2>1, <2>4, <2>5 DEF QueueInv
  <1>5. QueueInv'
    BY <1>3, <1>4
  <1>6. /\ DOMAIN work' = Workers /\ work'[w] = Idle
        /\ \A v \in Workers \ {w} : work'[v] = work[v]
    BY DEF Done, HandsInv
  <1>7. Idle.pc = "idle" /\ Idle.item = None
    BY DEF Idle
  <1>8. HandsInv'
    BY <1>2, <1>6, <1>7 DEF HandsInv, Steps, item
  <1> QED BY <1>5, <1>6, <1>8

-----------------------------------------------------------------------------
(* A worker with an item *)

\* The worker goes on with its item; nothing but its own state changes.
GoesOn(w) ==
    /\ work[w].pc # "idle"
    /\ DOMAIN work' = Workers /\ \A v \in Workers \ {w} : work'[v] = work[v]
    /\ DOMAIN work'[w] = DOMAIN Idle
    /\ work'[w].pc \in Steps \ {"idle"} /\ work'[w].item = work[w].item

LEMMA GoesOnKeeps ==
    ASSUME HandsInv, NEW w \in Workers, GoesOn(w), processing' = processing
    PROVE  HandsInv'
  BY DEF HandsInv, GoesOn

\* The jobs of the other workers are their own.
LEMMA JobsApart ==
    ASSUME NEW v, JobInv(v), work'[v] = work[v]
    PROVE  JobInv(v)'
  BY DEF JobInv

\* A job is a served ingress and one of its objects.
LEMMA JobProperties ==
    /\ \A x \in Jobs : x.key \in ServedKeys /\ x.ing \in Objects["ingress"][x.key]
    /\ \A k \in ServedKeys : \A obj \in Objects["ingress"][k] : [key |-> k, ing |-> obj] \in Jobs
  <1>1. ASSUME NEW k \in ServedKeys, NEW obj \in Objects["ingress"][k]
        PROVE  [key |-> k, ing |-> obj] \in Jobs
    <2>1. [key |-> k, ing |-> obj] \in [key : {k}, ing : Objects["ingress"][k]]
      BY <1>1
    <2> QED BY <2>1 DEF Jobs
  <1>2. ASSUME NEW x \in Jobs
        PROVE  x.key \in ServedKeys /\ x.ing \in Objects["ingress"][x.key]
    BY <1>2 DEF Jobs
  <1> QED BY <1>1, <1>2

\* Ingresses that the index has for a resource are of the controller's class.
LEMMA IndexedServed ==
    ASSUME CacheInv, NEW item
    PROVE  \A k \in IndexKeys(item) :
             k \in ServedKeys /\ cache["ingress"][k] \in Objects["ingress"][k]
  <1> SUFFICES ASSUME NEW k \in IndexKeys(item)
               PROVE  k \in ServedKeys /\ cache["ingress"][k] \in Objects["ingress"][k]
    OBVIOUS
  <1>1. /\ k \in Keys /\ cache["ingress"][k] # Absent
        /\ cache["ingress"][k].class = IngressClass
    BY DEF IndexKeys, ingressSecretIndexFunc, ingressServiceIndexFunc
  <1>2. cache["ingress"][k] \in Objects["ingress"][k]
    BY <1>1, ControllerAssumption DEF CacheInv, Kinds
  <1> QED BY <1>1, <1>2 DEF ServedKeys

\* What getVerifiedCert finds has a certificate of a secret,
LEMMA CertifiedBackend ==
    ASSUME CacheInv, NEW ing, NEW b \in CertifiedBackends(ing, cache["secret"])
    PROVE  IsBackend(b)
  <1>1. PICK r \in ServedRules(ing) :
          /\ HasVerifiedCert(cache["secret"], RouteSecret(ing, r.host), r.host)
          /\ \E p \in SupportedPaths(r) :
               b = [host |-> r.host, secret |-> RouteSecret(ing, r.host),
                    cert |-> cache["secret"][RouteSecret(ing, r.host)].cert,
                    service |-> ServiceOf(ing, p), port |-> p.servicePort]
    BY DEF CertifiedBackends
  <1>2. PICK p \in SupportedPaths(r) :
          b = [host |-> r.host, secret |-> RouteSecret(ing, r.host),
               cert |-> cache["secret"][RouteSecret(ing, r.host)].cert,
               service |-> ServiceOf(ing, p), port |-> p.servicePort]
    BY <1>1
  <1> DEFINE n == RouteSecret(ing, r.host)
  <1>3. n \in DOMAIN Objects["secret"] /\ cache["secret"][n] # Absent
        /\ cache["secret"][n].cert # NoCert
    BY <1>1 DEF HasVerifiedCert, GetByKey, CacheInv, Kinds
  <1>4. cache["secret"][n] \in Objects["secret"][n]
    BY <1>3 DEF CacheInv, Kinds
  <1>5. cache["secret"][n].cert \in Certs
    BY <1>3, <1>4 DEF Certs
  <1> QED BY <1>2, <1>5 DEF IsBackend

\* which getVerifiedPort leaves to it.
LEMMA PortedBackend ==
    ASSUME NEW bs, NEW services, \A b \in bs : IsBackend(b),
           NEW b \in PortedBackends(bs, services)
    PROVE  IsBackend(b)
  <1>1. PICK c \in bs : b = [c EXCEPT !.port = GetServicePort(services[c.service], c.port)]
    BY DEF PortedBackends
  <1>2. c = [host |-> c.host, secret |-> c.secret, cert |-> c.cert,
             service |-> c.service, port |-> c.port] /\ c.cert \in Certs
    BY <1>1 DEF IsBackend
  <1> QED BY <1>1, <1>2 DEF IsBackend

\* A route of backends is a route.
LEMMA MakeRouteType ==
    ASSUME NEW k \in Keys, NEW ing \in Objects["ingress"][k], NEW bs,
           \A b \in bs : IsBackend(b)
    PROVE  MakeRoute(ing, bs) \in Route
  <1>1. ASSUME NEW c \in Certs PROVE [cert |-> c, opts |-> ing.opts] \in Configs
    BY <1>1, ClusterAssumption DEF Certs
  <1>2. ASSUME NEW rule \in Rules, {b \in bs : RuleOf(b) = rule} # {}
        PROVE  (CHOOSE b \in {c \in bs : RuleOf(c) = rule} : TRUE).cert \in Certs
    BY <1>2 DEF IsBackend
  <1> QED BY <1>1, <1>2 DEF MakeRoute, Route

\* Steps of a worker between Get and the call of the router: they change its
\* own state only.
LEMMA TranslationKeeps ==
    ASSUME Inv, NEW w \in Workers,
           \/ handleIngress(w) \/ handleByKind(w) \/ handleUnexpected(w)
           \/ updateByKind(w) \/ deleteByKind(w)
           \/ readSecrets(w) \/ readServices(w) \/ readEndpoints(w)
    PROVE  GoesOn(w) /\ JobInv(w)' /\ UNCHANGED <<cache, events, qvars, tunnels, edits>>
  <1>1. /\ CacheInv /\ QueueInv /\ HandsInv /\ JobInv(w)
        /\ DOMAIN work = Workers /\ DOMAIN work[w] = DOMAIN Idle
    BY SMTT(30) DEF Inv, HandsInv
  <1>2. CASE handleIngress(w)
    <2> DEFINE obj == cache["ingress"][work[w].item.name]
    <2>1. work[w].item \in ServedItems /\ work[w].item.name \in ServedKeys
      BY <1>1, <1>2 DEF handleIngress, HandsInv, QueueInv, ServedItems
    <2>2. obj # Absent => [key |-> work[w].item.name, ing |-> obj] \in Jobs
      BY <1>1, <2>1, JobProperties, ControllerAssumption DEF CacheInv, Kinds, ServedKeys
    <2>3. /\ work'[w].pc \in {"deleteIngress", "translate"}
          /\ work'[w].todo \subseteq Jobs /\ work'[w].routes = work[w].routes
          /\ GoesOn(w)
      <3> HIDE DEF obj
      <3> QED BY <1>1, <1>2, <2>2 DEF handleIngress, GoesOn, Idle, Steps, Translating, obj
    <2> QED BY <1>1, <1>2, <2>3 DEF handleIngress, JobInv, Translating
  <1>3. CASE handleByKind(w)
    <2>1. /\ work'[w].pc \in {"updateByKind", "deleteByKind"}
          /\ work'[w].routes = work[w].routes
          /\ GoesOn(w)
      BY <1>1, <1>3 DEF handleByKind, Goto, GoesOn, Idle, Steps
    <2> QED BY <1>1, <1>3, <2>1 DEF handleByKind, JobInv, Translating
  <1>4. CASE handleUnexpected(w)
    <2>1. work'[w].pc = "finish" /\ work'[w].routes = work[w].routes /\ GoesOn(w)
      BY <1>1, <1>4 DEF handleUnexpected, GoesOn, Idle, Steps
    <2> QED BY <1>1, <1>4, <2>1 DEF handleUnexpected, JobInv, Translating
  <1>5. CASE updateByKind(w)
    <2> DEFINE ks == IndexKeys(work[w].item)
               jobs == {[key |-> k, ing |-> cache["ingress"][k]] : k \in ks}
    <2>1. jobs \subseteq Jobs
      BY <1>1, IndexedServed, JobProperties
    <2> HIDE DEF ks
    <2>2. /\ work'[w].pc \in {"finish", "translate"}
          /\ work'[w].todo = jobs /\ work'[w].routes = work[w].routes
          /\ GoesOn(w)
      BY <1>1, <1>5 DEF updateByKind, GoesOn, Idle, Steps, Translating, ks
    <2> QED BY <1>1, <1>5, <2>1, <2>2 DEF updateByKind, JobInv, Translating
  <1>6. CASE deleteByKind(w)
    <2>1. /\ work'[w].pc \in {"finish", "deleteByKindKeys"}
          /\ work'[w].routes = work[w].routes
          /\ GoesOn(w)
      BY <1>1, <1>6 DEF deleteByKind, GoesOn, Idle, Steps
    <2> QED BY <1>1, <1>6, <2>1 DEF deleteByKind, JobInv, Translating
  <1>7. CASE readSecrets(w)
    <2>1. PICK x \in work[w].todo :
            work' = [work EXCEPT ![w].pc = "readServices", ![w].cur = x,
                                 ![w].todo = @ \ {x},
                                 ![w].found = CertifiedBackends(x.ing, cache["secret"])]
      BY <1>7 DEF readSecrets
    <2>2. x \in Jobs /\ work[w].todo \subseteq Jobs
      BY <1>1, <1>7 DEF readSecrets, JobInv, Translating
    <2> DEFINE bs == CertifiedBackends(x.ing, cache["secret"])
    <2>3. \A b \in bs : IsBackend(b)
      BY <1>1, CertifiedBackend
    <2> HIDE DEF bs
    <2>4. /\ work'[w].pc = "readServices" /\ work'[w].cur = x /\ work'[w].found = bs
          /\ work'[w].todo \subseteq work[w].todo /\ work'[w].routes = work[w].routes
          /\ GoesOn(w)
      BY <1>1, <1>7, <2>1 DEF readSecrets, GoesOn, Idle, Steps, Translating, bs
    <2> QED BY <1>1, <1>7, <2>2, <2>3, <2>4, ZenonT(30) DEF readSecrets, JobInv, Translating
  <1>8. CASE readServices(w)
    <2> DEFINE bs == PortedBackends(work[w].found, cache["service"])
    <2>1. \A b \in bs : IsBackend(b)
      BY <1>1, <1>8, PortedBackend DEF readServices, JobInv
    <2> HIDE DEF bs
    <2>2. /\ work'[w].pc = "readEndpoints" /\ work'[w].found = bs
          /\ work'[w].cur = work[w].cur /\ work'[w].todo = work[w].todo
          /\ work'[w].routes = work[w].routes
          /\ GoesOn(w)
      BY <1>1, <1>8, SMTT(30) DEF readServices, GoesOn, Idle, Steps, Translating, bs
    <2> QED BY <1>1, <1>8, <2>1, <2>2 DEF readServices, JobInv, Translating
  <1>9. CASE readEndpoints(w)
    <2> DEFINE x == work[w].cur
               bs == ReadyBackends(work[w].found, cache["endpoint"])
               route == MakeRoute(x.ing, bs)
               old == work[w].routes
               new == [k \in DOMAIN old \cup {x.key} |-> IF k = x.key THEN route ELSE old[k]]
    <2>1. x \in Jobs /\ \A b \in bs : IsBackend(b)
      BY <1>1, <1>9 DEF readEndpoints, JobInv, ReadyBackends
    <2>2. x.key \in ServedKeys /\ x.ing \in Objects["ingress"][x.key] /\ x.key \in Keys
      BY <2>1, JobProperties DEF ServedKeys
    <2>3. route \in Route
      <3> HIDE DEF bs
      <3> QED BY <2>1, <2>2, MakeRouteType
    <2> HIDE DEF bs, route
    <2>4. DOMAIN new \subseteq ServedKeys /\ \A k \in DOMAIN new : new[k] \in Route
      BY <1>1, <2>2, <2>3 DEF JobInv
    <2>5. /\ work'[w].pc \in {"update", "translate"} /\ work'[w].todo = work[w].todo
          /\ work'[w].routes = new
          /\ GoesOn(w)
      <3> DEFINE pc == IF work[w].todo = {} THEN "update" ELSE "translate"
      <3>1. work' = [work EXCEPT ![w].pc = pc, ![w].found = {}, ![w].cur = None,
                                 ![w].routes = new]
        BY <1>9 DEF readEndpoints, route, bs
      <3>2. pc \in {"update", "translate"}
        BY SMTT(30)
      <3>3. work[w].pc = "readEndpoints"
        BY <1>9 DEF readEndpoints
      <3> HIDE DEF new, pc
      <3> QED BY <1>1, <3>1, <3>2, <3>3 DEF GoesOn, Idle, Steps, Translating
    <2>6. work[w].todo \subseteq Jobs
      BY <1>1, <1>9 DEF readEndpoints, JobInv, Translating
    <2> HIDE DEF new
    <2> QED BY <1>9, <2>4, <2>5, <2>6 DEF readEndpoints, JobInv, Translating
  <1> QED BY <1>2, <1>3, <1>4, <1>5, <1>6, <1>7, <1>8, <1>9

\* The call of the router: the table keeps its type and gets nothing for an
\* ingress that is not served.
LEMMA RouterCallKeeps ==
    ASSUME Inv, NEW w \in Workers,
           updateRoutes(w) \/ deleteIngress(w) \/ deleteByKindKeys(w)
    PROVE  /\ GoesOn(w) /\ JobInv(w)' /\ TableInv'
           /\ UNCHANGED <<cache, events, qvars, edits>>
  <1>1. /\ HandsInv /\ JobInv(w) /\ TableInv
        /\ DOMAIN work = Workers /\ DOMAIN work[w] = DOMAIN Idle
    BY DEF Inv, HandsInv
  <1>2. ASSUME NEW pc \in Steps \ {"idle"}, NEW table, RouterCall(w, pc, table)
        PROVE  /\ GoesOn(w) /\ JobInv(w)' /\ tunnels' = table
               /\ UNCHANGED <<cache, events, qvars, edits>>
    <2>1. /\ work'[w].pc = "finish" /\ work'[w].routes = <<>> /\ GoesOn(w)
      BY <1>1, <1>2 DEF RouterCall, GoesOn, Idle, Steps
    <2> QED BY <1>2, <2>1 DEF RouterCall, JobInv, Translating
  <1>3. CASE updateRoutes(w)
    <2>1. RouterCall(w, "update", Replace(tunnels, work[w].routes))
      BY <1>3 DEF updateRoutes
    <2>2. Replace(tunnels, work[w].routes) \in [Keys -> Route]
      BY <1>1 DEF Replace, JobInv, TableInv
    <2>3. \A k \in Keys \ ServedKeys : Replace(tunnels, work[w].routes)[k] = NoRoute
      BY <1>1 DEF Replace, JobInv, TableInv
    <2> QED BY <1>2, <2>1, <2>2, <2>3 DEF TableInv, Steps, Translating
  <1>4. CASE deleteIngress(w)
    <2>1. RouterCall(w, "deleteIngress", Drop(tunnels, work[w].item.name))
      BY <1>4 DEF deleteIngress
    <2>2. NoRoute \in Route
      BY DEF NoRoute, Route
    <2>3. Drop(tunnels, work[w].item.name) \in [Keys -> Route]
      BY <1>1, <2>2 DEF Drop, TableInv
    <2>4. \A k \in Keys \ ServedKeys : Drop(tunnels, work[w].item.name)[k] = NoRoute
      BY <1>1 DEF Drop, TableInv
    <2> QED BY <1>2, <2>1, <2>3, <2>4 DEF TableInv, Steps
  <1>5. CASE deleteByKindKeys(w)
    <2> DEFINE table == DropByKind(tunnels, work[w].item.kind, work[w].item.name, work[w].todo)
    <2>1. RouterCall(w, "deleteByKindKeys", table)
      BY <1>5 DEF deleteByKindKeys
    <2>2. table \in [Keys -> Route]
      <3>1. \A k \in Keys, r \in Rules : tunnels[k][r] \in Configs \cup {NoTunnel}
        BY <1>1 DEF TableInv, Route
      <3> QED BY <3>1 DEF DropByKind, Route
    <2>3. \A k \in Keys \ ServedKeys : table[k] = NoRoute
      BY <1>1 DEF DropByKind, TableInv, NoRoute
    <2> HIDE DEF table
    <2> QED BY <1>2, <2>1, <2>2, <2>3 DEF TableInv, Steps
  <1> QED BY <1>3, <1>4, <1>5

\* The controller at its start.
LEMMA InitInv == Init => Inv
  <1> SUFFICES ASSUME Init PROVE Inv
    OBVIOUS
  <1>1. CacheInv
    <2>1. edits \in 0..MaxEdits
      BY ControllerAssumption DEF Init
    <2>2. DOMAIN events = Kinds /\ \A kind \in Kinds : events[kind] \in Seq(Notifications(kind))
      BY InitialAdds DEF Init
    <2> QED BY <2>1, <2>2, ControllerAssumption, ClusterAssumption DEF Init, CacheInv
  <1>2. QueueInv
    <2>1. queue \in Seq(Items) /\ Len(queue) = 0
      BY DEF Init
    <2>2. failures \in [Items -> 0..RequeueLimit]
      BY ControllerAssumption DEF Init
    <2> QED BY <2>1, <2>2 DEF Init, QueueInv
  <1>3. DOMAIN work = Workers /\ \A w \in Workers : work[w] = Idle
    BY DEF Init
  <1>4. Idle.pc = "idle" /\ Idle.item = None /\ DOMAIN Idle.routes = {}
    BY DEF Idle
  <1>5. HandsInv /\ \A w \in Workers : JobInv(w)
    BY <1>3, <1>4 DEF HandsInv, JobInv, Steps, Translating
  <1>6. TableInv
    BY DEF Init, TableInv, NoTable, NoRoute, Route
  <1> QED BY <1>1, <1>2, <1>5, <1>6 DEF Inv

\* Every step of the cluster, the handlers and the workers keeps the invariant.
LEMMA StepInv == Inv /\ [Next]_vars => Inv'
  <1> SUFFICES ASSUME Inv, [Next]_vars PROVE Inv'
    OBVIOUS
  <1>1. CacheInv /\ QueueInv /\ HandsInv /\ (\A w \in Workers : JobInv(w)) /\ TableInv
    BY DEF Inv
  <1>2. ASSUME UNCHANGED work
        PROVE  (processing' = processing => HandsInv') /\ \A w \in Workers : JobInv(w)'
    BY <1>1, <1>2 DEF HandsInv, JobInv
  <1>3. ASSUME UNCHANGED <<cache, events, edits>> PROVE CacheInv'
    BY <1>1, <1>3 DEF CacheInv
  <1>4. ASSUME UNCHANGED qvars PROVE QueueInv'
    BY <1>1, <1>4 DEF QueueInv, qvars
  <1>5. ASSUME UNCHANGED tunnels PROVE TableInv'
    BY <1>1, <1>5 DEF TableInv
  <1>6. CASE UNCHANGED vars
    BY <1>2, <1>3, <1>4, <1>5, <1>6 DEF vars, qvars, Inv
  <1>7. CASE ClusterStep
    <2>1. PICK kind \in Kinds : \E name \in DOMAIN Objects[kind] :
            \E new \in Objects[kind][name] \cup {Absent}, missed \in BOOLEAN :
              Edit(kind, name, new, missed)
      BY <1>7 DEF ClusterStep
    <2>2. PICK name \in DOMAIN Objects[kind] :
            \E new \in Objects[kind][name] \cup {Absent}, missed \in BOOLEAN :
              Edit(kind, name, new, missed)
      BY <2>1
    <2>3. PICK new \in Objects[kind][name] \cup {Absent}, missed \in BOOLEAN :
            Edit(kind, name, new, missed)
      BY <2>2
    <2>4. CacheInv'
      BY <1>1, <2>3, EditKeepsCache
    <2> QED BY <1>2, <1>4, <1>5, <2>3, <2>4 DEF Edit, qvars, Inv
  <1>8. ASSUME NEW kind \in Kinds, Deliver(kind) PROVE Inv'
    <2>1. CacheInv' /\ QueueInv'
      BY <1>1, <1>8, DeliverKeeps
    <2> QED BY <1>2, <1>5, <1>8, <2>1 DEF Deliver, Inv
  <1>9. ASSUME NEW item \in Items, DelayedAdd(item) PROVE Inv'
    <2>1. item \in ServedItems /\ delayed' \subseteq delayed
      BY <1>1, <1>9 DEF DelayedAdd, QueueInv
    <2>2. QueueInv'
      BY <1>1, <1>9, <2>1, AddKeepsQueue DEF DelayedAdd
    <2> QED BY <1>2, <1>3, <1>5, <1>9, <2>2 DEF DelayedAdd, Inv
  <1>10. ASSUME NEW w \in Workers, WorkerStep(w) PROVE Inv'
    <2>1. ASSUME GoesOn(w), JobInv(w)', TableInv', UNCHANGED <<cache, events, qvars, edits>>
          PROVE  Inv'
      <3>1. HandsInv'
        BY <1>1, <2>1, GoesOnKeeps DEF qvars
      <3>2. \A v \in Workers : JobInv(v)'
        BY <1>1, <2>1, JobsApart DEF GoesOn
      <3> QED BY <1>3, <1>4, <2>1, <3>1, <3>2 DEF Inv
    <2>2. CASE Get(w)
      <3>1. QueueInv' /\ HandsInv'
        BY <1>1, <2>2, GetKeeps
      <3>2. /\ \A v \in Workers \ {w} : work'[v] = work[v]
            /\ work'[w].pc = "handle" /\ work'[w].routes = <<>>
        BY <1>1, <2>2 DEF Get, HandsInv, Idle
      <3>3. JobInv(w)'
        BY <3>2 DEF JobInv, Translating
      <3>4. \A v \in Workers : JobInv(v)'
        BY <1>1, <3>2, <3>3, JobsApart
      <3> QED BY <1>3, <1>5, <2>2, <3>1, <3>4 DEF Get, Inv
    <2>3. CASE \/ handleIngress(w) \/ handleByKind(w) \/ handleUnexpected(w)
               \/ updateByKind(w) \/ deleteByKind(w)
               \/ readSecrets(w) \/ readServices(w) \/ readEndpoints(w)
      BY <1>5, <2>1, <2>3, TranslationKeeps
    <2>4. CASE updateRoutes(w) \/ deleteIngress(w) \/ deleteByKindKeys(w)
      BY <2>1, <2>4, RouterCallKeeps
    <2>5. CASE Forget(w) \/ Requeue(w)
      <3>1. work[w].pc = "finish" /\ Done(w)
        BY <2>5 DEF Forget, Requeue
      <3>2. work[w].item \in ServedItems
        BY <1>1, <3>1 DEF HandsInv, QueueInv
      <3>3. failures' \in [Items -> 0..RequeueLimit] /\ delayed' \subseteq ServedItems
        BY <1>1, <2>5, <3>2, ControllerAssumption DEF Forget, Requeue, QueueInv
      <3>4. QueueInv' /\ HandsInv' /\ work'[w] = Idle
        BY <1>1, <3>1, <3>3, DoneKeeps
      <3>5. \A v \in Workers \ {w} : work'[v] = work[v]
        BY <1>1, <3>1 DEF Done, HandsInv
      <3>6. JobInv(w)'
        BY <3>4 DEF JobInv, Idle, Translating
      <3>7. \A v \in Workers : JobInv(v)'
        BY <1>1, <3>5, <3>6, JobsApart
      <3> QED BY <1>3, <1>5, <3>1, <3>4, <3>7 DEF Done, Inv
    <2> QED BY <1>10, <2>2, <2>3, <2>4, <2>5 DEF WorkerStep
  <1> QED BY <1>6, <1>7, <1>8, <1>9, <1>10 DEF Next

\* The queue, the workers and the table satisfy the invariant in every state.
THEOREM Invariant == Spec => []Inv
  BY InitInv, StepInv, PTL DEF Spec

-----------------------------------------------------------------------------
(* Theorems *)

\* Caches, queue, workers and table keep their types, and what is queued is
\* dirty and not being processed.
THEOREM TypeCorrect == Spec => []TypeOK
  <1>1. ASSUME Inv PROVE TypeOK
    <2>1. \A kind \in Kinds : \A i \in DOMAIN events[kind] :
             events[kind][i].name \in DOMAIN Objects[kind]
      <3> SUFFICES ASSUME NEW kind \in Kinds, NEW i \in DOMAIN events[kind]
                   PROVE  events[kind][i].name \in DOMAIN Objects[kind]
        OBVIOUS
      <3>1. events[kind][i] \in Notifications(kind)
        BY <1>1 DEF Inv, CacheInv
      <3> QED BY <3>1 DEF Notifications
    <2>2. \A i \in DOMAIN queue : queue[i] \in dirty \ processing
      BY <1>1 DEF Inv, QueueInv
    <2>3. \A w \in Workers : work[w].item \in processing \cup {None}
      BY <1>1 DEF Inv, HandsInv
    <2>4. dirty \subseteq Items /\ processing \subseteq Items /\ delayed \subseteq Items
      BY <1>1 DEF Inv, QueueInv, ServedItems
    <2> QED BY <1>1, <2>1, <2>2, <2>3, <2>4 DEF Inv, CacheInv, QueueInv, TableInv, TypeOK
  <1> QED BY <1>1, Invariant, PTL

\* An item is handled by one worker at a time, for any number of workers and
\* however often it is added, delayed and requeued.
THEOREM ItemsNotShared == Spec => []OneWorkerPerItem
  <1>1. Inv => OneWorkerPerItem
    BY DEF Inv, HandsInv, OneWorkerPerItem
  <1> QED BY <1>1, Invariant, PTL

\* An ingress that is never of the controller's class never has a tunnel, with
\* whatever resources it shares with others.
THEOREM ForeignNeverServed == Spec => []NoForeignTunnel
  <1>1. Inv => NoForeignTunnel
    BY DEF Inv, TableInv, ServedKeys, NoForeignTunnel
  <1> QED BY <1>1, Invariant, PTL
=============================================================================
