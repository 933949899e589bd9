----------------------------- MODULE Controller -----------------------------
(***************************************************************************)
(* The controller from a change of the cluster to a change of the tunnels: *)
(* informer caches and their event handlers (informer.go, queue.go), the   *)
(* work queue, the workers (worker.go) and the handlers of the translator  *)
(* (translator.go), over the table of tunnels that Router implements.      *)
(*                                                                         *)
(* Every access to a cache is a step of its own: an ingress, the secrets,  *)
(* the services and the endpoints a worker sees may be of different times, *)
(* and all of them older than the moment it calls the router.              *)
(***************************************************************************)
EXTENDS Translator, FiniteSets

CONSTANTS
    Workers,        \* worker goroutines (options.workers)
    Objects,        \* per kind and name, the objects the cluster may hold
    InitialCache,   \* the caches once waitForCacheSync has returned
    RequeueLimit,   \* options.requeueLimit
    MissedDeletes,  \* whether a watch may miss a delete and relist
    MaxEdits,       \* bound: changes of the cluster after the start
    None            \* no item, no ingress

Kinds == {"endpoint", "ingress", "secret", "service"}

ASSUME ControllerAssumption ==
    /\ RequeueLimit \in Nat
    /\ MaxEdits \in Nat
    /\ MissedDeletes \in BOOLEAN
    /\ DOMAIN Objects = Kinds /\ DOMAIN InitialCache = Kinds
    /\ Keys = DOMAIN Objects["ingress"]

\* A cluster has finitely many objects, all of them named, and the lists of an
\* ingress are lists; a tunnel has the certificate of a secret and the options
\* of an ingress.
ASSUME ClusterAssumption ==
    /\ \A kind \in Kinds :
         /\ IsFiniteSet(DOMAIN Objects[kind])
         /\ DOMAIN InitialCache[kind] = DOMAIN Objects[kind]
         /\ \A n \in DOMAIN Objects[kind] :
              /\ InitialCache[kind][n] \in Objects[kind][n] \cup {Absent}
              /\ Absent \notin Objects[kind][n]
    /\ \A n \in DOMAIN Objects["secret"] : n.name # NoName
    /\ \A k \in Keys : \A ing \in Objects["ingress"][k] :
         /\ Len(ing.tls) \in Nat /\ DOMAIN ing.tls = 1..Len(ing.tls)
         /\ \A n \in DOMAIN Objects["secret"] : \A s \in Objects["secret"][n] :
              s.cert # NoCert => [cert |-> s.cert, opts |-> ing.opts] \in Configs

VARIABLES
    cache,      \* indexers of the four informers
    events,     \* notifications the handlers of a kind have not taken yet
    queue, dirty, processing,   \* the work queue
    failures,   \* rate limiter: failed attempts by item
    delayed,    \* items of AddRateLimited whose delay has not elapsed
    work,       \* per worker, what processNextItem is doing
    tunnels,    \* the tunnels of every ingress, see TunnelRoutes
    edits

qvars == <<queue, dirty, processing, failures, delayed>>
vars  == <<cache, events, qvars, work, tunnels, edits>>

\* "kind/namespace/name"; the key of a tombstone has no kind.
Item(kind, name) == [kind |-> kind, name |-> name]
NoKind   == "none"
ItemsOf(kind) == {Item(kind, n) : n \in DOMAIN Objects[kind]}
Items    == (UNION {ItemsOf(k) : k \in Kinds})
            \cup {Item(NoKind, n) : n \in DOMAIN Objects["service"]}

Idle == [pc |-> "idle", item |-> None, todo |-> {}, found |-> {},
         cur |-> None, routes |-> <<>>, err |-> FALSE]

TypeOK ==
    /\ \A kind \in Kinds : \A n \in DOMAIN Objects[kind] :
         cache[kind][n] \in Objects[kind][n] \cup {Absent}
    /\ \A kind \in Kinds : \A i \in DOMAIN events[kind] :
         events[kind][i].name \in DOMAIN Objects[kind]
    /\ dirty \subseteq Items /\ processing \subseteq Items /\ delayed \subseteq Items
    /\ \A i \in DOMAIN queue : queue[i] \in dirty \ processing
    /\ failures \in [Items -> 0..RequeueLimit]
    /\ \A w \in Workers : work[w].item \in processing \cup {None}
    /\ tunnels \in [Keys -> Route]
    /\ edits \in 0..MaxEdits

Event(name, old, new, missed) ==
    [name |-> name, old |-> old, new |-> new, missed |-> missed]

\* The caches are filled, and the Add of every object is on its way.
InitialEvents(kind) ==
    LET adds == {Event(n, Absent, InitialCache[kind][n], FALSE) :
                   n \in {m \in DOMAIN Objects[kind] : InitialCache[kind][m] # Absent}}
    IN  CHOOSE s \in [1..Cardinality(adds) -> adds] :
          \A e \in adds : \E i \in DOMAIN s : s[i] = e

Init ==
    /\ cache = InitialCache
    /\ events = [kind \in Kinds |-> InitialEvents(kind)]
    /\ queue = <<>> /\ dirty = {} /\ processing = {} /\ delayed = {}
    /\ failures = [i \in Items |-> 0]
    /\ work = [w \in Workers |-> Idle]
    /\ tunnels = NoTable
    /\ edits = 0

-----------------------------------------------------------------------------
(* The cluster and the informers *)

\* The cache changes first, then the handlers are notified.  A resync notifies
\* with old = new, which UpdateFunc drops: it has no step here.
Edit(kind, name, new, missed) ==
    /\ edits < MaxEdits
    /\ new # cache[kind][name]
    /\ missed => MissedDeletes /\ new = Absent
    /\ cache' = [cache EXCEPT ![kind][name] = new]
    /\ events' = [events EXCEPT ![kind] =
                    Append(@, Event(name, cache[kind][name], new, missed))]
    /\ edits' = edits + 1
    /\ UNCHANGED <<qvars, work, tunnels>>

\* endpointFilterFunc, ingressFilterFunc and secretFilterFunc; services are
\* not filtered.
Passes(kind, obj) ==
    /\ obj # Absent
    /\ kind = "endpoint" => obj # {}
    /\ kind = "ingress" => obj.class = IngressClass
    /\ kind = "secret" => obj.cert # NoCert

\* Variant: an update is queued for what the object has become only.
QueuedForNew(kind, e) ==
    IF e.missed
    THEN IF kind = "service" THEN {Item(NoKind, e.name)} ELSE {}
    ELSE IF Passes(kind, e.new) THEN {Item(kind, e.name)} ELSE {}

\* What the handlers of a kind add to the queue.  FilteringResourceEventHandler
\* turns an update that starts or stops passing into an add or a delete; the
\* filters do not pass a tombstone (DeletedFinalStateUnknown), and the service
\* handler queues its key as it is, without a kind.
Queued(kind, e) ==
    IF e.missed
    THEN IF kind = "service" THEN {Item(NoKind, e.name)} ELSE {}
    ELSE IF Passes(kind, e.old) \/ Passes(kind, e.new) THEN {Item(kind, e.name)} ELSE {}

-----------------------------------------------------------------------------
(* The work queue: client-go's rate limiting queue *)

\* Variant: Add that does not look at the items being processed.
AddWhileProcessing(items) ==
    LET new == items \ dirty
    IN  /\ dirty' = dirty \cup new
        /\ queue' = IF new = {} THEN queue ELSE Append(queue, CHOOSE i \in new : TRUE)

\* Variant: Add that drops an item that is being processed.
AddUnlessProcessing(items) ==
    LET new == items \ (dirty \cup processing)
    IN  /\ dirty' = dirty \cup new
        /\ queue' = IF new = {} THEN queue ELSE Append(queue, CHOOSE i \in new : TRUE)

\* Add: an item that is queued is not queued again, one that is being processed
\* is queued when it is done.
Add(items) ==
    LET new == items \ dirty
    IN  /\ dirty' = dirty \cup new
        /\ queue' = IF new \ processing = {} THEN queue
                    ELSE Append(queue, CHOOSE i \in new : TRUE)

\* A handler takes its next notification.
Deliver(kind) ==
    /\ events[kind] # <<>>
    /\ events' = [events EXCEPT ![kind] = Tail(@)]
    /\ Add(Queued(kind, Head(events[kind])))
    /\ UNCHANGED <<cache, processing, failures, delayed, work, tunnels, edits>>

\* The delay of AddRateLimited elapses.
DelayedAdd(item) ==
    /\ item \in delayed
    /\ delayed' = delayed \ {item}
    /\ Add({item})
    /\ UNCHANGED <<cache, events, processing, failures, work, tunnels, edits>>

-----------------------------------------------------------------------------
(* A worker: processNextItem, handleResource and the handlers *)

Goto(w, pc) == work' = [work EXCEPT ![w].pc = pc]

\* queue.Get.
Get(w) ==
    /\ work[w].pc = "idle"
    /\ queue # <<>>
    /\ queue' = Tail(queue)
    /\ dirty' = dirty \ {Head(queue)}
    /\ processing' = processing \cup {Head(queue)}
    /\ work' = [work EXCEPT ![w] = [Idle EXCEPT !.pc = "handle", !.item = Head(queue)]]
    /\ UNCHANGED <<cache, events, failures, delayed, tunnels, edits>>

\* handleIngress: GetByKey of the ingress.
handleIngress(w) ==
    LET item == work[w].item
        obj  == cache["ingress"][item.name]
    IN  /\ work[w].pc = "handle"
        /\ item.kind = "ingress"
        /\ work' = [work EXCEPT
             ![w].pc = IF obj = Absent THEN "deleteIngress" ELSE "translate",
             ![w].todo = IF obj = Absent THEN {} ELSE {[key |-> item.name, ing |-> obj]}]
        /\ UNCHANGED <<cache, events, qvars, tunnels, edits>>

\* handleEndpoint and handleByKind: GetByKey of the resource.
handleByKind(w) ==
    LET item == work[w].item
    IN  /\ work[w].pc = "handle"
        /\ item.kind \in {"endpoint", "secret", "service"}
        /\ Goto(w, IF cache[item.kind][item.name] # Absent THEN "updateByKind"
                                                           ELSE "deleteByKind")
        /\ UNCHANGED <<cache, events, qvars, tunnels, edits>>

\* The item has no kind: handleResource fails.
handleUnexpected(w) ==
    /\ work[w].pc = "handle"
    /\ work[w].item.kind = NoKind
    /\ work' = [work EXCEPT ![w].pc = "finish", ![w].err = TRUE]
    /\ UNCHANGED <<cache, events, qvars, tunnels, edits>>

\* Variant: every resource is looked up in the index of services.
IndexKeysOfServices(item) ==
    {k \in Keys : /\ cache["ingress"][k] # Absent
                  /\ item.name \in ingressServiceIndexFunc(cache["ingress"][k])}

\* Keys of the ingresses indexed under the resource of an item.
IndexKeys(item) ==
    {k \in Keys : LET ing == cache["ingress"][k]
                  IN  /\ ing # Absent
                      /\ item.name \in IF item.kind = "secret"
                                       THEN ingressSecretIndexFunc(ing)
                                       ELSE ingressServiceIndexFunc(ing)}

\* updateByKind: ByIndex lists the ingresses to translate.
updateByKind(w) ==
    LET ks == IndexKeys(work[w].item)
    IN  /\ work[w].pc = "updateByKind"
        /\ work' = [work EXCEPT
             ![w].pc = IF ks = {} THEN "finish" ELSE "translate",
             ![w].todo = {[key |-> k, ing |-> cache["ingress"][k]] : k \in ks}]
        /\ UNCHANGED <<cache, events, qvars, tunnels, edits>>

\* deleteByKind: IndexKeys lists the routes to look through.
deleteByKind(w) ==
    LET ks == IndexKeys(work[w].item)
    IN  /\ work[w].pc = "deleteByKind"
        /\ work' = [work EXCEPT
             ![w].pc = IF ks = {} THEN "finish" ELSE "deleteByKindKeys",
             ![w].todo = ks]
        /\ UNCHANGED <<cache, events, qvars, tunnels, edits>>

\* getRouteFromIngress, in three steps: getVerifiedCert reads the secrets of
\* one of the listed ingresses,
readSecrets(w) ==
    /\ work[w].pc = "translate"
    /\ \E x \in work[w].todo :
         work' = [work EXCEPT ![w].pc = "readServices", ![w].cur = x,
                              ![w].todo = @ \ {x},
                              ![w].found = CertifiedBackends(x.ing, cache["secret"])]
    /\ UNCHANGED <<cache, events, qvars, tunnels, edits>>

\* getVerifiedPort reads the services,
readServices(w) ==
    /\ work[w].pc = "readServices"
    /\ work' = [work EXCEPT ![w].pc = "readEndpoints",
                            ![w].found = PortedBackends(@, cache["service"])]
    /\ UNCHANGED <<cache, events, qvars, tunnels, edits>>

\* and then the endpoints: the route of this ingress is complete.
readEndpoints(w) ==
    LET x     == work[w].cur
        route == MakeRoute(x.ing, ReadyBackends(work[w].found, cache["endpoint"]))
        old   == work[w].routes
    IN  /\ work[w].pc = "readEndpoints"
        /\ work' = [work EXCEPT
             ![w].pc = IF work[w].todo = {} THEN "update" ELSE "translate",
             ![w].found = {}, ![w].cur = None,
             ![w].routes = [k \in DOMAIN old \cup {x.key} |->
                              IF k = x.key THEN route ELSE old[k]]]
        /\ UNCHANGED <<cache, events, qvars, tunnels, edits>>

\* The worker's call of the router takes effect, and it is left with the
\* queue to settle.
RouterCall(w, pc, table) ==
    /\ work[w].pc = pc
    /\ tunnels' = table
    /\ work' = [work EXCEPT ![w] = [Idle EXCEPT !.pc = "finish", !.item = work[w].item]]
    /\ UNCHANGED <<cache, events, qvars, edits>>

\* updateRoute and updateByKindRoutes.
updateRoutes(w) == RouterCall(w, "update", Replace(tunnels, work[w].routes))

\* deleteIngress.
deleteIngress(w) == RouterCall(w, "deleteIngress", Drop(tunnels, work[w].item.name))

\* handleEndpoint passes its key on as that of a service.
deleteByKindKeys(w) ==
    RouterCall(w, "deleteByKindKeys",
               DropByKind(tunnels, work[w].item.kind, work[w].item.name, work[w].todo))

\* queue.Done: an item added while it was processed is queued again.
Done(w) ==
    LET item == work[w].item
    IN  /\ processing' = processing \ {item}
        /\ queue' = IF item \in dirty THEN Append(queue, item) ELSE queue
        /\ work' = [work EXCEPT ![w] = Idle]
        /\ UNCHANGED <<cache, events, dirty, tunnels, edits>>

\* sync succeeded, or failed too often: Forget.
Forget(w) ==
    /\ work[w].pc = "finish"
    /\ work[w].err => failures[work[w].item] >= RequeueLimit
    /\ failures' = [failures EXCEPT ![work[w].item] = 0]
    /\ UNCHANGED delayed
    /\ Done(w)

\* Variant: a failed item is requeued whatever its count.
RequeueAlways(w) ==
    /\ work[w].pc = "finish"
    /\ work[w].err
    /\ delayed' = delayed \cup {work[w].item}
    /\ UNCHANGED failures
    /\ Done(w)

\* sync failed: AddRateLimited.
Requeue(w) ==
    /\ work[w].pc = "finish"
    /\ work[w].err
    /\ failures[work[w].item] < RequeueLimit
    /\ failures' = [failures EXCEPT ![work[w].item] = @ + 1]
    /\ delayed' = delayed \cup {work[w].item}
    /\ Done(w)

-----------------------------------------------------------------------------
WorkerStep(w) ==
    \/ Get(w)
    \/ handleIngress(w)
    \/ handleByKind(w)
    \/ handleUnexpected(w)
    \/ updateByKind(w)
    \/ deleteByKind(w)
    \/ readSecrets(w)
    \/ readServices(w)
    \/ readEndpoints(w)
    \/ updateRoutes(w)
    \/ deleteIngress(w)
    \/ deleteByKindKeys(w)
    \/ Forget(w)
    \/ Requeue(w)

ClusterStep ==
    \E kind \in Kinds : \E name \in DOMAIN Objects[kind] :
      \E new \in Objects[kind][name] \cup {Absent}, missed \in BOOLEAN :
        Edit(kind, name, new, missed)

Next ==
    \/ ClusterStep
    \/ \E kind \in Kinds : Deliver(kind)
    \/ \E item \in Items : DelayedAdd(item)
    \/ \E w \in Workers : WorkerStep(w)

Spec == Init /\ [][Next]_vars

\* Handlers, timers and workers keep running; the cluster need not change.
Fairness ==
    /\ \A kind \in Kinds : WF_vars(Deliver(kind))
    /\ \A item \in Items : WF_vars(DelayedAdd(item))
    /\ \A w \in Workers : WF_vars(WorkerStep(w))
FairSpec == Spec /\ Fairness

-----------------------------------------------------------------------------
(* Properties *)

\* What the caches ask for.
Wanted(k) ==
    LET ing == cache["ingress"][k]
    IN  IF ing # Absent /\ ing.class = IngressClass
        THEN getRouteFromIngress(ing, cache["secret"], cache["service"], cache["endpoint"])
        ELSE NoRoute

\* Nothing is on its way: no notification, no item, no worker at work.
Quiet ==
    /\ \A kind \in Kinds : events[kind] = <<>>
    /\ dirty = {} /\ processing = {} /\ delayed = {}

\* A calm cluster: it changes only when the controller has dealt with what was
\* there before.
CalmNext == Next /\ (cache' # cache => Quiet)
CalmSpec == Init /\ [][CalmNext]_vars /\ Fairness

\* A tunnel requires all of its criteria: once the controller has dealt with
\* every event, a tunnel that is up is one the caches ask for, with the
\* certificate and options they hold.
NoStaleTunnel ==
    Quiet => \A k \in Keys, r \in Rules :
               tunnels[k][r] # NoTunnel => tunnels[k][r] = Wanted(k)[r]

\* And every tunnel the caches ask for is up.
NoMissingTunnel ==
    Quiet => \A k \in Keys, r \in Rules :
               Wanted(k)[r] # NoTunnel => tunnels[k][r] = Wanted(k)[r]

\* The tunnels follow the cluster: when it stops changing, they become what
\* the caches ask for and stay so.
Converges == <>[](\A k \in Keys : tunnels[k] = Wanted(k))

\* A change of the resource is announced to the queue, or in it.
Notified(kind, n) ==
    \/ \E i \in 1..Len(events[kind]) : Item(kind, n) \in Queued(kind, events[kind][i])
    \/ Item(kind, n) \in dirty

\* Something the tunnel t of the ingress k depends on is notified.
Due(k, t) ==
    \/ Notified("ingress", k) \/ Notified("secret", t.secret)
    \/ Notified("service", t.service) \/ Notified("endpoint", t.service)

\* A tunnel that is as the caches ask, and that no announced change concerns, is
\* left alone: whatever a worker has read, and however long ago, its call of the
\* router neither takes such a tunnel down nor replaces it.
Undisturbed ==
    [][\A k \in Keys, r \in Rules :
         tunnels'[k][r] # tunnels[k][r] => tunnels[k][r] # Wanted(k)[r] \/ Due(k, r)]_vars

\* A tunnel exists for ingresses of the controller's class only: a foreign
\* ingress is filtered, and not indexed, so no event of a resource it shares
\* with others translates it.
NoForeignTunnel ==
    \A k \in Keys :
      (\A obj \in Objects["ingress"][k] : obj.class # IngressClass) => tunnels[k] = NoRoute

\* docs/controls.md: the annotation names "the Ingress class that should
\* interpret and serve the Ingress".  Once every event is dealt with, an ingress
\* that now has another class is not served.
ClassRespected ==
    Quiet => \A k \in Keys :
               LET ing == cache["ingress"][k]
               IN  ing # Absent /\ ing.class # IngressClass => tunnels[k] = NoRoute

\* No two workers handle the same item at the same time, requeued or not.
OneWorkerPerItem ==
    \A v, w \in Workers : v # w /\ work[v].item = work[w].item => work[w].item = None

\* The queue drains: an item that cannot be handled is dropped in the end, and
\* no worker is stuck.
Drains == <>[]Quiet
=============================================================================
