# A TLA+ model of the Argo Tunnel ingress controller

The controller watches Kubernetes ingresses, secrets, services and endpoints,
and keeps one Argo tunnel open for every host and backend that has an ingress
of its class, a secret whose certificate covers the host, a service port and
an endpoint with an address. This directory models that path, from a change in
the cluster to the goroutines of one tunnel, with the settings it depends on and
the process it runs in, checks it with TLC on small instances, and proves most
of its safety with TLAPS for instances of any size.

Paths below are relative to the repository; `argotunnel/` is
`internal/argotunnel/`.

## The system

| Component | State | Operations | Module |
| --- | --- | --- | --- |
| tunnel link (`argotunnel/tunnel.go`) | `stopCh`, `quitCh`, `repiars`, one launcher and one repair goroutine | `start`, `stop`, `launchFunc`, `repairFunc` | `TunnelLink` |
| tunnel router (`argotunnel/router.go`) | `items`: the links of every ingress, under a mutex | `updateRoute`, `updateByKindRoutes`, `deleteByRoute`, `deleteByKindKeys` | `TunnelRoutes`, `Router` |
| translator (`argotunnel/translator.go`, `k8s/audit.go`) | none of its own | `getRouteFromIngress`, one handler per kind | `Translator`, `Controller` |
| informers (`argotunnel/informer.go`) | four caches, two indexes on ingresses | index functions, notifications | `Translator`, `Controller` |
| event handlers and queue (`argotunnel/queue.go`) | work queue | filters, keys of the items | `Controller` |
| workers and controller (`argotunnel/worker.go`, `controller.go`) | the item each worker handles, the stop channel, the queue's shutdown | `Run`, `run`, `processNextItem` | `Controller`, `Process` |
| options and origin secrets (`argotunnel/options.go`, `cloudflare/originsecret.go`, `k8s/types.go`) | default secret, secrets by host and by domain | `Validate`, `SecretGroups`, `Secret`, `ObjValue.Set` | `Options` |
| annotations, tags, back-off (`argotunnel/annotations.go`, `options.go`, `tunnel.go`) | options of one tunnel | `parseIngressTunnelOptions`, `parseTags`, `repairDelay` | `TunnelSettings` |
| run group (`cmd/argot/main.go`) | actors that have returned, contexts, servers | signal actor, two HTTP servers, controller actor, their interrupts | `Process` |
| tunnel daemon (`hack/tunnel.gosrc`) | connection, registration, retries, error group | `StartTunnelDaemon`, `ServeTunnelLoop`, `ServeTunnel`, `RegisterTunnel`, `UnregisterTunnel` | `Daemon` |
| root certificates, metrics, version, transport log | constants of the process | | not modelled |

How they interact. An informer changes its cache, then notifies its handler;
the handler filters the object and adds `kind/namespace/name` to one work
queue. A worker takes an item, looks the object up again, lists the ingresses
indexed under it, translates each of them from whatever the caches hold at
that moment, and calls the router. The router takes its lock, compares the new
links with the old ones, and starts and stops links. A link runs its daemon in
a goroutine, and a second goroutine replaces the daemon when it fails. The
daemon connects to the edge, registers its host and serves it, with three
goroutines in an error group; it retries a lost connection itself and returns
an error when its retries are used up. All of it lives in one process, whose
run group ends every actor once the first has returned.

What is hard about it:

- a worker reads an ingress, secrets, services and endpoints at four different
  times, and applies what it computed later still, while another worker may be
  handling another item of the same ingress;
- filters turn updates into deletes, and missed deletes into tombstones;
- the router stops links after it has released its lock;
- `start` and `stop` check `stopCh` without the lock and again with it, and
  the repair goroutine replaces `stopCh` between the two;
- an error received before a back-off is acted on after it;
- one goroutine of an error group that returns nil, or waits for another, keeps
  a dead connection or a stopped daemon alive;
- the process ends when the first actor returns and every other one follows.

`PROJECT.json` lists these, each at its line, under "hazards".

## The modules

**`TunnelLink`** is one `syncTunnelLink`. A channel is a number, fresh for
every `make(chan)`, so a stop channel is identified with the launcher that
captured it and a quit channel with its repair goroutine. A critical section
under `l.mu` is one step; the unlocked checks of `start` and `stop` are steps
of their own (`StartCheck`, `StopCheck`; a check that finds nothing to do
changes nothing and is no step; a stale value read by such a check is the same
as a call made earlier). The daemon is reduced to its contract: it runs until
it fails or panics, or until its stop channel is closed; `Daemon` has its
inside. The back-off may take any time; `TunnelSettings` has its arithmetic.
**`LinkSwitch`** is what a link promises the router, in its abstract form: a
switch that `start` and `stop` turn at once, with at most one tunnel open and
no tunnel ever open again after it was closed. `ImplementsSwitch` states that
`TunnelLink` implements it; a tunnel is open while its daemon runs and its stop
channel is not closed.

**`TunnelRoutes`** has the routes, and what the four operations of the router
do to the table of all routes, without links or locks. **`TunnelTable`** is the
abstract specification on top of it: a call is made, and at some later moment
takes effect at once. **`Router`** is `syncTunnelRouter`: a link is
`<<ingress, rule, number>>`, `links` is `r.items`, `config` is what `equal`
compares, `status` is what the router has made each link do, and `waits` are
the stop goroutines of a delete that runs after the unlock. `ImplementsTable`
states that it implements `TunnelTable`, the mapping being the configurations
of the links that are held and running.

**`Translator`** has the pure functions: the two index functions, the choice
of a secret for a host (TLS entry, origin secret, domain secret, default), and
`getRouteFromIngress`. A host is the sequence of its labels, an endpoints
object the set of the sizes of its subsets, the tunnel options of an ingress
one opaque value, and `Covers` says which certificates match which hosts.
**`TranslatorCases`** runs these over every input of a set.

**`Controller`** is the rest of the path: caches, notifications, filters, work
queue, workers and handlers, over the table of `TunnelRoutes`, which `Router`
implements. Every access to a cache is a step: `handleIngress` and
`handleByKind` look up the object, `updateByKind` and `deleteByKind` use the
index, and `readSecrets`, `readServices`, `readEndpoints` are
`getRouteFromIngress`. For an ingress of several rules the code reads the
caches once more for every rule and path; the model reads each cache once per
ingress. For an ingress with one rule, as in the instances, that is the same. For
one with several, of which the theorems speak as well, a
tunnel of the code is still made of one read of its secret, then of its service,
then of its endpoints, at three moments that the model has as well; what the
model does not have is two tunnels of one ingress that are made of reads at
different moments. The properties speak of one tunnel at a time.
`CalmSpec` is the same controller in a calm cluster, which changes only when
the controller is quiet; what it adds is proved and has no run.
A resync notifies with equal objects, which `UpdateFunc` drops, so it has no
step. The work queue and the informers are client-go's and are modelled from
how the code uses them.

**`Options`** is the start of the process: which origin secret files and which
default secret flags are accepted, and what the options make of them in the
order `main` applies them. A dotted or slashed string is the sequence of its
parts, and sets of labels say which of them the validators accept. **`TunnelSettings`**
has the settings of one tunnel: annotations as texts that spell an integer, a
duration or a word, each parsed by the function that the code calls for it; `parseTags` as a recursion over the
segments between commas, of which only length and key matter; and `repairDelay` with
64 bit arithmetic, for which `Wide = 8` bits show every kind of overflow.
**`SettingsCases`** builds their inputs up step by step, and instantiates
`Translator` with the collected options, so that `SecretPrecedence` is about the
secret a host really gets.

**`Daemon`** is one `StartTunnelDaemon` with one connection. `loop` is where
`ServeTunnelLoop` is, `group` the three goroutines of the error group, and
`groupErr` its first error. The muxer, the RPCs and the `BackoffHandler` are
external: the muxer goes down by `Shutdown`, by the edge or by a failure, an RPC
that fails may have taken effect at the edge, and the handler allows the retries
of the configuration, anew after the grace period of a registration.
A failed handshake of the muxer is permanent, as in the code: `NewTunnelHandler`
turns it into a plain error that `ServeTunnel` does not recognise.
**`Process`** extends it with the run group, the servers, the controller's
actor and the workers. Everything stops at `exited`. Work items are "start" and
"stop" of the one tunnel, which has the life of one launcher: its repair is
`TunnelLink`'s.

**`*Proofs`** modules hold the theorems about the module they are named after
(`SettledProofs` those on what the controller settles on, `SettingsProofs` those
about `SettingsCases`), and **`TranslatorLemmas`** what `TranslatorProofs` and
`SettledProofs` both need to know of the translator's functions.

**`MC*`** modules instantiate the above for TLC. Operators marked "Variant" are
wrong versions of the definition that follows them; each breaks a property,
which shows that the property depends on that piece of code.

## What is checked

| Run | What it shows |
| --- | --- |
| `link` | Two goroutines call `start` and `stop` at will: at most one tunnel is open (`OneOpenTunnel`), no channel is closed twice (`CloseSafe`), a repair does not reopen a stopped link (`NoRevival`), the repair goroutine ends after `stop` (`RepairerExits`), launcher goroutines do not pile up with the repairs (`LaunchersBounded`), and the link implements `LinkSwitch` (`ImplementsSwitch`). Where the link was started once, as the router does it, a daemon that fails is replaced (`Repaired`) and a daemon that works is never cut by a repair (`RepairOnlyDead`). |
| `router` | Two workers, two ingresses, two rules that share a service: held links run (`HeldRuns`), running links are held or being stopped (`NoOrphan`), a link lives once (`OneLife`), a tunnel whose configuration stays is not interrupted (`KeptIfEqual`), links that leave are stopped (`TornDown`), and the router implements `TunnelTable`. |
| `translate` | 13 824 combinations of ingress and caches: tunnels meet their criteria, no backend that meets them is lost, and the secret and service of every tunnel are indexed. |
| `ctrl_one` | One worker and two changes of any part of the cluster, certificates, ports and endpoints included: whenever the controller is quiet, the tunnels are exactly those the caches ask for (`NoStaleTunnel`, `NoMissingTunnel`), and they get there (`Converges`). And at any moment, a tunnel that is as the caches ask and that no announced change concerns is not interrupted, however old what the worker acts on is (`Undisturbed`). |
| `ctrl_two` | Two workers, an ingress of another class that shares the resources, missed deletes: `OneWorkerPerItem`, `NoForeignTunnel`, and the queue drains although some items always fail (`Drains`). |
| `settings` | 195 789 inputs: specific hosts win over wildcards over the flag over `*` (`SecretPrecedence`), a file that is accepted cannot break the slicing of its hosts (`AcceptedFileIsSafe`), each option is what its annotation spells or the documented default, never truncated (`OptionsExact`, which states type, range and default of every option from its field and from `docs/controls.md`, apart from the functions that parse them), the capacity of `parseTags` loses no tag (`NoTagLost`), its limit keeps the first unique keys (`TagLimit`), and a delay that fits 64 bits stays in its range (`DelayInRange`). |
| `process` | A server, a worker and the daemon of one tunnel: the process ends on a signal or a failed server (`Ends`) and on nothing else (`NoSpontaneousExit`), and always with exit status 1, on a signal as well (`ExitsWithError`); a daemon that is told to stop ends, wherever it was (`DaemonEnds`, which `TunnelLink` takes for granted); all its goroutines end with the connection (`AllRoutinesStop`); it returns an error, never nil (`NeverNil`); and it gives up after its retries (`RetriesBounded`). |

Five runs show the code doing something else than its documentation says:

- `stale_route`: with two workers, the default, `updateByKind` may apply a
  route after another worker has handled the delete of its ingress. The
  tunnels stay up and nothing removes them. One worker cannot do this
  (`ctrl_one`), and neither can several when the cluster changes only between
  quiet moments (`CalmNothingStale`): it takes a change while workers are busy.
- `reclassed`: an ingress whose class annotation changes to another class is
  still served, because the delete notification finds the ingress in the cache
  and the translator does not look at the class.
- `tombstone`: a delete that the watch missed is dropped by the filters, or
  queued without its kind and rejected; the tunnels stay up.
- `default_secret`: a TLS entry without a secret name shadows the defaults, that
  of the host's origin secret group as well as that of the flag, which the
  documentation promises to a tunnel or host that names none.
- `graceful`: on a signal the program logs that it exits gracefully, but nothing
  stops the tunnels: the daemon of the trace has registered, is never told to
  stop, and the process is gone while the edge holds the registration
  (`TunnelsUnregistered`).

### Bounds

`MaxStarts` and `MaxLaunches` bound the life of a link: four launches over
three starts allow three repairs of one start, and a restart during a repair.
`MaxMade` bounds the links made for one rule of one ingress;
three allow a link to be replaced, deleted and made again while the stops of
the first are still pending. `MaxEdits` bounds the changes of the cluster after
the start: a stale tunnel needs one or two. All objects are added once more by
the initial notifications, so a run with `MaxEdits = 1` already has several
items in the queue at once. `RequeueLimit` is 2, the default. The
`CHECK_DEADLOCK FALSE` of the configurations is there because the cluster may
stop changing, nobody has to call the router, and a link that is stopped is at
rest; and the process comes to its exit. `MaxGroups = 2` lets a
later group override an earlier one, `MaxSegments = 4` a key come again before
and after the limit, and `MaxRepairs = 12` is past the largest `Steps` of 9, of
which some overflow. `MaxRetries = 1` and `MaxQueue = 1` in `process` let a
retry be used, renewed and used up, and a stop be queued while the start is
handled; the two servers are alike, so one is enough where the order of two
interrupts is not in question.

### Fairness

The Go scheduler runs every goroutine that can run, which is weak fairness of
the stop goroutines, of `start` and `stop` once called, of the repair
goroutine, of the handlers, of the workers, of the actors of the run group and
of the goroutines of the daemon. The rest is about other code: the timer of a
delayed item fires; a daemon whose stop channel is closed ends (in `TunnelLink`;
`DaemonEnds` shows it for one connection); a request of an HTTP server ends,
since both servers have a write timeout; dial, handshake and back-off have
timeouts; the register RPC returns once its context is done; the unregister RPC,
which has no deadline, returns when the edge answers or the muxer's heartbeats
give it up; and `muxer.Serve` returns after `Shutdown`. Nothing else is fair:
the cluster need not change, the caches need not sync, daemons, servers and
connections need not fail, no signal need come and nobody need call the router.

`Repaired` is about a link that was started once. After a restart the repair
goroutine of the first start may take the error of the second daemon and quit
with it, which leaves the link without a tunnel; the router never restarts a
link (`OneLife`).

## What is proved

The proofs hold for every value of the constants, so for any number of callers,
workers, ingresses, rules and links.

- `TunnelLinkProofs`: the type invariant, `OneOpenTunnel`, `CloseSafe`,
  `NoRevival`, `RepairOnlyDead` and `LaunchersBounded`. `OneOpenTunnel` is not inductive: the
  invariant adds that channels are numbered in the order they are made
  (`Numbered`), that `stopCh` and `quitCh` are set and open together
  (`OpenTogether`), and that every stop channel but the current one is closed
  (`AllOthersClosed`). `RepairOnlyDead` needs one more fact, that of a link
  started once only the last launcher is not yet received (`OnlyLastAlive`).
  `LaunchersBounded` follows from a stronger count (`Budget`): the launchers
  that are not done, together with the repair goroutines that hold the error of
  one and have not replaced it yet, are at most the starts. A repair goroutine
  takes one from the first group and gives it back when it launches the next.
  `ImplementsSwitch` follows from the first invariant: `StartLocked` and
  `StopLocked` that find something to do are `Start` and `Stop`, a repair that
  is not canceled is `Replace`, a failure or panic of the daemon whose stop
  channel is open is `Fail`, and every other step, the unlocked checks and the
  ends of stopped daemons among them, changes nothing of the switch. The numbers
  of the channels are what makes each `Replace` and `Start` open a new tunnel.
- `RouterProofs`: `HeldRuns`, `NoOrphan`, `OneLife`, `KeptIfEqual`, and that
  `Router` implements `TunnelTable`. `HeldRuns` and `NoOrphan` hold together
  only; the invariant adds that a link someone is stopping is not the one
  `items` holds (`Waiting`), that links are numbered as they are made
  (`Numbered`), and that `items` holds a link exactly for the rules with a
  configuration (`Configured`). The refinement maps each update or delete to
  one step of the table and each stop goroutine to none.
- `TranslatorProofs`: `TunnelsIndexed`, `TunnelsMeetCriteria` and
  `NoBackendLost`, for every ingress and content of the caches. The index and the
  translator choose the secret of a host differently; they agree whenever the
  secret exists, because no Kubernetes object has an empty name and so an unnamed
  TLS entry never leads to a certificate. The argument is about the last TLS
  entry of a host, which exists because positions in a list have a maximum; the
  port of a backend is the first that matches, for the same reason.
- `ControllerProofs`: the type invariant, `OneWorkerPerItem` and
  `NoForeignTunnel`, for any cluster, any number of workers, missed deletes
  included. The invariant has two parts. What is queued is dirty, queued once and
  not being processed (`QueueInv`), and a worker that is not idle holds an item of
  its own (`HandsInv`). And everything from the queue to the table is typed over
  the ingresses that may be of the controller's class: the filters keep the others
  out of the queue, and the index out of what a worker lists for a resource.
- `SettledProofs`: `NoStaleTunnel`, `NoMissingTunnel` and `Undisturbed`, first
  for one worker and then for several. For one they are proved under
  three conditions, and each is needed: one worker (`stale_route` has two), every
  delete seen (`tombstone` misses one), and ingresses that keep their class
  (`reclassed` changes one). The cluster, the number of its changes and the moments
  at which they happen are arbitrary. Neither property is near inductive, since
  both speak of quiet moments only. The invariant (`SettleInv`) says for every
  moment that a tunnel which is not what the caches ask for is being seen to: a
  resource it depends on is `Pending` (its notification, its item in the queue, or
  the worker's first steps with it), or the worker is about to replace the route
  of its ingress (`Rewrites`) or to take it out (`Prunes`). For the worker's next
  step to be right, the invariant also bounds how old its knowledge is: the
  ingresses, the backends and the routes it has computed differ from what it would
  compute from the caches now only where a notification or an item is on its way
  (`JobsCurrent`, `FoundCurrent`, `RoutesCurrent`, `GoneCurrent`). And a tunnel
  that is up is listed by the indexes of its ingress (`TableIndexed`, where
  `TunnelsIndexed` is what makes it so), or else a change of its secret would find
  no ingress to update. When the controller is quiet nothing is pending and no
  worker holds anything, so what is left of the invariant is the two properties.
  A change of a cache is the step that all of this is about (`EditAnnounced`,
  `Drift`): its notification covers whatever it invalidates, because a tunnel depends on its own ingress, secret, service and endpoints and
  on nothing else (the lemmas of `TranslatorLemmas`).
  `Undisturbed` is the other use of these bounds: when the worker calls the router,
  each tunnel it writes or drops is either as the caches ask after the call, or
  announced to change (`UpdateRoutesRight`, `DeleteIngressRight`,
  `DeleteByKindKeysRight`). Unlike the other two it is about every step and not
  only about quiet moments.
- The second half of `SettledProofs` has any number of workers, at least one, for
  `CalmSpec`: the cluster may change in any part, any number of times, but only
  when the controller is quiet (`CalmNothingStale`, `CalmNothingMissing`,
  `CalmNothingDisturbed`; deletes are seen and classes stay, as before). This is
  what remains true of the default of two workers. The invariant (`CalmInv`) is
  another one. Since the caches do not change under a worker, what it holds is
  not only bounded in age but exact (`Exact`), so no two workers can disagree on
  a route; and a tunnel that is not as wanted is announced, or some worker is busy
  with it, though perhaps not the one whose item changed it (`CalmTable`). A
  worker that leaves a tunnel as it is passes on to somebody what it was busy with
  (`CalmStep`); a change of the cluster starts from a quiet state, where all
  tunnels are right, and announces what it makes wrong (`CalmDrift`).
- `ProcessProofs`: the type invariant, `NoSpontaneousExit`, `ExitsWithError`,
  `NeverNil` and `RetriesBounded`, for any servers, workers and number of retries.
  The process's part of the invariant traces every canceled context and every
  returned actor back to a signal or a failed server (`Caused`). `ExitsWithError`
  needs that the controller is canceled only for a result that came before its own
  (`NotFirst`). `NeverNil` needs that the serving
  goroutine never ends without giving the error group an error (`ServeFails`), and
  that goroutines exist only during a call of `ServeTunnel` (`GroupServes`).
  `RetriesBounded` needs that each attempt since the last registration is paid for
  by a retry, of the current count or of the one before the grace period reset it
  (`Paid`).
- `SettingsProofs`: `OptionsExact`, for all texts and widths, option by option: what
  each parser takes is what the field of its option holds (`WidthsAgree`); `AcceptedFileIsSafe`
  and `SecretPrecedence`, for origin secret files of any length. The last group
  that lists a host decides, in the maps that `SecretGroups` fills as well as in the
  property; and a wildcard that `Validate` accepts is one label, so that two of them
  with the same domain are the same host (`OneWildcard`). `NoTagLost` and
  `TagLimit`, for texts of any number of segments and every limit: the induction is
  written out, as the least position of the text at which the claim would fail
  (`Induction`, `Positions`). The loop of `parseTags` has after each segment the
  unique keys so far, cut at its capacity (`ScanSteps`, `AddTagCollects`); and the
  capacity always leaves room for one more tag, because a tag takes up at least six
  characters of the text with its comma and the capacity counts four
  (`PrefixSizes`, `CapacitySuffices`). `DelayInRange`, for every
  width and every flag: powers of two grow (`PowersGrow`), so that the shift of the
  current step is at most that of the last, and a product that fits the width is
  not changed by wrapping (`WrapFits`).

The theorems rest on the assumptions named in the modules, which TLC evaluates
on every run of the module:

| Assumption | What it says |
| --- | --- |
| `BoundsAssumption`, `RetriesAssumption` | bounds and retries are natural numbers |
| `RoutesAssumption`, `RouterAssumption` | `NoTunnel` is not a configuration, `NoRequest` is not a call, and the calls are well formed |
| `ObjectAssumption`, `RulesAssumption` | objects of Kubernetes have a name, TLS entries and ports form lists, and `Rules` and `Configs` hold all that the objects can lead to |
| `ControllerAssumption`, `ClusterAssumption` | the same of the cluster: finitely many objects, the first caches hold some of them, `Absent` is none of them |
| `FileAssumption`, `IngressHostsAssumption`, `TextsAssumption` | hosts are lists of labels, DNS labels are not empty and have no `*`, a group has a secret; the hosts asked about have a domain and are not wildcards; a text is not the missing one, and its value is an integer when it spells one; the narrow integers have at least one bit |
| `BackoffAssumption`, `SegmentsAssumption` | integers have at least one bit, delays, jitters and steps are natural numbers, limits are integers, and keys and values have a length |
| `ProcessAssumption` | the servers form a list and are neither the signal's nor the controller's actor; the bound of the queue is a natural number |

Only model-checked: liveness (`Repaired`, `RepairerExits`, `TornDown`,
`Converges`, `Drains`, `Ends`, `DaemonEnds`, `AllRoutinesStop`), which is beyond
the prover, as are fairness and `ENABLED`. Every other property of the passing
runs is a theorem. The five violations are each one behaviour that TLC shows.

## Not modelled

- `router.run` and `router.halt`: nothing in the program calls them, so a
  process that is told to stop exits with its tunnels up (`graceful`).
- A daemon of several connections, the default of `ha-connections`: its
  supervisor is in cloudflared and not in this repository. `Daemon` is the one
  connection of `ha-connections <= 1`.
- `ServeStream` and the header conversions of `hack/tunnel.gosrc`: one request
  is proxied without touching the state of the tunnel. A panic in a goroutine of
  the error group, which would end the process.
- The flags, the HTTP handlers, the Kubernetes client and the log level of
  `cmd/argot/main.go`. A failure before the run group starts ends the process.
- Options that only assign a value (class, resync period, workers, namespace,
  requeue limit), which are constants of the models. `gracePeriod` of a tunnel is
  set by no annotation, so it is zero.
- YAML, the wording of errors, and the float arithmetic of the jitter, which is
  any number up to its bound.
- Metrics, version, transport log, and the certificates of
  `cloudflare/origincert.go`, which are data.

## Plan

1. `Router` over links that are `LinkSwitch`es instead of statuses, so that the
   theorems about links and about the router meet in one specification.
2. Reads of the caches for every rule and path in `Controller`, for properties that
   relate two tunnels of one ingress.
3. A condition weaker than a calm cluster under which several workers settle, for
   example that only the ingresses and not their resources change while workers
   are busy.
