------------------------------ MODULE Process ------------------------------
(***************************************************************************)
(* The controller process from its start to its exit: the run group of     *)
(* cmd/argot/main.go with its actors (the signal handler, the HTTP servers *)
(* and the controller), Controller.Run and worker.run                      *)
(* (internal/argotunnel/controller.go, worker.go), and the daemon of one   *)
(* tunnel, which lives in the same process and ends with it.               *)
(*                                                                         *)
(* The items that workers handle are reduced to the two that matter to the *)
(* daemon: "start", an update that makes its tunnel, and "stop", a delete  *)
(* that takes it away.                                                     *)
(***************************************************************************)
EXTENDS Daemon, Sequences, FiniteSets, Functions

CONSTANTS
    Servers,   \* the HTTP servers that are enabled, in the order of main
    Workers,   \* worker goroutines
    MaxQueue   \* bound: items in the work queue

Actors == <<"signal">> \o Servers \o <<"controller">>
Items  == {"start", "stop"}

ASSUME ProcessAssumption ==
    /\ MaxQueue \in Nat
    /\ Servers \in Seq(STRING)
    /\ Range(Servers) \cap {"signal", "controller"} = {}

VARIABLES
    signalled,   \* a signal was sent
    failed,      \* servers whose listener failed
    canceled,    \* contexts that are canceled: of the signal actor, the controller
    closing,     \* servers whose Shutdown was called
    busy,        \* servers with a request in progress
    returned,    \* actors whose execute function has returned
    first,       \* the first of them
    phase,       \* g.Run: 0, the actor it interrupts next, and two more
    controller,  \* Controller.Run
    shut,        \* q.ShutDown was called
    queue,       \* items in the work queue
    worker       \* what each worker does: "none", "get", an item, "quit"

groupVars == <<signalled, failed, canceled, closing, busy, returned, first, phase>>
ctrlVars  == <<controller, shut, queue, worker>>
pvars == <<groupVars, ctrlVars>>
vars  == <<pvars, dvars>>

TypeOK ==
    /\ DaemonTypeOK
    /\ signalled \in BOOLEAN
    /\ failed \subseteq Range(Servers) /\ closing \subseteq Range(Servers)
    /\ busy \subseteq Range(Servers)
    /\ canceled \subseteq {"signal", "controller"}
    /\ returned \subseteq Range(Actors)
    /\ first \in returned \cup {"none"}
    /\ phase \in 0..Len(Actors) + 2
    /\ controller \in {"sync", "running", "returned"}
    /\ shut \in BOOLEAN
    /\ queue \subseteq Items
    /\ worker \in [Workers -> {"none", "get", "quit"} \cup Items]

Init ==
    /\ DaemonInit
    /\ signalled = FALSE /\ failed = {} /\ canceled = {} /\ closing = {} /\ busy = {}
    /\ returned = {} /\ first = "none" /\ phase = 0
    /\ controller = "sync" /\ shut = FALSE /\ queue = {}
    /\ worker = [w \in Workers |-> "none"]

\* After the interrupts g.Run waits for all actors, then the process is gone.
waiting == phase = Len(Actors) + 1
exited  == phase = Len(Actors) + 2

-----------------------------------------------------------------------------
(* The actors *)

\* Variant: only the result that g.Run returns is counted.
ActorReturnsUncounted(a) ==
    /\ a \notin returned
    /\ first' = IF first = "none" THEN a ELSE first
    /\ UNCHANGED returned

\* errors <- a.execute().
ActorReturns(a) ==
    /\ a \notin returned
    /\ returned' = returned \cup {a}
    /\ first' = IF first = "none" THEN a ELSE first

Signal ==
    /\ ~exited /\ ~signalled
    /\ signalled' = TRUE
    /\ UNCHANGED <<failed, canceled, closing, busy, returned, first, phase, ctrlVars, dvars>>

\* case <-sig, which cancels, or case <-ctx.Done().
SignalActor ==
    /\ ~exited
    /\ signalled \/ "signal" \in canceled
    /\ ActorReturns("signal")
    /\ canceled' = canceled \cup {"signal"}
    /\ UNCHANGED <<signalled, failed, closing, busy, phase, ctrlVars, dvars>>

Request(s) ==
    /\ ~exited
    /\ s \notin returned \cup closing \cup busy
    /\ busy' = busy \cup {s}
    /\ UNCHANGED <<signalled, failed, canceled, closing, returned, first, phase,
                   ctrlVars, dvars>>

\* A response is written, or the write timeout of the server ends it.
RequestEnds(s) ==
    /\ ~exited
    /\ s \in busy
    /\ busy' = busy \ {s}
    /\ UNCHANGED <<signalled, failed, canceled, closing, returned, first, phase,
                   ctrlVars, dvars>>

\* Serve returns: the listener failed, or Shutdown closed it.
ServerFails(s) ==
    /\ ~exited
    /\ s \notin closing
    /\ ActorReturns(s)
    /\ failed' = failed \cup {s}
    /\ UNCHANGED <<signalled, canceled, closing, busy, phase, ctrlVars, dvars>>

ServerCloses(s) ==
    /\ ~exited
    /\ s \in closing
    /\ ActorReturns(s)
    /\ UNCHANGED <<signalled, failed, canceled, closing, busy, phase, ctrlVars, dvars>>

-----------------------------------------------------------------------------
(* Group.Run of oklog/run *)

\* The first result is received; the interrupts begin.
FirstReturned ==
    /\ phase = 0
    /\ first # "none"
    /\ phase' = 1
    /\ UNCHANGED <<signalled, failed, canceled, closing, busy, returned, first,
                   ctrlVars, dvars>>

\* Variant: the interrupt of the signal actor does nothing.
InterruptCancelIgnored ==
    /\ phase \in 1..Len(Actors)
    /\ Actors[phase] \in {"signal", "controller"}
    /\ canceled' = canceled \cup ({Actors[phase]} \ {"signal"})
    /\ phase' = phase + 1
    /\ UNCHANGED <<signalled, failed, closing, busy, returned, first, ctrlVars, dvars>>

\* cancel() of the signal actor and of the controller.
InterruptCancel ==
    /\ phase \in 1..Len(Actors)
    /\ Actors[phase] \in {"signal", "controller"}
    /\ canceled' = canceled \cup {Actors[phase]}
    /\ phase' = phase + 1
    /\ UNCHANGED <<signalled, failed, closing, busy, returned, first, ctrlVars, dvars>>

\* Shutdown closes the listener and, its context being the background one,
\* waits for the requests in progress without a limit.
InterruptShutdown ==
    /\ phase \in 1..Len(Actors)
    /\ Actors[phase] \in Range(Servers) \ closing
    /\ closing' = closing \cup {Actors[phase]}
    /\ UNCHANGED <<signalled, failed, canceled, busy, returned, first, phase,
                   ctrlVars, dvars>>

ShutdownReturns ==
    /\ phase \in 1..Len(Actors)
    /\ Actors[phase] \in closing \ busy
    /\ phase' = phase + 1
    /\ UNCHANGED <<signalled, failed, canceled, closing, busy, returned, first,
                   ctrlVars, dvars>>

\* Every result is in: g.Run returns the first, and main ends the process,
\* through log.Fatalf when it is an error.
Exit ==
    /\ waiting
    /\ returned = Range(Actors)
    /\ phase' = phase + 1
    /\ UNCHANGED <<signalled, failed, canceled, closing, busy, returned, first,
                   ctrlVars, dvars>>

\* Only the controller's actor returns nil; the error of the signal actor is
\* that of its canceled context.
status == IF first = "controller" THEN 0 ELSE 1

-----------------------------------------------------------------------------
(* Controller.Run and the workers *)

\* Variant: an error of the cache sync does not wait for the stop.
SyncedOrFailed ==
    /\ ~exited
    /\ controller = "sync"
    /\ \/ controller' = "running" /\ worker' = [w \in Workers |-> "get"]
          /\ UNCHANGED <<returned, first, shut>>
       \/ controller' = "returned" /\ ActorReturns("controller") /\ shut' = TRUE
          /\ UNCHANGED worker
    /\ UNCHANGED <<signalled, failed, canceled, closing, busy, phase, queue, dvars>>

\* waitForCacheSync succeeds, and the workers are spawned.
Synced ==
    /\ ~exited
    /\ controller = "sync"
    /\ controller' = "running"
    /\ worker' = [w \in Workers |-> "get"]
    /\ UNCHANGED <<groupVars, shut, queue, dvars>>

\* stopCh is closed, during the sync or after it; q.ShutDown is deferred.
ControllerStops ==
    /\ ~exited
    /\ "controller" \in canceled
    /\ controller' = "returned" /\ ActorReturns("controller")
    /\ shut' = TRUE
    /\ UNCHANGED <<signalled, failed, canceled, closing, busy, phase, queue, worker, dvars>>

\* A handler of the informers adds an item; a queue that is shut drops it.
Enqueue(item) ==
    /\ ~exited /\ ~shut
    /\ item \notin queue /\ Cardinality(queue) < MaxQueue
    /\ queue' = queue \cup {item}
    /\ UNCHANGED <<groupVars, controller, shut, worker, dvars>>

\* queue.Get: a queue that is shut is drained before the worker quits.
Get(w) ==
    /\ ~exited
    /\ worker[w] = "get"
    /\ \/ \E item \in queue : /\ worker' = [worker EXCEPT ![w] = item]
                              /\ queue' = queue \ {item}
       \/ /\ queue = {} /\ shut
          /\ worker' = [worker EXCEPT ![w] = "quit"]
          /\ UNCHANGED queue
    /\ UNCHANGED <<groupVars, controller, shut, dvars>>

\* The router starts the tunnel, once, or stops it.
Handle(w) ==
    /\ ~exited
    /\ worker[w] \in Items
    /\ worker' = [worker EXCEPT ![w] = "get"]
    /\ \/ /\ worker[w] = "start" /\ loop = "off"
          /\ StartTunnelDaemon
       \/ /\ worker[w] = "stop" /\ loop # "off"
          /\ shutdownC' = TRUE
          /\ UNCHANGED <<ctxDone, loopVars, connVars>>
       \/ /\ (worker[w] = "start") # (loop = "off")
          /\ UNCHANGED dvars
    /\ UNCHANGED <<groupVars, controller, shut, queue>>

-----------------------------------------------------------------------------
ServerStep(s) == Request(s) \/ RequestEnds(s) \/ ServerFails(s) \/ ServerCloses(s)
GroupStep == FirstReturned \/ InterruptCancel \/ InterruptShutdown \/ ShutdownReturns \/ Exit
WorkerStep(w) == Get(w) \/ Handle(w)

\* The daemon's goroutines run until the process exits.
DaemonStep ==
    /\ ~exited
    /\ Cancel \/ LoopNext \/ RegisterTunnel \/ TickDone
       \/ UnregisterTunnel \/ ServeReturns
    /\ UNCHANGED pvars

Next ==
    \/ Signal \/ SignalActor
    \/ \E s \in Range(Servers) : ServerStep(s)
    \/ GroupStep
    \/ Synced \/ ControllerStops
    \/ \E item \in Items : Enqueue(item)
    \/ \E w \in Workers : WorkerStep(w)
    \/ DaemonStep

Spec == Init /\ [][Next]_vars

Running(A) == ~exited /\ A /\ UNCHANGED pvars

\* Goroutines run; requests end, by the write timeout at the latest.  Nobody has
\* to send a signal, a server need not fail and the caches need not sync.
ProcessFairness ==
    /\ WF_vars(SignalActor) /\ WF_vars(GroupStep) /\ WF_vars(ControllerStops)
    /\ \A s \in Range(Servers) : WF_vars(RequestEnds(s)) /\ WF_vars(ServerCloses(s))
    /\ \A w \in Workers : WF_vars(WorkerStep(w))

\* Timeouts bound the dial, the handshakes and the back-off.  The register RPC
\* returns once its context is done, the unregister RPC, which has none, when
\* the edge answers or its heartbeats stop, and muxer.Serve after Shutdown.
DaemonFairness ==
    /\ WF_vars(Running(Cancel)) /\ WF_vars(Running(LoopNext))
    /\ WF_vars(Running(serveDone /\ RegisterTunnel)) /\ WF_vars(Running(TickDone))
    /\ WF_vars(Running(UnregisterTunnel))
    /\ WF_vars(Running(muxer = "down" /\ ServeReturns))

FairSpec == Spec /\ ProcessFairness /\ DaemonFairness

-----------------------------------------------------------------------------
(* Properties *)

\* The process ends once a signal came or a server failed: every actor is
\* interrupted, and none waits for another that was not.
Ends == signalled \/ failed # {} ~> exited

\* And only then: nothing that the cluster, the caches or a tunnel does ends it.
NoSpontaneousExit == phase > 0 => signalled \/ failed # {}

\* A daemon that is told to stop ends, wherever it was in connecting, serving
\* or backing off.  TunnelLink takes this for granted.
DaemonEnds == shutdownC ~> loop = "returned" \/ exited

\* tunnel.gosrc: "All routines should stop when muxer finish serving", so that
\* a connection that is lost or closed by the edge is replaced.
AllRoutinesStop == group["serve"] = "done" ~> loop # "serving" \/ exited

\* A daemon never ends with a nil error: the link would take it for a tunnel
\* that needs no repair.
NeverNil == result # "nil"

\* A tunnel that cannot register is given up: the retries of the annotation,
\* which the grace period of an earlier registration renews at most once.
RetriesBounded ==
    attempts <= MaxRetries + 1 \/ attempts <= 2 * MaxRetries

\* Whoever ends the process, its exit status says an error: the controller, the
\* only actor with a nil result, never is the first that returns.
ExitsWithError == exited => status = 1

\* main.go on a signal: "exiting gracefully...".  When no server failed, a tunnel
\* whose registration succeeded is not registered any more at the exit.
TunnelsUnregistered == exited /\ failed = {} /\ grace => ~registered
=============================================================================
