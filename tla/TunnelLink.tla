----------------------------- MODULE TunnelLink -----------------------------
(***************************************************************************)
(* One syncTunnelLink (internal/argotunnel/tunnel.go): the goroutines that *)
(* keep one Argo tunnel up between start() and stop().                     *)
(*                                                                         *)
(*   callers     goroutines of the router that call start() or stop();     *)
(*   launchers   one goroutine per launchFunc call: it runs the tunnel     *)
(*               daemon and sends the daemon's result on errCh;            *)
(*   repairers   one goroutine per start(): it waits on quitCh and errCh   *)
(*               and replaces a daemon that ended with an error.           *)
(*                                                                         *)
(* Every make(chan) of the code is a fresh number here, so a stop channel  *)
(* is identified with the launcher that captured it and a quit channel     *)
(* with the repairer that captured it.  The critical sections under l.mu   *)
(* are single steps; what the code reads before it locks is a step of its  *)
(* own.                                                                    *)
(***************************************************************************)
EXTENDS Naturals, FiniteSets

CONSTANTS
    Callers,      \* goroutines that call start() and stop()
    MaxStarts,    \* bound: times start() opens the link
    MaxLaunches   \* bound: launchFunc goroutines over the life of the link

ASSUME BoundsAssumption ==
    /\ MaxStarts \in Nat \ {0}
    /\ MaxLaunches \in Nat \ {0}

Nil       == 0               \* a nil channel
Launchers == 1..MaxLaunches  \* launchers, and the stop channels they hold
Repairers == 1..MaxStarts    \* repairers, and the quit channels they hold

VARIABLES
    stopCh,       \* l.stopCh
    quitCh,       \* l.quitCh
    closedStop,   \* stop channels that are closed
    closedQuit,   \* quit channels that are closed
    launches,     \* stop channels made so far
    starts,       \* quit channels made so far
    repairs,      \* l.repiars
    daemon,       \* state of each launcher
    repairer,     \* state of each repairer
    caller        \* state of each caller

vars == <<stopCh, quitCh, closedStop, closedQuit, launches, starts, repairs,
          daemon, repairer, caller>>
chans == <<stopCh, quitCh, closedStop, closedQuit, launches, starts, repairs>>

\* "errored" and "returned" are launchers blocked on errCh <- err, with a
\* non-nil and a nil error.
DaemonState   == {"none", "running", "errored", "returned", "done"}
\* "select" is the outer select, "backoff" the inner one, "repair" is waiting
\* for l.mu after the delay.
RepairerState == {"none", "select", "backoff", "repair", "done"}
CallerState   == {"idle", "starting", "stopping"}

TypeOK ==
    /\ stopCh \in Launchers \cup {Nil}
    /\ quitCh \in Repairers \cup {Nil}
    /\ closedStop \subseteq Launchers
    /\ closedQuit \subseteq Repairers
    /\ launches \in 0..MaxLaunches
    /\ starts \in 0..MaxStarts
    /\ repairs \in 0..MaxLaunches
    /\ daemon \in [Launchers -> DaemonState]
    /\ repairer \in [Repairers -> RepairerState]
    /\ caller \in [Callers -> CallerState]

\* newTunnelLink: no channel but errCh, no goroutine.
Init ==
    /\ stopCh = Nil
    /\ quitCh = Nil
    /\ closedStop = {}
    /\ closedQuit = {}
    /\ launches = 0
    /\ starts = 0
    /\ repairs = 0
    /\ daemon = [g \in Launchers |-> "none"]
    /\ repairer = [q \in Repairers |-> "none"]
    /\ caller = [c \in Callers |-> "idle"]

-----------------------------------------------------------------------------
(* start() *)

\* The unlocked check finds no stop channel; the caller goes on to l.mu.Lock.
StartCheck(c) ==
    /\ caller[c] = "idle"
    /\ stopCh = Nil
    /\ starts < MaxStarts
    /\ caller' = [caller EXCEPT ![c] = "starting"]
    /\ UNCHANGED <<chans, daemon, repairer>>

\* make(stopCh); go launchFunc(l)().
Launch ==
    /\ launches' = launches + 1
    /\ stopCh' = launches + 1
    /\ daemon' = [daemon EXCEPT ![launches + 1] = "running"]

\* Both channels are made and both goroutines started under the lock.
OpenLink ==
    /\ launches < MaxLaunches
    /\ starts < MaxStarts
    /\ Launch
    /\ starts' = starts + 1
    /\ quitCh' = starts + 1
    /\ repairer' = [repairer EXCEPT ![starts + 1] = "select"]
    /\ UNCHANGED <<closedStop, closedQuit, repairs>>

\* Variant: start() without its second check, under the lock.
StartLockedUnchecked(c) ==
    /\ caller[c] = "starting"
    /\ caller' = [caller EXCEPT ![c] = "idle"]
    /\ OpenLink

StartLocked(c) ==
    /\ caller[c] = "starting"
    /\ caller' = [caller EXCEPT ![c] = "idle"]
    /\ IF stopCh = Nil THEN OpenLink ELSE UNCHANGED <<chans, daemon, repairer>>

-----------------------------------------------------------------------------
(* stop() *)

StopCheck(c) ==
    /\ caller[c] = "idle"
    /\ stopCh # Nil
    /\ caller' = [caller EXCEPT ![c] = "stopping"]
    /\ UNCHANGED <<chans, daemon, repairer>>

\* close(quitCh); close(stopCh).
CloseLink ==
    /\ closedQuit' = closedQuit \cup {quitCh}
    /\ closedStop' = closedStop \cup {stopCh}

\* Variant: stop() that closes the daemon's channel only.
StopLockedKeepsQuit(c) ==
    /\ caller[c] = "stopping"
    /\ caller' = [caller EXCEPT ![c] = "idle"]
    /\ closedStop' = closedStop \cup {stopCh}
    /\ stopCh' = Nil
    /\ quitCh' = Nil
    /\ UNCHANGED <<closedQuit, launches, starts, repairs, daemon, repairer>>

\* Variant: stop() without its second check, under the lock.
StopLockedUnchecked(c) ==
    /\ caller[c] = "stopping"
    /\ caller' = [caller EXCEPT ![c] = "idle"]
    /\ CloseLink
    /\ stopCh' = Nil
    /\ quitCh' = Nil
    /\ UNCHANGED <<launches, starts, repairs, daemon, repairer>>

\* Variant: stop() that does not reset the channels after closing them.
StopLockedNoReset(c) ==
    /\ caller[c] = "stopping"
    /\ caller' = [caller EXCEPT ![c] = "idle"]
    /\ CloseLink
    /\ UNCHANGED <<stopCh, quitCh, launches, starts, repairs, daemon, repairer>>

StopLocked(c) ==
    /\ caller[c] = "stopping"
    /\ caller' = [caller EXCEPT ![c] = "idle"]
    /\ IF stopCh = Nil
       THEN UNCHANGED chans
       ELSE /\ CloseLink
            /\ stopCh' = Nil
            /\ quitCh' = Nil
            /\ UNCHANGED <<launches, starts, repairs>>
    /\ UNCHANGED <<daemon, repairer>>

-----------------------------------------------------------------------------
(* launchFunc: origin.StartTunnelDaemon runs, ends, and its result is sent *)
(* on errCh.  The daemon is outside this repository: it may end with an    *)
(* error or a panic at any time, and once its stop channel is closed it    *)
(* ends with or without an error (ServeTunnelLoop returns one, the         *)
(* supervisor of several connections does not).                            *)

DaemonFails(g) ==
    /\ daemon[g] = "running"
    /\ launches < MaxLaunches
    /\ daemon' = [daemon EXCEPT ![g] = "errored"]
    /\ UNCHANGED <<chans, repairer, caller>>

DaemonStops(g) ==
    /\ daemon[g] = "running"
    /\ g \in closedStop
    /\ \E result \in {"errored", "returned"} :
         daemon' = [daemon EXCEPT ![g] = result]
    /\ UNCHANGED <<chans, repairer, caller>>

-----------------------------------------------------------------------------
(* repairFunc *)

\* case <-quitCh of the outer select.
QuitSelected(q) ==
    /\ repairer[q] = "select"
    /\ q \in closedQuit
    /\ repairer' = [repairer EXCEPT ![q] = "done"]
    /\ UNCHANGED <<chans, daemon, caller>>

\* errCh has no buffer: the launcher sends and ends when a repairer receives.
Receive(q, g, result, next) ==
    /\ repairer[q] = "select"
    /\ daemon[g] = result
    /\ daemon' = [daemon EXCEPT ![g] = "done"]
    /\ repairer' = [repairer EXCEPT ![q] = next]
    /\ UNCHANGED <<chans, caller>>

\* Variant: repairFunc that logs the error and waits for the next one.
ReceiveErrorIgnored(q, g) == Receive(q, g, "errored", "select")

\* case err := <-errCh, err # nil: on to the back-off.
ReceiveError(q, g) == Receive(q, g, "errored", "backoff")

\* case err := <-errCh, err = nil: nothing is repaired.
ReceiveNil(q, g) == Receive(q, g, "returned", "select")

\* case <-quitCh of the back-off select.
RepairCanceled(q) ==
    /\ repairer[q] = "backoff"
    /\ q \in closedQuit
    /\ repairer' = [repairer EXCEPT ![q] = "select"]
    /\ UNCHANGED <<chans, daemon, caller>>

\* case <-time.After(delay).
DelayElapsed(q) ==
    /\ repairer[q] = "backoff"
    /\ repairer' = [repairer EXCEPT ![q] = "repair"]
    /\ UNCHANGED <<chans, daemon, caller>>

\* The old stop channel is closed, a new one made and a new daemon launched.
Relaunch(q, next) ==
    /\ launches < MaxLaunches
    /\ closedStop' = closedStop \cup {stopCh}
    /\ Launch
    /\ repairs' = repairs + 1
    /\ repairer' = [repairer EXCEPT ![q] = next]
    /\ UNCHANGED <<quitCh, closedQuit, starts>>

\* Variant: repair without the check that the link was stopped during the delay.
RepairUnchecked(q) ==
    /\ repairer[q] = "repair"
    /\ Relaunch(q, "select")
    /\ UNCHANGED caller

\* Variant: repair that retries without waiting for the new daemon to fail.
RepairAgain(q) ==
    /\ repairer[q] = "repair"
    /\ stopCh # Nil
    /\ Relaunch(q, "repair")
    /\ UNCHANGED caller

Repair(q) ==
    /\ repairer[q] = "repair"
    /\ IF stopCh = Nil
       THEN /\ repairer' = [repairer EXCEPT ![q] = "select"]
            /\ UNCHANGED <<chans, daemon>>
       ELSE Relaunch(q, "select")
    /\ UNCHANGED caller

-----------------------------------------------------------------------------
CallerNext(c) == StartCheck(c) \/ StartLocked(c) \/ StopCheck(c) \/ StopLocked(c)
DaemonNext(g) == DaemonFails(g) \/ DaemonStops(g)
RepairerNext(q) ==
    \/ QuitSelected(q)
    \/ \E g \in Launchers : ReceiveError(q, g) \/ ReceiveNil(q, g)
    \/ RepairCanceled(q)
    \/ DelayElapsed(q)
    \/ Repair(q)

Next ==
    \/ \E c \in Callers : CallerNext(c)
    \/ \E g \in Launchers : DaemonNext(g)
    \/ \E q \in Repairers : RepairerNext(q)

Spec == Init /\ [][Next]_vars

\* The Go scheduler runs every runnable goroutine; a daemon ends once it is
\* told to stop.  Nobody has to call start() or stop(), and no daemon has to
\* fail.
FairSpec ==
    /\ Spec
    /\ \A c \in Callers : WF_vars(StartLocked(c)) /\ WF_vars(StopLocked(c))
    /\ \A g \in Launchers : WF_vars(DaemonStops(g))
    /\ \A q \in Repairers : WF_vars(RepairerNext(q))

-----------------------------------------------------------------------------
(* Properties *)

\* At most one tunnel of the link serves: a daemon that nobody told to stop
\* is the one the link holds the stop channel of.  start(), stop() and the
\* repair goroutine all replace stopCh, from goroutines of their own.
OneOpenTunnel ==
    \A g \in Launchers : daemon[g] = "running" /\ g \notin closedStop => g = stopCh

\* Whoever holds l.mu and finds stopCh set may close both channels: neither
\* is nil and neither was closed before (either would panic).
CloseSafe ==
    stopCh # Nil => /\ stopCh \notin closedStop
                    /\ quitCh # Nil
                    /\ quitCh \notin closedQuit

\* While the link has been started once, which is what the router does with
\* it, the repair goroutine about to close stopCh closes that of a daemon
\* that has already ended: it never cuts a tunnel that works.
RepairOnlyDead ==
    starts <= 1 =>
      \A q \in Repairers :
        repairer[q] \in {"backoff", "repair"} /\ stopCh # Nil
          => daemon[stopCh] = "done"

\* Only start() opens a link that is stopped: a repair whose delay elapsed
\* while stop() ran does not bring the tunnel back.
NoRevival == [][stopCh = Nil /\ stopCh' # Nil => starts' = starts + 1]_vars

\* Tunnels that nobody closed and that have not ended.
Open == {g \in Launchers : daemon[g] = "running" /\ g \notin closedStop}

\* To its callers the link is a switch: start(), stop() and a repair take effect
\* at one moment each, though the goroutines of earlier starts, repairs and
\* daemons are still about, and nothing else opens or closes a tunnel.
Switch == INSTANCE LinkSwitch WITH on <- stopCh # Nil, serial <- launches, open <- Open
ImplementsSwitch == Switch!SwitchSpec

\* errCh has no buffer, so a daemon that ends after stop() may block on it for
\* ever.  However often a link is repaired, and whichever repair goroutine
\* takes an error, it never holds more daemon goroutines than it was started.
Live == {g \in Launchers : daemon[g] \notin {"none", "done"}}
LaunchersBounded == Cardinality(Live) <= starts

\* A daemon of an open link that ended with an error or a panic is replaced,
\* or the link is stopped.  This is for a link that is started once: after a
\* restart the repair goroutine of the earlier start may take the error from
\* the shared errCh and drop it on its way out.
Repaired ==
    \A g \in Launchers :
      starts = 1 /\ daemon[g] = "errored" /\ stopCh = g ~> stopCh # g

\* The repair goroutine of a link that was stopped ends, wherever stop()
\* found it: waiting, backing off or about to repair (unless the bound on
\* launches is used up, where a repair has nothing to launch).
RepairerExits ==
    \A q \in Repairers :
      repairer[q] # "none" /\ quitCh # q
        ~> repairer[q] = "done" \/ launches = MaxLaunches
=============================================================================
