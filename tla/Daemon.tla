------------------------------- MODULE Daemon -------------------------------
(***************************************************************************)
(* The tunnel daemon that one launcher of TunnelLink runs:                 *)
(* StartTunnelDaemon of hack/tunnel.gosrc, the file that the build puts    *)
(* into the vendored origin package, for a tunnel of one connection        *)
(* (ha-connections <= 1; more are run by a supervisor that is not in this  *)
(* repository).                                                            *)
(*                                                                         *)
(*   loop      ServeTunnelLoop: connect, serve, back off, again;           *)
(*   register, tick, serve                                                 *)
(*             the three goroutines of the error group of ServeTunnel; the *)
(*             first error of any of them ends serveCtx for all.           *)
(*                                                                         *)
(* External: the muxer, the RPCs it carries to the edge, and the           *)
(* BackoffHandler, as the code uses them.                                  *)
(***************************************************************************)
EXTENDS Naturals

CONSTANT MaxRetries   \* config.Retries
ASSUME RetriesAssumption == MaxRetries \in Nat

VARIABLES
    shutdownC,    \* whether the channel of the link is closed
    ctxDone,      \* whether ctx is canceled
    loop,         \* where ServeTunnelLoop is
    group,        \* state of each goroutine of the error group
    groupErr,     \* the error group's first error
    muxer,        \* the connection to the edge
    registered,   \* whether the edge sends the host's requests to it
    retries,      \* backoff.retries
    grace,        \* whether SetGracePeriod has set a deadline
    attempts,     \* calls of ServeTunnel since the last registration
    result        \* what StartTunnelDaemon returned

loopVars == <<loop, retries, grace, attempts, result>>
connVars == <<group, groupErr, muxer, registered>>
dvars == <<shutdownC, ctxDone, loopVars, connVars>>

Routines == {"register", "tick", "serve"}
Idle == [r \in Routines |-> "off"]

\* An error is permanent when ServeTunnel reports it as not recoverable.
Errors == {"recoverable", "permanent"}

DaemonTypeOK ==
    /\ shutdownC \in BOOLEAN /\ ctxDone \in BOOLEAN
    /\ loop \in {"off", "dial", "handshake", "serving", "backoff", "returned"}
    /\ group \in [Routines -> {"off", "running", "unregistering", "done"}]
    /\ groupErr \in Errors \cup {"nil"}
    /\ muxer \in {"up", "down"}
    /\ registered \in BOOLEAN
    /\ retries \in 0..MaxRetries
    /\ grace \in BOOLEAN
    /\ attempts \in Nat
    /\ result \in {"none", "nil", "error"}

DaemonInit ==
    /\ shutdownC = FALSE /\ ctxDone = FALSE
    /\ loop = "off" /\ retries = 0 /\ grace = FALSE /\ attempts = 0
    /\ result = "none"
    /\ group = Idle /\ groupErr = "nil" /\ muxer = "down" /\ registered = FALSE

-----------------------------------------------------------------------------
(* StartTunnelDaemon and ServeTunnelLoop *)

\* A call of ServeTunnel begins.
Dial == /\ loop' = "dial"
        /\ attempts' = attempts + 1

Return(res) == /\ loop' = "returned" /\ result' = res
               /\ UNCHANGED <<retries, grace, attempts>>

\* Making the UUID or resolving the edge may fail.
StartTunnelDaemon ==
    /\ loop = "off"
    /\ \/ Dial /\ UNCHANGED <<retries, grace, result>>
       \/ Return("error")
    /\ UNCHANGED <<shutdownC, ctxDone, connVars>>

\* The goroutine that waits for shutdownC.
Cancel ==
    /\ shutdownC /\ ~ctxDone /\ loop # "off"
    /\ ctxDone' = TRUE
    /\ UNCHANGED <<shutdownC, loopVars, connVars>>

\* Variant: the number of retries is not looked at.
GetBackoffDurationForever(elapsed) == ~ctxDone

\* Whether there is a retry left, or the grace period has elapsed.
GetBackoffDuration(elapsed) == ~ctxDone /\ (retries < MaxRetries \/ elapsed)

\* ServeTunnel returned: Backoff counts the retry, after a reset once the
\* deadline of SetGracePeriod has passed, or the loop returns.
AfterServe(err) ==
    \E elapsed \in {FALSE, grace} :
      LET used == IF elapsed THEN 0 ELSE retries
      IN  IF err # "permanent" /\ GetBackoffDuration(elapsed)
          THEN /\ loop' = "backoff"
               /\ retries' = IF used < MaxRetries THEN used + 1 ELSE used
               /\ grace' = (grace /\ ~elapsed)
               /\ UNCHANGED <<attempts, result>>
          ELSE Return(IF err = "nil" THEN "nil" ELSE "error")

\* The timer fires or ctx ends: the loop continues in both cases.
BackoffEnds ==
    /\ loop = "backoff"
    /\ Dial
    /\ UNCHANGED <<shutdownC, ctxDone, retries, grace, result, connVars>>

-----------------------------------------------------------------------------
(* ServeTunnel: NewTunnelHandler *)

\* The dial inherits ctx; a bad origin URL is permanent.
DialReturns ==
    /\ loop = "dial"
    /\ \/ ~ctxDone /\ loop' = "handshake" /\ UNCHANGED <<retries, grace, attempts, result>>
       \/ \E err \in Errors : AfterServe(err)
    /\ UNCHANGED <<shutdownC, ctxDone, connVars>>

\* The TLS handshake fails with a dialError, that of the muxer with an error
\* that the switch of ServeTunnel does not know; a panic is recoverable.
HandshakeReturns ==
    /\ loop = "handshake"
    /\ \/ /\ loop' = "serving"
          /\ group' = [r \in Routines |-> "running"] /\ groupErr' = "nil"
          /\ muxer' = "up"
          /\ UNCHANGED <<retries, grace, attempts, result, registered>>
       \/ (\E err \in Errors : AfterServe(err)) /\ UNCHANGED connVars
    /\ UNCHANGED <<shutdownC, ctxDone>>

-----------------------------------------------------------------------------
(* ServeTunnel: the error group *)

serveDone == ctxDone \/ groupErr # "nil"

\* A goroutine returns; the first error of the group stays.
Returns(r, err) ==
    /\ group' = [group EXCEPT ![r] = "done"]
    /\ groupErr' = IF groupErr = "nil" THEN err ELSE groupErr

\* RegisterTunnel: the edge accepts, rejects for good or for now, or the RPC
\* fails, in which case the edge may have accepted.  A recoverable error
\* stands for dupConnRegisterTunnelError, clientRegisterTunnelError and a
\* serverRegisterTunnelError that is not permanent.
RegisterTunnel ==
    /\ group["register"] = "running"
    /\ \/ /\ muxer = "up"
          /\ Returns("register", "nil")
          /\ registered' = TRUE /\ grace' = TRUE /\ attempts' = 0
       \/ /\ \E err \in Errors : Returns("register", err)
          /\ registered' \in {registered, muxer = "up"}
          /\ UNCHANGED <<grace, attempts>>
    /\ UNCHANGED <<shutdownC, ctxDone, loop, retries, result, muxer>>

\* The goroutine that updates the metrics sees serveCtx done.
TickDone ==
    /\ group["tick"] = "running" /\ serveDone
    /\ group' = [group EXCEPT !["tick"] = "unregistering"]
    /\ UNCHANGED <<shutdownC, ctxDone, loopVars, groupErr, muxer, registered>>

\* Variant: the muxer is shut down only when the RPC succeeded.
UnregisterTunnelEarlyReturn ==
    /\ group["tick"] = "unregistering"
    /\ \/ muxer = "up" /\ Returns("tick", "nil") /\ muxer' = "down" /\ registered' = FALSE
       \/ Returns("tick", "recoverable") /\ UNCHANGED <<muxer, registered>>
    /\ UNCHANGED <<shutdownC, ctxDone, loopVars>>

\* UnregisterTunnel returns, and whatever it returns the muxer is shut down.
UnregisterTunnel ==
    /\ group["tick"] = "unregistering"
    /\ \/ muxer = "up" /\ Returns("tick", "nil")
       \/ Returns("tick", "recoverable")
    /\ muxer' = "down" /\ registered' = FALSE
    /\ UNCHANGED <<shutdownC, ctxDone, loopVars>>

\* Variant: a graceful shutdown of the muxer is not an error.
ServeReturnsNil ==
    /\ group["serve"] = "running"
    /\ \E err \in {"nil", "recoverable"} : Returns("serve", err)
    /\ muxer' = "down" /\ registered' = FALSE
    /\ UNCHANGED <<shutdownC, ctxDone, loopVars>>

\* muxer.Serve ends after Shutdown, by the edge or by a failure; a nil error
\* becomes muxerShutdownError.
ServeReturns ==
    /\ group["serve"] = "running"
    /\ Returns("serve", "recoverable")
    /\ muxer' = "down" /\ registered' = FALSE
    /\ UNCHANGED <<shutdownC, ctxDone, loopVars>>

\* errGroup.Wait returns.
Wait ==
    /\ loop = "serving"
    /\ \A r \in Routines : group[r] = "done"
    /\ AfterServe(groupErr)
    /\ group' = Idle /\ groupErr' = "nil"
    /\ UNCHANGED <<shutdownC, ctxDone, muxer, registered>>

-----------------------------------------------------------------------------
LoopNext == BackoffEnds \/ DialReturns \/ HandshakeReturns \/ Wait

DaemonNext ==
    \/ StartTunnelDaemon \/ Cancel \/ LoopNext
    \/ RegisterTunnel \/ TickDone \/ UnregisterTunnel \/ ServeReturns
=============================================================================
