---------------------------- MODULE ProcessProofs ----------------------------
(***************************************************************************)
(* Proofs about Process and the Daemon in it, for any servers, workers,    *)
(* number of retries and length of the queue.                              *)
(*                                                                         *)
(* The daemon's part is about the error group: its goroutines exist while  *)
(* the loop is serving only (GroupServes), and the one that serves never   *)
(* ends without an error (ServeFails).  Attempts are paid for: by retries, *)
(* and once more by the grace period (Paid).  The process's part traces    *)
(* everything the run group does back to its cause (Caused), and the       *)
(* controller is canceled only for another actor's result (NotFirst).      *)
(***************************************************************************)
EXTENDS Process, SequenceTheorems, TLAPS

\* The goroutines of the error group belong to a call of ServeTunnel.
GroupServes == loop # "serving" => group = Idle

\* muxer.Serve has returned: the group has an error.
ServeFails == group["serve"] = "done" => groupErr # "nil"

\* Attempts since the last registration, with the one that is due.  While the
\* grace period runs each has used a retry that was there at the registration;
\* later each has used one since the start, or since the retries were reset,
\* before which there were at most MaxRetries.
Due  == IF loop \in {"off", "backoff"} THEN attempts + 1 ELSE attempts
Paid == IF loop = "off" THEN retries = 0 /\ attempts = 0 /\ ~grace
        ELSE IF grace THEN Due <= retries
        ELSE Due <= retries + 1 \/ Due <= MaxRetries + retries

DaemonInv == DaemonTypeOK /\ GroupServes /\ ServeFails /\ Paid /\ NeverNil

-----------------------------------------------------------------------------
(* The daemon *)

\* A daemon that was not started yet.
LEMMA InitDaemon == DaemonInit => DaemonInv
  <1> SUFFICES ASSUME DaemonInit PROVE DaemonInv
    OBVIOUS
  <1>1. DaemonTypeOK
    <2>1. /\ shutdownC \in BOOLEAN /\ ctxDone \in BOOLEAN
          /\ registered \in BOOLEAN /\ grace \in BOOLEAN
      BY Zenon DEF DaemonInit
    <2>2. retries \in 0..MaxRetries /\ attempts \in Nat
      BY RetriesAssumption DEF DaemonInit
    <2>3. group \in [Routines -> {"off", "running", "unregistering", "done"}]
      BY Zenon DEF DaemonInit, Idle
    <2> QED BY <2>1, <2>2, <2>3, Zenon DEF DaemonInit, DaemonTypeOK
  <1>2. GroupServes /\ ServeFails /\ Paid /\ NeverNil
    BY DEF DaemonInit, GroupServes, ServeFails, Paid, NeverNil, Idle, Routines
  <1> QED BY <1>1, <1>2 DEF DaemonInv

\* What ServeTunnelLoop does after a call of ServeTunnel: it retries, paid for
\* by a retry or by the grace period, or returns the error.
LEMMA LoopPays ==
    ASSUME DaemonInv, NEW err \in Errors, AfterServe(err),
           loop \in {"dial", "handshake", "serving"}
    PROVE  /\ loop' \in {"backoff", "returned"}
           /\ retries' \in 0..MaxRetries /\ grace' \in BOOLEAN
           /\ attempts' \in Nat
           /\ result' \in {"none", "error"}
           /\ Paid'
  <1> USE RetriesAssumption DEF DaemonInv, DaemonTypeOK, Errors
  <1>1. PICK elapsed \in {FALSE, grace} :
          LET used == IF elapsed THEN 0 ELSE retries
          IN  IF err # "permanent" /\ GetBackoffDuration(elapsed)
              THEN /\ loop' = "backoff"
                   /\ retries' = IF used < MaxRetries THEN used + 1 ELSE used
                   /\ grace' = (grace /\ ~elapsed)
                   /\ UNCHANGED <<attempts, result>>
              ELSE Return(IF err = "nil" THEN "nil" ELSE "error")
    BY DEF AfterServe
  <1>2. CASE loop' = "returned"
    <2>1. Return("error")
      BY <1>1, <1>2
    <2> QED BY <2>1, <1>2 DEF Return, Paid, Due
  <1>3. CASE loop' # "returned"
    <2>1. /\ loop' = "backoff" /\ attempts' = attempts /\ result' = result
          /\ grace' = (grace /\ ~elapsed)
          /\ retries' = IF (IF elapsed THEN 0 ELSE retries) < MaxRetries
                        THEN (IF elapsed THEN 0 ELSE retries) + 1
                        ELSE (IF elapsed THEN 0 ELSE retries)
          /\ retries < MaxRetries \/ elapsed
      BY <1>1, <1>3 DEF Return, GetBackoffDuration
    <2>2. elapsed = FALSE \/ elapsed = grace
      BY <1>1, Zenon
    <2>3. CASE elapsed = TRUE
      <3>1. Due <= retries /\ Due = attempts /\ grace' = FALSE
        BY <2>1, <2>2, <2>3 DEF Paid, Due
      <3> QED BY <2>1, <2>3, <3>1 DEF Paid, Due, NeverNil
    <2>4. CASE elapsed = FALSE
      <3>1. retries' = retries + 1 /\ (grace' <=> grace) /\ grace' \in BOOLEAN
        BY <2>1, <2>4
      <3>2. Due' = Due + 1
        BY <2>1 DEF Due
      <3> QED BY <2>1, <2>4, <3>1, <3>2 DEF Paid, Due, NeverNil
    <2> QED BY <2>2, <2>3, <2>4
  <1> QED BY <1>2, <1>3

\* Every step of the daemon keeps its invariant: one step of the proof for each
\* action of the loop and of the three goroutines.
LEMMA StepDaemon == DaemonInv /\ [DaemonNext]_dvars => DaemonInv'
  <1> SUFFICES ASSUME DaemonInv, [DaemonNext]_dvars PROVE DaemonInv'
    OBVIOUS
  <1> USE RetriesAssumption DEF DaemonInv, loopVars, connVars
  <1>1. CASE StartTunnelDaemon
    <2>1. CASE Dial /\ UNCHANGED <<retries, grace, result>>
      BY <1>1, <2>1 DEF StartTunnelDaemon, Dial, DaemonTypeOK, GroupServes, ServeFails,
         Paid, Due, NeverNil
    <2>2. CASE Return("error")
      BY <1>1, <2>2 DEF StartTunnelDaemon, Return, DaemonTypeOK, GroupServes, ServeFails,
         Paid, Due, NeverNil
    <2> QED BY <1>1, <2>1, <2>2 DEF StartTunnelDaemon
  <1>2. CASE Cancel
    BY <1>2 DEF Cancel, DaemonTypeOK, GroupServes, ServeFails, Paid, Due, NeverNil
  <1>3. CASE BackoffEnds
    BY <1>3 DEF BackoffEnds, Dial, DaemonTypeOK, GroupServes, ServeFails, Paid, Due, NeverNil
  <1>4. CASE DialReturns
    <2>1. CASE ~ctxDone /\ loop' = "handshake" /\ UNCHANGED <<retries, grace, attempts, result>>
      BY <1>4, <2>1 DEF DialReturns, DaemonTypeOK, GroupServes, ServeFails, Paid, Due, NeverNil
    <2>2. ASSUME NEW err \in Errors, AfterServe(err) PROVE DaemonInv'
      <3>1. /\ loop' \in {"backoff", "returned"}
            /\ retries' \in 0..MaxRetries /\ grace' \in BOOLEAN
            /\ attempts' \in Nat
            /\ result' \in {"none", "error"}
            /\ Paid'
        BY <1>4, <2>2, LoopPays DEF DialReturns
      <3> QED BY <1>4, <3>1 DEF DialReturns, DaemonTypeOK, GroupServes, ServeFails, NeverNil
    <2> QED BY <1>4, <2>1, <2>2 DEF DialReturns
  <1>5. CASE HandshakeReturns
    <2>1. CASE /\ loop' = "serving"
               /\ group' = [r \in Routines |-> "running"] /\ groupErr' = "nil"
               /\ muxer' = "up"
               /\ UNCHANGED <<retries, grace, attempts, result, registered>>
      BY <1>5, <2>1 DEF HandshakeReturns, DaemonTypeOK, GroupServes, ServeFails, Paid, Due,
         NeverNil, Routines
    <2>2. ASSUME NEW err \in Errors, AfterServe(err), UNCHANGED connVars PROVE DaemonInv'
      <3>1. /\ loop' \in {"backoff", "returned"}
            /\ retries' \in 0..MaxRetries /\ grace' \in BOOLEAN
            /\ attempts' \in Nat
            /\ result' \in {"none", "error"}
            /\ Paid'
        BY <1>5, <2>2, LoopPays DEF HandshakeReturns
      <3> QED BY <1>5, <2>2, <3>1 DEF HandshakeReturns, DaemonTypeOK, GroupServes, ServeFails,
              NeverNil
    <2> QED BY <1>5, <2>1, <2>2 DEF HandshakeReturns
  <1>6. CASE Wait
    <2>1. groupErr \in Errors
      BY <1>6 DEF Wait, Routines, ServeFails, DaemonTypeOK
    <2>2. /\ loop' \in {"backoff", "returned"}
          /\ retries' \in 0..MaxRetries /\ grace' \in BOOLEAN
          /\ attempts' \in Nat
          /\ result' \in {"none", "error"}
          /\ Paid'
      BY <1>6, <2>1, LoopPays DEF Wait
    <2> QED BY <1>6, <2>2 DEF Wait, DaemonTypeOK, GroupServes, ServeFails, NeverNil, Idle, Routines
  <1>7. CASE RegisterTunnel
    <2>1. loop = "serving"
      BY <1>7 DEF RegisterTunnel, GroupServes, Idle, Routines
    <2>2. CASE /\ muxer = "up"
               /\ Returns("register", "nil")
               /\ registered' = TRUE /\ grace' = TRUE /\ attempts' = 0
      BY <1>7, <2>1, <2>2 DEF RegisterTunnel, Returns, DaemonTypeOK, GroupServes, ServeFails,
         Paid, Due, NeverNil, Routines
    <2>3. ASSUME NEW err \in Errors, Returns("register", err),
                 registered' \in {registered, muxer = "up"}, UNCHANGED <<grace, attempts>>
          PROVE  DaemonInv'
      BY <1>7, <2>1, <2>3, ZenonT(30) DEF RegisterTunnel, Returns, DaemonTypeOK, GroupServes, ServeFails,
         Paid, Due, NeverNil, Routines, Errors
    <2> QED BY <1>7, <2>2, <2>3 DEF RegisterTunnel
  <1>8. CASE TickDone
    <2>1. loop = "serving"
      BY <1>8 DEF TickDone, GroupServes, Idle, Routines
    <2> QED BY <1>8, <2>1 DEF TickDone, DaemonTypeOK, GroupServes, ServeFails, Paid, Due,
            NeverNil, Routines
  <1>9. CASE UnregisterTunnel
    <2>1. loop = "serving"
      BY <1>9 DEF UnregisterTunnel, GroupServes, Idle, Routines
    <2> QED BY <1>9, <2>1, ZenonT(30) DEF UnregisterTunnel, Returns, DaemonTypeOK, GroupServes, ServeFails,
            Paid, Due, NeverNil, Routines, Errors
  <1>10. CASE ServeReturns
    <2>1. loop = "serving"
      BY <1>10 DEF ServeReturns, GroupServes, Idle, Routines
    <2> QED BY <1>10, <2>1 DEF ServeReturns, Returns, DaemonTypeOK, GroupServes, ServeFails,
            Paid, Due, NeverNil, Routines, Errors
  <1>11. CASE UNCHANGED dvars
    BY <1>11 DEF dvars, DaemonTypeOK, GroupServes, ServeFails, Paid, Due, NeverNil
  <1> QED BY <1>1, <1>2, <1>3, <1>4, <1>5, <1>6, <1>7, <1>8, <1>9, <1>10, <1>11
          DEF DaemonNext, LoopNext

-----------------------------------------------------------------------------
(* The process *)

\* Whatever the run group has done goes back to a signal or a server that failed.
Caused == (phase > 0 \/ canceled # {} \/ closing # {} \/ returned # {})
             => signalled \/ failed # {}

\* The controller returns when it is canceled, which is for a result that came
\* before: its own nil is never the first.
NotFirst ==
    /\ first # "controller"
    /\ phase > 0 \/ "controller" \in canceled => first # "none"

GroupTypeOK ==
    /\ signalled \in BOOLEAN
    /\ failed \subseteq Range(Servers) /\ closing \subseteq Range(Servers)
    /\ busy \subseteq Range(Servers)
    /\ canceled \subseteq {"signal", "controller"}
    /\ returned \subseteq Range(Actors)
    /\ first \in returned \cup {"none"}
    /\ phase \in 0..Len(Actors) + 2

CtrlTypeOK ==
    /\ controller \in {"sync", "running", "returned"}
    /\ shut \in BOOLEAN
    /\ queue \subseteq Items
    /\ worker \in [Workers -> {"none", "get", "quit"} \cup Items]

ProcessInv == DaemonInv /\ GroupTypeOK /\ CtrlTypeOK /\ Caused

\* The actors are those that main adds to the group.
LEMMA ActorsProperties ==
    /\ Len(Actors) \in Nat
    /\ {"signal", "controller"} \cup Range(Servers) \subseteq Range(Actors)
  <1> USE ProcessAssumption
  <1> DEFINE S == Range(Servers) \cup {"signal", "controller"}
  <1>1. <<"signal">> \in Seq(S) /\ <<"controller">> \in Seq(S) /\ Servers \in Seq(S)
    <2>1. Servers \in Seq(Range(Servers))
      BY DEF Range
    <2>2. \A T : \A x \in T : <<x>> \in Seq(T)
      OBVIOUS
    <2> QED BY <2>1, <2>2, SeqMonotonic
  <1> HIDE DEF S
  <1> DEFINE head == <<"signal">> \o Servers
  <1>2. /\ Actors \in Seq(S) /\ Len(Actors) = Len(Servers) + 2
        /\ Actors[1] = "signal" /\ Actors[Len(Servers) + 2] = "controller"
        /\ \A i \in 1..Len(Servers) : Actors[i + 1] = Servers[i]
    <2>0. Len(Servers) \in Nat
      OBVIOUS
    <2>1. /\ head \in Seq(S) /\ Len(head) = 1 + Len(Servers)
          /\ \A i \in 1..1 + Len(Servers) :
                head[i] = IF i <= 1 THEN <<"signal">>[i] ELSE Servers[i - 1]
      BY <1>1, ConcatProperties
    <2> HIDE DEF head
    <2>2. /\ Actors \in Seq(S) /\ Len(Actors) = Len(head) + 1
          /\ \A i \in 1..Len(head) + 1 :
                Actors[i] = IF i <= Len(head) THEN head[i] ELSE <<"controller">>[i - Len(head)]
      BY <1>1, <2>1, ConcatProperties DEF Actors, head
    <2> QED BY <2>0, <2>1, <2>2
  <1>3. DOMAIN Actors = 1..Len(Servers) + 2 /\ DOMAIN Servers = 1..Len(Servers)
        /\ Len(Servers) \in Nat
    BY <1>2
  <1>4. ASSUME NEW i \in DOMAIN Servers PROVE Servers[i] \in Range(Actors)
    <2>1. i + 1 \in DOMAIN Actors /\ Actors[i + 1] = Servers[i]
      BY <1>2, <1>3
    <2> QED BY <2>1 DEF Range
  <1>5. "signal" \in Range(Actors) /\ "controller" \in Range(Actors)
    BY <1>2, <1>3 DEF Range
  <1> QED BY <1>2, <1>3, <1>4, <1>5 DEF Range

\* A process that starts: no actor has returned, no worker was spawned.
LEMMA InitProcess == Init => ProcessInv
  <1> SUFFICES ASSUME Init PROVE ProcessInv
    OBVIOUS
  <1>1. DaemonInv
    BY InitDaemon DEF Init
  <1>2. phase \in 0..Len(Actors) + 2 /\ ~(phase > 0)
    BY ActorsProperties DEF Init
  <1>3. signalled \in BOOLEAN /\ shut \in BOOLEAN
    BY Zenon DEF Init
  <1>4. worker \in [Workers -> {"none", "get", "quit"} \cup Items]
    BY Zenon DEF Init
  <1> QED BY <1>1, <1>2, <1>3, <1>4 DEF Init, ProcessInv, GroupTypeOK, CtrlTypeOK, Caused

\* A step of the process leaves the daemon to itself, or starts it, or closes
\* its shutdownC.
LEMMA ProcessStepsDaemon ==
    ASSUME DaemonInv, [Next]_vars PROVE DaemonInv'
  <1>1. CASE UNCHANGED dvars
    BY <1>1, StepDaemon
  <1>2. CASE DaemonStep
    BY <1>2, StepDaemon DEF DaemonStep, DaemonNext
  <1>3. ASSUME NEW w \in Workers, Handle(w) PROVE DaemonInv'
    <2>1. CASE StartTunnelDaemon
      BY <2>1, StepDaemon DEF DaemonNext
    <2>2. CASE shutdownC' = TRUE /\ UNCHANGED <<ctxDone, loopVars, connVars>>
      BY <2>2 DEF loopVars, connVars, DaemonInv, DaemonTypeOK, GroupServes, ServeFails, Paid,
         Due, NeverNil
    <2> QED BY <1>1, <1>3, <2>1, <2>2 DEF Handle
  <1>4. CASE Next /\ ~DaemonStep /\ ~\E w \in Workers : Handle(w)
    <2>1. UNCHANGED dvars
      BY <1>4, Zenon DEF Next, ServerStep, GroupStep, WorkerStep, Signal, SignalActor, Request,
         RequestEnds, ServerFails, ServerCloses, FirstReturned, InterruptCancel,
         InterruptShutdown, ShutdownReturns, Exit, Synced, ControllerStops, Enqueue, Get
    <2> QED BY <1>1, <2>1
  <1> QED BY <1>1, <1>2, <1>3, <1>4 DEF vars

\* An actor that returns stays in the group, and has its cause in the others.
LEMMA ActorReturnsType ==
    ASSUME GroupTypeOK, NEW a \in Range(Actors), ActorReturns(a)
    PROVE  returned' \subseteq Range(Actors) /\ first' \in returned' \cup {"none"}
  BY DEF GroupTypeOK, ActorReturns

\* Every step of the process keeps its invariant.
LEMMA StepProcess == ProcessInv /\ [Next]_vars => ProcessInv'
  <1> SUFFICES ASSUME ProcessInv, [Next]_vars PROVE ProcessInv'
    OBVIOUS
  <1>1. DaemonInv'
    BY ProcessStepsDaemon DEF ProcessInv
  <1> SUFFICES GroupTypeOK' /\ CtrlTypeOK' /\ Caused'
    BY <1>1 DEF ProcessInv
  <1>2. GroupTypeOK /\ CtrlTypeOK /\ Caused
    BY DEF ProcessInv
  <1>3. CASE UNCHANGED pvars
    BY <1>2, <1>3 DEF pvars, groupVars, ctrlVars, GroupTypeOK, CtrlTypeOK, Caused
  <1>4. CASE Signal
    BY <1>2, <1>4 DEF Signal, ctrlVars, GroupTypeOK, CtrlTypeOK, Caused
  <1>5. CASE SignalActor
    <2>1. returned' \subseteq Range(Actors) /\ first' \in returned' \cup {"none"}
      BY <1>2, <1>5, ActorReturnsType, ActorsProperties DEF SignalActor
    <2> QED BY <1>2, <1>5, <2>1 DEF SignalActor, ctrlVars, GroupTypeOK, CtrlTypeOK, Caused
  <1>6. ASSUME NEW s \in Range(Servers), ServerStep(s)
        PROVE  GroupTypeOK' /\ CtrlTypeOK' /\ Caused'
    <2>1. CASE Request(s) \/ RequestEnds(s)
      BY <1>2, <2>1 DEF Request, RequestEnds, ctrlVars, GroupTypeOK, CtrlTypeOK, Caused
    <2>2. ASSUME ActorReturns(s)
          PROVE  returned' \subseteq Range(Actors) /\ first' \in returned' \cup {"none"}
      BY <1>2, <2>2, ActorReturnsType, ActorsProperties
    <2>3. CASE ServerFails(s)
      BY <1>2, <2>2, <2>3 DEF ServerFails, ctrlVars, GroupTypeOK, CtrlTypeOK, Caused
    <2>4. CASE ServerCloses(s)
      BY <1>2, <2>2, <2>4 DEF ServerCloses, ctrlVars, GroupTypeOK, CtrlTypeOK, Caused
    <2> QED BY <1>6, <2>1, <2>3, <2>4 DEF ServerStep
  <1>7. CASE GroupStep
    <2> USE ActorsProperties
    <2>1. CASE FirstReturned
      BY <1>2, <2>1 DEF FirstReturned, ctrlVars, GroupTypeOK, CtrlTypeOK, Caused
    <2>2. CASE InterruptCancel
      <3>1. canceled' \subseteq {"signal", "controller"}
        BY <1>2, <2>2, Zenon DEF InterruptCancel, GroupTypeOK
      <3>2. phase' \in 0..Len(Actors) + 2 /\ phase > 0
        BY <1>2, <2>2 DEF InterruptCancel, GroupTypeOK
      <3> QED BY <1>2, <2>2, <3>1, <3>2, <2>2 DEF InterruptCancel, ctrlVars, GroupTypeOK, CtrlTypeOK, Caused
    <2>3. CASE InterruptShutdown
      BY <1>2, <2>3 DEF InterruptShutdown, ctrlVars, GroupTypeOK, CtrlTypeOK, Caused
    <2>4. CASE ShutdownReturns
      BY <1>2, <2>4 DEF ShutdownReturns, ctrlVars, GroupTypeOK, CtrlTypeOK, Caused
    <2>5. CASE Exit
      BY <1>2, <2>5 DEF Exit, waiting, ctrlVars, GroupTypeOK, CtrlTypeOK, Caused
    <2> QED BY <1>7, <2>1, <2>2, <2>3, <2>4, <2>5 DEF GroupStep
  <1>8. CASE Synced
    BY <1>2, <1>8 DEF Synced, groupVars, GroupTypeOK, CtrlTypeOK, Caused
  <1>9. CASE ControllerStops
    <2>1. returned' \subseteq Range(Actors) /\ first' \in returned' \cup {"none"}
      BY <1>2, <1>9, ActorReturnsType, ActorsProperties DEF ControllerStops
    <2> QED BY <1>2, <1>9, <2>1 DEF ControllerStops, GroupTypeOK, CtrlTypeOK, Caused
  <1>10. ASSUME NEW item \in Items, Enqueue(item)
         PROVE  GroupTypeOK' /\ CtrlTypeOK' /\ Caused'
    BY <1>2, <1>10 DEF Enqueue, groupVars, GroupTypeOK, CtrlTypeOK, Caused
  <1>11. ASSUME NEW w \in Workers, WorkerStep(w)
         PROVE  GroupTypeOK' /\ CtrlTypeOK' /\ Caused'
    <2>1. CASE Get(w)
      BY <1>2, <2>1 DEF Get, groupVars, GroupTypeOK, CtrlTypeOK, Caused
    <2>2. CASE Handle(w)
      BY <1>2, <2>2 DEF Handle, groupVars, GroupTypeOK, CtrlTypeOK, Caused
    <2> QED BY <1>11, <2>1, <2>2 DEF WorkerStep
  <1>12. CASE DaemonStep
    BY <1>3, <1>12 DEF DaemonStep
  <1> QED BY <1>3, <1>4, <1>5, <1>6, <1>7, <1>8, <1>9, <1>10, <1>11, <1>12 DEF Next, vars

\* A result that is first stays first.
LEMMA ActorReturnsFirst ==
    ASSUME NEW a, ActorReturns(a)
    PROVE  /\ first # "none" => first' = first
           /\ first # "controller" /\ (a # "controller" \/ first # "none")
                => first' # "controller"
  BY DEF ActorReturns

\* The controller stays behind the others.
LEMMA StepNotFirst == ProcessInv /\ NotFirst /\ [Next]_vars => NotFirst'
  <1> SUFFICES ASSUME ProcessInv, NotFirst, [Next]_vars PROVE NotFirst'
    OBVIOUS
  <1>1. CASE UNCHANGED <<first, phase, canceled>>
    BY <1>1 DEF NotFirst
  <1>2. CASE SignalActor
    <2>1. UNCHANGED phase /\ ("controller" \in canceled' => "controller" \in canceled)
      BY <1>2 DEF SignalActor
    <2>2. first' # "controller" /\ (first # "none" => first' = first)
      BY <1>2, ActorReturnsFirst DEF SignalActor, NotFirst
    <2> QED BY <2>1, <2>2 DEF NotFirst
  <1>3. ASSUME NEW s \in Range(Servers), ServerFails(s) \/ ServerCloses(s) PROVE NotFirst'
    <2>1. ActorReturns(s) /\ UNCHANGED <<phase, canceled>>
      BY <1>3 DEF ServerFails, ServerCloses
    <2>2. s # "controller"
      BY ProcessAssumption
    <2>3. first' # "controller" /\ (first # "none" => first' = first)
      BY <2>1, <2>2, ActorReturnsFirst DEF NotFirst
    <2> QED BY <2>1, <2>3 DEF NotFirst
  <1>4. CASE FirstReturned
    BY <1>4 DEF FirstReturned, NotFirst
  <1>5. CASE GroupStep /\ ~FirstReturned
    <2>1. phase > 0 /\ UNCHANGED first
      <3>1. phase \in 1..Len(Actors) \/ phase = Len(Actors) + 1
        BY <1>5 DEF GroupStep, InterruptCancel, InterruptShutdown, ShutdownReturns, Exit, waiting
      <3> QED BY <1>5, <3>1, ActorsProperties DEF GroupStep, InterruptCancel, InterruptShutdown,
              ShutdownReturns, Exit
    <2> QED BY <2>1 DEF NotFirst
  <1>6. CASE ControllerStops
    <2>1. ActorReturns("controller") /\ UNCHANGED <<phase, canceled>> /\ first # "none"
      BY <1>6 DEF ControllerStops, NotFirst
    <2>2. first' = first
      BY <2>1, ActorReturnsFirst
    <2> QED BY <2>1, <2>2 DEF NotFirst
  <1>7. CASE Signal \/ Synced \/ DaemonStep
    BY <1>1, <1>7 DEF Signal, Synced, DaemonStep, pvars, groupVars
  <1>8. ASSUME NEW s \in Range(Servers), Request(s) \/ RequestEnds(s) PROVE NotFirst'
    BY <1>1, <1>8 DEF Request, RequestEnds
  <1>9. ASSUME NEW item \in Items, Enqueue(item) PROVE NotFirst'
    BY <1>1, <1>9 DEF Enqueue, groupVars
  <1>10. ASSUME NEW w \in Workers, WorkerStep(w) PROVE NotFirst'
    BY <1>1, <1>10 DEF WorkerStep, Get, Handle, groupVars
  <1>11. CASE UNCHANGED vars
    BY <1>1, <1>11 DEF vars, pvars, groupVars
  <1> QED BY <1>2, <1>3, <1>4, <1>5, <1>6, <1>7, <1>8, <1>9, <1>10, <1>11 DEF Next, ServerStep

\* The invariants of the daemon and of the run group hold in every state.
THEOREM ProcessInvariant == Spec => []ProcessInv
  BY InitProcess, StepProcess, PTL DEF Spec

-----------------------------------------------------------------------------
(* Theorems *)

\* Every variable of the run group, Controller.Run, the workers and the daemon
\* keeps its type.
THEOREM TypeCorrect == Spec => []TypeOK
  <1>1. ProcessInv => TypeOK
    BY DEF ProcessInv, DaemonInv, GroupTypeOK, CtrlTypeOK, TypeOK
  <1> QED BY <1>1, ProcessInvariant, PTL

\* g.Run starts to interrupt the actors only after a signal or a failed server.
THEOREM ExitIsCaused == Spec => []NoSpontaneousExit
  <1>1. ProcessInv => NoSpontaneousExit
    BY DEF ProcessInv, Caused, NoSpontaneousExit
  <1> QED BY <1>1, ProcessInvariant, PTL

\* Every exit of the process is one through log.Fatalf, whatever the signals, the
\* servers and the controller do.
THEOREM ExitIsAnError == Spec => []ExitsWithError
  <1>1. Init => NotFirst
    BY DEF Init, NotFirst
  <1>2. NotFirst => ExitsWithError
    BY DEF NotFirst, ExitsWithError, status
  <1> QED BY <1>1, <1>2, StepNotFirst, ProcessInvariant, PTL DEF Spec

\* StartTunnelDaemon never returns nil, so that the link repairs every tunnel
\* that ends by itself.
THEOREM DaemonReturnsError == Spec => []NeverNil
  <1>1. ProcessInv => NeverNil
    BY DEF ProcessInv, DaemonInv
  <1> QED BY <1>1, ProcessInvariant, PTL

\* A daemon that cannot register calls ServeTunnel a bounded number of times,
\* for any number of retries.
THEOREM DaemonGivesUp == Spec => []RetriesBounded
  <1>1. ASSUME ProcessInv PROVE RetriesBounded
    <2>1. /\ attempts \in Nat /\ retries \in 0..MaxRetries /\ MaxRetries \in Nat
          /\ Due >= attempts /\ Due \in Nat
      BY <1>1, RetriesAssumption DEF ProcessInv, DaemonInv, DaemonTypeOK, Due
    <2> QED BY <1>1, <2>1 DEF ProcessInv, DaemonInv, Paid, RetriesBounded
  <1> QED BY <1>1, ProcessInvariant, PTL
=============================================================================
