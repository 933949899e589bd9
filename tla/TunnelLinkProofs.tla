-------------------------- MODULE TunnelLinkProofs --------------------------
(***************************************************************************)
(* Proofs about TunnelLink, for every set of callers and all bounds.       *)
(*                                                                         *)
(* None of the properties is inductive.  What carries them is that every   *)
(* channel but the two the link holds is closed (AllOthersClosed), that    *)
(* the numbers of the channels are the number of launchers and repairers   *)
(* (Numbered), and, for a link started once, that every launcher but the   *)
(* last has been received from (OnlyLastAlive).  The bound on launchers    *)
(* counts a repairer that holds an error as one more launcher (Budget).    *)
(* From the same invariant, a link implements the switch of LinkSwitch.    *)
(***************************************************************************)
EXTENDS TunnelLink, FiniteSetTheorems, TLAPS

\* Channels are numbered in the order they are made, and a goroutine exists
\* for each.
Numbered ==
    /\ stopCh <= launches
    /\ quitCh <= starts
    /\ closedStop \subseteq 1..launches
    /\ closedQuit \subseteq 1..starts
    /\ repairs <= launches
    /\ \A g \in Launchers : daemon[g] = "none" <=> g > launches
    /\ \A q \in Repairers : repairer[q] = "none" <=> q > starts

\* The link is open on both channels or on none, and those are not closed.
OpenTogether ==
    /\ stopCh = Nil <=> quitCh = Nil
    /\ stopCh \notin closedStop
    /\ quitCh \notin closedQuit

AllOthersClosed == \A g \in 1..launches : g \notin closedStop => g = stopCh

\* For a link started at most once.
OnlyLastAlive ==
    starts <= 1 =>
      /\ starts = 0 => launches = 0
      /\ \A g \in Launchers : g < launches => daemon[g] = "done"
      /\ \A q \in Repairers :
           repairer[q] \in {"backoff", "repair"} => daemon[launches] = "done"

IInv == TypeOK /\ Numbered /\ OpenTogether /\ AllOthersClosed

-----------------------------------------------------------------------------
\* A link just made by newTunnelLink satisfies the inductive invariant.
LEMMA InitIInv == Init => IInv
  BY BoundsAssumption
     DEF Init, IInv, TypeOK, Numbered, OpenTogether, AllOthersClosed, Nil,
         Launchers, Repairers, DaemonState, RepairerState, CallerState

\* Every step of a caller, a daemon or a repair goroutine keeps it: start()
\* and a repair open the next channel only over a closed one, and stop() closes
\* the open one.
LEMMA NextIInv == IInv /\ [Next]_vars => IInv'
  <1> SUFFICES ASSUME IInv, [Next]_vars PROVE IInv'
    OBVIOUS
  <1> USE BoundsAssumption DEF IInv, Nil, Launchers, Repairers, chans
  <1>1. ASSUME NEW c \in Callers, StartCheck(c)
        PROVE  IInv'
    <2>1. TypeOK'
      BY <1>1 DEF StartCheck, TypeOK, Numbered, DaemonState,
         RepairerState, CallerState
    <2>2. Numbered'
      BY <1>1 DEF StartCheck, TypeOK, Numbered
    <2>3. OpenTogether'
      BY <1>1 DEF StartCheck, TypeOK, Numbered, OpenTogether
    <2>4. AllOthersClosed'
      BY <1>1 DEF StartCheck, TypeOK, Numbered, OpenTogether, AllOthersClosed
    <2> QED BY <2>1, <2>2, <2>3, <2>4
  <1>2. ASSUME NEW c \in Callers, StartLocked(c), stopCh = Nil
        PROVE  IInv'
    <2>5. /\ launches + 1 \in Launchers
          /\ starts + 1 \in Repairers
          /\ launches' = launches + 1 /\ stopCh' = launches + 1
          /\ starts' = starts + 1 /\ quitCh' = starts + 1
          /\ closedStop' = closedStop /\ closedQuit' = closedQuit
          /\ repairs' = repairs
          /\ daemon' = [daemon EXCEPT ![launches + 1] = "running"]
          /\ repairer' = [repairer EXCEPT ![starts + 1] = "select"]
          /\ caller' = [caller EXCEPT ![c] = "idle"]
      BY <1>2 DEF StartLocked, OpenLink, Launch, TypeOK, Numbered
    <2>1. TypeOK'
      BY <2>5 DEF TypeOK, Numbered, DaemonState, RepairerState, CallerState
    <2>2. Numbered'
      BY <2>5 DEF TypeOK, Numbered
    <2>3. OpenTogether'
      BY <1>2 DEF StartLocked, OpenLink, Launch, TypeOK, Numbered, OpenTogether
    <2>4. AllOthersClosed'
      BY <1>2 DEF StartLocked, OpenLink, Launch, TypeOK, Numbered, OpenTogether, AllOthersClosed
    <2> QED BY <2>1, <2>2, <2>3, <2>4
  <1>3. ASSUME NEW c \in Callers, StartLocked(c), stopCh # Nil
        PROVE  IInv'
    <2>1. TypeOK'
      BY <1>3 DEF StartLocked, TypeOK, Numbered, DaemonState,
         RepairerState, CallerState
    <2>2. Numbered'
      BY <1>3 DEF StartLocked, TypeOK, Numbered
    <2>3. OpenTogether'
      BY <1>3 DEF StartLocked, TypeOK, Numbered, OpenTogether
    <2>4. AllOthersClosed'
      BY <1>3 DEF StartLocked, TypeOK, Numbered, OpenTogether, AllOthersClosed
    <2> QED BY <2>1, <2>2, <2>3, <2>4
  <1>4. ASSUME NEW c \in Callers, StopCheck(c)
        PROVE  IInv'
    <2>1. TypeOK'
      BY <1>4 DEF StopCheck, TypeOK, Numbered, DaemonState,
         RepairerState, CallerState
    <2>2. Numbered'
      BY <1>4 DEF StopCheck, TypeOK, Numbered
    <2>3. OpenTogether'
      BY <1>4 DEF StopCheck, TypeOK, Numbered, OpenTogether
    <2>4. AllOthersClosed'
      BY <1>4 DEF StopCheck, TypeOK, Numbered, OpenTogether, AllOthersClosed
    <2> QED BY <2>1, <2>2, <2>3, <2>4
  <1>5. ASSUME NEW c \in Callers, StopLocked(c), stopCh = Nil
        PROVE  IInv'
    <2>1. TypeOK'
      BY <1>5 DEF StopLocked, TypeOK, Numbered, DaemonState,
         RepairerState, CallerState
    <2>2. Numbered'
      BY <1>5 DEF StopLocked, TypeOK, Numbered
    <2>3. OpenTogether'
      BY <1>5 DEF StopLocked, TypeOK, Numbered, OpenTogether
    <2>4. AllOthersClosed'
      BY <1>5 DEF StopLocked, TypeOK, Numbered, OpenTogether, AllOthersClosed
    <2> QED BY <2>1, <2>2, <2>3, <2>4
  <1>6. ASSUME NEW c \in Callers, StopLocked(c), stopCh # Nil
        PROVE  IInv'
    <2>5. /\ stopCh \in 1..launches /\ quitCh \in 1..starts
          /\ stopCh' = Nil /\ quitCh' = Nil
          /\ closedStop' = closedStop \cup {stopCh}
          /\ closedQuit' = closedQuit \cup {quitCh}
          /\ UNCHANGED <<launches, starts, repairs, daemon, repairer>>
          /\ caller' = [caller EXCEPT ![c] = "idle"]
      BY <1>6 DEF StopLocked, CloseLink, TypeOK, Numbered, OpenTogether
    <2>1. TypeOK'
      BY <2>5 DEF TypeOK, CallerState
    <2>2. Numbered'
      BY <2>5 DEF TypeOK, Numbered
    <2>3. OpenTogether'
      BY <1>6 DEF StopLocked, CloseLink, TypeOK, Numbered, OpenTogether
    <2>4. AllOthersClosed'
      BY <1>6 DEF StopLocked, CloseLink, TypeOK, Numbered, OpenTogether, AllOthersClosed
    <2> QED BY <2>1, <2>2, <2>3, <2>4
  <1>7. ASSUME NEW g \in Launchers, DaemonNext(g)
        PROVE  IInv'
    <2>1. TypeOK'
      BY <1>7, ZenonT(60) DEF DaemonNext, DaemonFails, DaemonStops, TypeOK, Numbered, DaemonState,
         RepairerState, CallerState
    <2>2. Numbered'
      BY <1>7, ZenonT(60) DEF DaemonNext, DaemonFails, DaemonStops, TypeOK, Numbered
    <2>3. OpenTogether'
      BY <1>7 DEF DaemonNext, DaemonFails, DaemonStops, TypeOK, Numbered, OpenTogether
    <2>4. AllOthersClosed'
      BY <1>7 DEF DaemonNext, DaemonFails, DaemonStops, TypeOK, Numbered, OpenTogether, AllOthersClosed
    <2> QED BY <2>1, <2>2, <2>3, <2>4
  <1>8. ASSUME NEW q \in Repairers, NEW g \in Launchers,
               ReceiveError(q, g) \/ ReceiveNil(q, g)
        PROVE  IInv'
    <2>1. TypeOK'
      BY <1>8, ZenonT(60) DEF ReceiveError, ReceiveNil, Receive, TypeOK, Numbered, DaemonState,
         RepairerState, CallerState
    <2>2. Numbered'
      BY <1>8, ZenonT(60) DEF ReceiveError, ReceiveNil, Receive, TypeOK, Numbered
    <2>3. OpenTogether'
      BY <1>8 DEF ReceiveError, ReceiveNil, Receive, TypeOK, Numbered, OpenTogether
    <2>4. AllOthersClosed'
      BY <1>8 DEF ReceiveError, ReceiveNil, Receive, TypeOK, Numbered, OpenTogether, AllOthersClosed
    <2> QED BY <2>1, <2>2, <2>3, <2>4
  <1>9. ASSUME NEW q \in Repairers,
               QuitSelected(q) \/ RepairCanceled(q) \/ DelayElapsed(q)
        PROVE  IInv'
    <2>1. TypeOK'
      BY <1>9 DEF QuitSelected, RepairCanceled, DelayElapsed, TypeOK, Numbered, DaemonState,
         RepairerState, CallerState
    <2>2. Numbered'
      BY <1>9, ZenonT(60) DEF QuitSelected, RepairCanceled, DelayElapsed, TypeOK, Numbered
    <2>3. OpenTogether'
      BY <1>9 DEF QuitSelected, RepairCanceled, DelayElapsed, TypeOK, Numbered, OpenTogether
    <2>4. AllOthersClosed'
      BY <1>9 DEF QuitSelected, RepairCanceled, DelayElapsed, TypeOK, Numbered, OpenTogether, AllOthersClosed
    <2> QED BY <2>1, <2>2, <2>3, <2>4
  <1>10. ASSUME NEW q \in Repairers, Repair(q), stopCh = Nil
        PROVE  IInv'
    <2>1. TypeOK'
      BY <1>10 DEF Repair, TypeOK, Numbered, DaemonState,
         RepairerState, CallerState
    <2>2. Numbered'
      BY <1>10 DEF Repair, TypeOK, Numbered
    <2>3. OpenTogether'
      BY <1>10 DEF Repair, TypeOK, Numbered, OpenTogether
    <2>4. AllOthersClosed'
      BY <1>10 DEF Repair, TypeOK, Numbered, OpenTogether, AllOthersClosed
    <2> QED BY <2>1, <2>2, <2>3, <2>4
  <1>11. ASSUME NEW q \in Repairers, Repair(q), stopCh # Nil
        PROVE  IInv'
    <2>5. /\ launches + 1 \in Launchers
          /\ repairs + 1 \in 0..MaxLaunches
          /\ stopCh \in 1..launches
          /\ launches' = launches + 1 /\ stopCh' = launches + 1
          /\ closedStop' = closedStop \cup {stopCh}
          /\ repairs' = repairs + 1
          /\ daemon' = [daemon EXCEPT ![launches + 1] = "running"]
          /\ repairer' = [repairer EXCEPT ![q] = "select"]
          /\ repairer[q] = "repair"
          /\ UNCHANGED <<quitCh, closedQuit, starts, caller>>
      BY <1>11 DEF Repair, Relaunch, Launch, TypeOK, Numbered
    <2>1. TypeOK'
      BY <2>5 DEF TypeOK, DaemonState, RepairerState
    <2>2. Numbered'
      BY <2>5 DEF TypeOK, Numbered
    <2>3. OpenTogether'
      BY <1>11 DEF Repair, Relaunch, Launch, TypeOK, Numbered, OpenTogether
    <2>4. AllOthersClosed'
      BY <1>11 DEF Repair, Relaunch, Launch, TypeOK, Numbered, OpenTogether, AllOthersClosed
    <2> QED BY <2>1, <2>2, <2>3, <2>4
  <1>12. CASE UNCHANGED vars
    BY <1>12 DEF vars, TypeOK, Numbered, OpenTogether, AllOthersClosed
  <1> QED
    BY <1>1, <1>2, <1>3, <1>4, <1>5, <1>6, <1>7, <1>8, <1>9, <1>10, <1>11, <1>12
       DEF Next, CallerNext, RepairerNext

\* The inductive invariant of start(), stop(), launchFunc and repairFunc.
THEOREM Invariance == Spec => []IInv
  BY InitIInv, NextIInv, PTL DEF Spec

\* The state of the link stays in its type: no channel that does not exist is
\* closed, and no launcher or repairer is numbered out of its bound.
THEOREM TypeCorrect == Spec => []TypeOK
  BY Invariance, PTL DEF IInv

\* A daemon of the link that was not told to stop is the one whose stop
\* channel the link holds, whatever start(), stop() and repairs did.
THEOREM OneOpenTunnelHolds == Spec => []OneOpenTunnel
  <1>1. IInv => OneOpenTunnel
    BY DEF IInv, TypeOK, Numbered, AllOthersClosed, OneOpenTunnel, Launchers
  <1> QED BY <1>1, Invariance, PTL

\* No close of stop() or of the repair goroutine panics.
THEOREM CloseSafeHolds == Spec => []CloseSafe
  <1>1. IInv => CloseSafe
    BY DEF IInv, OpenTogether, CloseSafe
  <1> QED BY <1>1, Invariance, PTL

\* Only start() opens a stopped link.
THEOREM NoRevivalHolds == Spec => NoRevival
  <1>1. IInv /\ [Next]_vars => [stopCh = Nil /\ stopCh' # Nil => starts' = starts + 1]_vars
    <2> SUFFICES ASSUME Next, stopCh = Nil, stopCh' # Nil
                 PROVE  starts' = starts + 1
      BY DEF vars
    <2> USE DEF chans
    <2>1. ASSUME NEW c \in Callers, CallerNext(c) PROVE starts' = starts + 1
      BY <2>1 DEF CallerNext, StartCheck, StartLocked, OpenLink, StopCheck, StopLocked
    <2>2. ASSUME NEW g \in Launchers, DaemonNext(g) PROVE FALSE
      BY <2>2 DEF DaemonNext, DaemonFails, DaemonStops
    <2>3. ASSUME NEW q \in Repairers, RepairerNext(q) PROVE FALSE
      BY <2>3 DEF RepairerNext, QuitSelected, ReceiveError, ReceiveNil, Receive,
         RepairCanceled, DelayElapsed, Repair
    <2> QED BY <2>1, <2>2, <2>3 DEF Next
  <1> QED BY <1>1, Invariance, PTL DEF Spec, NoRevival

-----------------------------------------------------------------------------
(* A link started once *)

\* A link just made by newTunnelLink has no launcher at all.
LEMMA InitOnlyLastAlive == Init => OnlyLastAlive
  BY DEF Init, OnlyLastAlive, Launchers, Repairers

\* repairFunc launches the next daemon only after it received the error of the
\* last one, so no step leaves two launchers unreceived.
LEMMA NextOnlyLastAlive ==
    IInv /\ OnlyLastAlive /\ [Next]_vars => OnlyLastAlive'
  <1> SUFFICES ASSUME IInv, OnlyLastAlive, [Next]_vars, starts' <= 1
               PROVE  OnlyLastAlive'
    BY DEF OnlyLastAlive
  <1> USE DEF IInv, TypeOK, Numbered, Nil, Launchers, Repairers, chans
  <1>1. ASSUME NEW c \in Callers, StartLocked(c), stopCh = Nil PROVE OnlyLastAlive'
    <2>1. starts = 0 /\ launches = 0
      BY <1>1 DEF StartLocked, OpenLink, OnlyLastAlive
    <2>2. launches' = 1 /\ starts' = 1
      BY <1>1, <2>1 DEF StartLocked, OpenLink, Launch
    <2>3. \A q \in Repairers : repairer[q] = "none"
      BY <2>1
    <2>4. \A q \in Repairers : repairer'[q] \notin {"backoff", "repair"}
      BY <1>1, <2>3 DEF StartLocked, OpenLink
    <2> QED BY <2>2, <2>4 DEF OnlyLastAlive
  <1>2. ASSUME NEW c \in Callers, StartLocked(c), stopCh # Nil PROVE OnlyLastAlive'
    BY <1>2 DEF StartLocked, OnlyLastAlive
  <1>3. ASSUME NEW c \in Callers, StartCheck(c) \/ StopCheck(c) \/ StopLocked(c)
        PROVE  OnlyLastAlive'
    BY <1>3, ZenonT(60) DEF StartCheck, StopCheck, StopLocked, OnlyLastAlive
  <1>4. ASSUME NEW g \in Launchers, DaemonNext(g) PROVE OnlyLastAlive'
    <2>1. PICK result \in {"errored", "returned"} :
            /\ daemon[g] = "running"
            /\ daemon' = [daemon EXCEPT ![g] = result]
            /\ UNCHANGED <<launches, starts, repairer>>
      BY <1>4 DEF DaemonNext, DaemonFails, DaemonStops
    <2>2. g = launches
      BY <2>1 DEF OnlyLastAlive
    <2>3. \A q \in Repairers : repairer[q] \notin {"backoff", "repair"}
      BY <2>1, <2>2 DEF OnlyLastAlive
    <2> QED BY <2>1, <2>2, <2>3 DEF OnlyLastAlive
  <1>5. ASSUME NEW q \in Repairers, NEW g \in Launchers,
               ReceiveError(q, g) \/ ReceiveNil(q, g)
        PROVE  OnlyLastAlive'
    <2>1. /\ daemon[g] \in {"errored", "returned"}
          /\ daemon' = [daemon EXCEPT ![g] = "done"]
          /\ UNCHANGED <<launches, starts>>
      BY <1>5 DEF ReceiveError, ReceiveNil, Receive
    <2>2. g = launches
      BY <2>1 DEF OnlyLastAlive
    <2>3. daemon'[launches'] = "done"
      BY <2>1, <2>2
    <2> QED BY <2>1, <2>2, <2>3 DEF OnlyLastAlive
  <1>6. ASSUME NEW q \in Repairers,
               QuitSelected(q) \/ RepairCanceled(q) \/ DelayElapsed(q)
        PROVE  OnlyLastAlive'
    BY <1>6 DEF QuitSelected, RepairCanceled, DelayElapsed, OnlyLastAlive
  <1>7. ASSUME NEW q \in Repairers, Repair(q), stopCh = Nil PROVE OnlyLastAlive'
    BY <1>7 DEF Repair, OnlyLastAlive
  <1>8. ASSUME NEW q \in Repairers, Repair(q), stopCh # Nil PROVE OnlyLastAlive'
    <2>1. /\ repairer[q] = "repair"
          /\ launches + 1 \in Launchers /\ launches' = launches + 1
          /\ daemon' = [daemon EXCEPT ![launches + 1] = "running"]
          /\ repairer' = [repairer EXCEPT ![q] = "select"]
          /\ starts' = starts
      BY <1>8, BoundsAssumption DEF Repair, Relaunch, Launch
    <2>2. \A r \in Repairers : repairer[r] # "none" => r = 1
      BY <2>1
    <2>3. daemon[launches] = "done"
      BY <2>1 DEF OnlyLastAlive
    <2>4. \A r \in Repairers : repairer'[r] \notin {"backoff", "repair"}
      BY <2>1, <2>2
    <2> QED BY <2>1, <2>3, <2>4 DEF OnlyLastAlive
  <1>9. CASE UNCHANGED vars
    BY <1>9 DEF vars, OnlyLastAlive
  <1> QED
    BY <1>1, <1>2, <1>3, <1>4, <1>5, <1>6, <1>7, <1>8, <1>9
       DEF Next, CallerNext, RepairerNext

\* A link that is started once, as the router does, never has its repair
\* goroutine close the stop channel of a daemon that has not ended.
THEOREM RepairOnlyDeadHolds == Spec => []RepairOnlyDead
  <1>1. IInv /\ OnlyLastAlive => RepairOnlyDead
    BY DEF IInv, TypeOK, Numbered, OnlyLastAlive, RepairOnlyDead, Launchers,
       Repairers, Nil
  <1> QED BY <1>1, Invariance, InitOnlyLastAlive, NextOnlyLastAlive, PTL DEF Spec
-----------------------------------------------------------------------------
(* The bound on daemon goroutines. *)

Busy == {q \in Repairers : repairer[q] \in {"backoff", "repair"}}

\* A received error is the licence for one relaunch, used at most once.
Budget == Cardinality(Live) + Cardinality(Busy) <= starts

\* The sets that are counted are finite.
LEMMA CountedFinite ==
    /\ IsFiniteSet(Live) /\ Cardinality(Live) \in Nat
    /\ IsFiniteSet(Busy) /\ Cardinality(Busy) \in Nat
  <1>1. IsFiniteSet(Launchers) /\ IsFiniteSet(Repairers)
    BY FS_Interval, BoundsAssumption DEF Launchers, Repairers
  <1>2. Live \subseteq Launchers /\ Busy \subseteq Repairers
    BY DEF Live, Busy
  <1>3. IsFiniteSet(Live) /\ IsFiniteSet(Busy)
    BY <1>1, <1>2, FS_Subset
  <1> QED BY <1>3, FS_CardinalityType

\* A link just made has no goroutine.
LEMMA InitBudget == Init => Budget
  <1> SUFFICES ASSUME Init PROVE Budget
    OBVIOUS
  <1>1. Live = {} /\ Busy = {}
    BY DEF Init, Live, Busy
  <1> QED BY <1>1, FS_EmptySet DEF Init, Budget

\* Every step keeps the budget: start() raises it with the launcher it adds,
\* an error moves from a launcher to a repairer, a repair moves it back.
LEMMA NextBudget == IInv /\ Budget /\ [Next]_vars => Budget'
  <1> SUFFICES ASSUME IInv, Budget, [Next]_vars PROVE Budget'
    OBVIOUS
  <1> USE DEF IInv, TypeOK
  <1>f. /\ IsFiniteSet(Live) /\ Cardinality(Live) \in Nat
        /\ IsFiniteSet(Busy) /\ Cardinality(Busy) \in Nat
        /\ starts \in Nat
    BY CountedFinite
  <1>n. launches + 1 \notin Live
    BY DEF Numbered, Live
  <1>1. ASSUME NEW c \in Callers, StartLocked(c), stopCh = Nil PROVE Budget'
    <2>1. /\ launches + 1 \in Launchers /\ starts + 1 \in Repairers
          /\ daemon' = [daemon EXCEPT ![launches + 1] = "running"]
          /\ repairer' = [repairer EXCEPT ![starts + 1] = "select"]
          /\ starts' = starts + 1
      BY <1>1, BoundsAssumption DEF StartLocked, OpenLink, Launch, Launchers, Repairers
    <2>2. Live' = Live \cup {launches + 1}
      BY <2>1 DEF Live
    <2>3. Busy' = Busy
      BY <2>1 DEF Busy, Numbered
    <2>4. Cardinality(Live') = Cardinality(Live) + 1
      BY <2>2, <1>f, <1>n, FS_AddElement
    <2> QED BY <2>1, <2>3, <2>4, <1>f DEF Budget
  <1>2. ASSUME daemon' = daemon, repairer' = repairer, starts' = starts PROVE Budget'
    BY <1>2 DEF Budget, Live, Busy
  <1>3. ASSUME NEW g \in Launchers, DaemonNext(g) PROVE Budget'
    <2>1. Live' = Live /\ Busy' = Busy /\ starts' = starts
      BY <1>3 DEF DaemonNext, DaemonFails, DaemonStops, Live, Busy, chans
    <2> QED BY <2>1 DEF Budget
  <1>4. ASSUME NEW q \in Repairers, NEW g \in Launchers,
               ReceiveError(q, g) \/ ReceiveNil(q, g)
        PROVE  Budget'
    <2>1. /\ g \in Live /\ starts' = starts
          /\ Live' = Live \ {g}
          /\ Busy' = Busy \/ Busy' = Busy \cup {q}
      BY <1>4 DEF ReceiveError, ReceiveNil, Receive, Live, Busy, chans
    <2>2. Cardinality(Live') = Cardinality(Live) - 1
      BY <2>1, <1>f, FS_RemoveElement
    <2>3. /\ q \notin Busy
          /\ Cardinality(Busy \cup {q}) = Cardinality(Busy) + 1
      <3>1. q \notin Busy
        BY <1>4 DEF ReceiveError, ReceiveNil, Receive, Busy
      <3> QED BY <3>1, <1>f, FS_AddElement
    <2>4. Cardinality(Busy') \in {Cardinality(Busy), Cardinality(Busy) + 1}
      BY <2>1, <2>3
    <2> QED BY <2>1, <2>2, <2>4, <1>f DEF Budget
  <1>5. ASSUME NEW q \in Repairers, QuitSelected(q) \/ DelayElapsed(q) PROVE Budget'
    <2>1. Live' = Live /\ Busy' = Busy /\ starts' = starts
      BY <1>5 DEF QuitSelected, DelayElapsed, Live, Busy, chans
    <2> QED BY <2>1 DEF Budget
  <1>6. ASSUME NEW q \in Repairers,
               RepairCanceled(q) \/ (Repair(q) /\ stopCh = Nil)
        PROVE  Budget'
    <2>1. Live' = Live /\ q \in Busy /\ Busy' = Busy \ {q} /\ starts' = starts
      BY <1>6 DEF RepairCanceled, Repair, Live, Busy, chans
    <2>2. Cardinality(Busy') = Cardinality(Busy) - 1
      BY <2>1, <1>f, FS_RemoveElement
    <2> QED BY <2>1, <2>2, <1>f DEF Budget
  <1>7. ASSUME NEW q \in Repairers, Repair(q), stopCh # Nil PROVE Budget'
    <2>1. /\ repairer[q] = "repair"
          /\ launches + 1 \in Launchers
          /\ daemon' = [daemon EXCEPT ![launches + 1] = "running"]
          /\ repairer' = [repairer EXCEPT ![q] = "select"]
          /\ starts' = starts
      BY <1>7, BoundsAssumption DEF Repair, Relaunch, Launch, Launchers
    <2>2. Live' = Live \cup {launches + 1}
      BY <2>1 DEF Live
    <2>3. q \in Busy /\ Busy' = Busy \ {q}
      BY <2>1 DEF Busy
    <2>4. Cardinality(Live') = Cardinality(Live) + 1
      BY <2>2, <1>f, <1>n, FS_AddElement
    <2>5. Cardinality(Busy') = Cardinality(Busy) - 1
      BY <2>3, <1>f, FS_RemoveElement
    <2> QED BY <2>1, <2>4, <2>5, <1>f DEF Budget
  <1>8. ASSUME NEW c \in Callers,
               \/ StartCheck(c) \/ StopCheck(c) \/ StopLocked(c)
               \/ StartLocked(c) /\ stopCh # Nil
        PROVE  Budget'
    BY <1>8, <1>2 DEF StartCheck, StopCheck, StopLocked, StartLocked, chans
  <1>9. CASE UNCHANGED vars
    BY <1>9, <1>2 DEF vars
  <1> QED
    BY <1>1, <1>3, <1>4, <1>5, <1>6, <1>7, <1>8, <1>9
       DEF Next, CallerNext, RepairerNext

\* However often it is repaired, a link never holds more daemon goroutines
\* than it was started: with the router, which starts it once, it leaks one.
THEOREM LaunchersBoundedHolds == Spec => []LaunchersBounded
  <1>1. IInv /\ Budget => LaunchersBounded
    BY CountedFinite DEF IInv, TypeOK, Budget, LaunchersBounded
  <1> QED BY <1>1, Invariance, InitBudget, NextBudget, PTL DEF Spec

-----------------------------------------------------------------------------
(* The link is a switch. *)

\* The open tunnel is the one of the stop channel that the link holds.
LEMMA OpenIsHeld ==
    ASSUME IInv
    PROVE  /\ Open = {g \in Launchers : g = stopCh /\ daemon[g] = "running"}
           /\ stopCh = Nil => Open = {}
  <1>1. ASSUME NEW g \in Launchers, daemon[g] = "running"
        PROVE  g \notin closedStop <=> g = stopCh
    BY <1>1 DEF IInv, TypeOK, Numbered, AllOthersClosed, OpenTogether, Launchers
  <1>2. Open = {g \in Launchers : g = stopCh /\ daemon[g] = "running"}
    BY <1>1 DEF Open
  <1> QED BY <1>2 DEF Launchers, Nil

\* A launch leaves the new tunnel as the only one that is open.
LEMMA LaunchOpens ==
    ASSUME IInv, IInv', Launch, launches < MaxLaunches
    PROVE  Open' = {launches + 1}
  <1>1. launches + 1 \in Launchers /\ stopCh' = launches + 1
        /\ daemon'[launches + 1] = "running"
    BY BoundsAssumption DEF Launch, IInv, TypeOK, Launchers
  <1>2. (IInv => Open = {g \in Launchers : g = stopCh /\ daemon[g] = "running"})'
    BY OpenIsHeld, PTL
  <1> QED BY <1>1, <1>2

\* start(), stop() and repairs are the steps of a switch that is on while the
\* link holds a stop channel; everything else its goroutines do does not show,
\* but for the end of the open tunnel.
THEOREM SwitchRefinement == Spec => ImplementsSwitch
  <1> DEFINE abstract == <<stopCh # Nil, starts, launches, Open>>
             Step == Switch!Start \/ Switch!Stop \/ Switch!Fail \/ Switch!Replace
  <1>1. Init => Switch!SwitchInit
    BY DEF Init, Switch!SwitchInit, Open, Nil
  <1>2. ASSUME IInv, IInv', [Next]_vars PROVE [Step]_abstract
    <2> USE DEF chans
    <2>1. ASSUME NEW c \in Callers, StartLocked(c), stopCh = Nil PROVE Switch!Start
      <3>1. /\ starts' = starts + 1 /\ launches' = launches + 1 /\ stopCh' = launches + 1
            /\ Launch /\ launches < MaxLaunches /\ launches \in Nat
        BY <1>2, <2>1 DEF StartLocked, OpenLink, Launch, IInv, TypeOK
      <3>2. Open' = {launches + 1}
        BY <1>2, <3>1, LaunchOpens
      <3> QED BY <2>1, <3>1, <3>2 DEF Switch!Start, Switch!NewTunnel, Nil
    <2>2. ASSUME NEW c \in Callers, StopLocked(c), stopCh # Nil PROVE Switch!Stop
      <3>1. stopCh' = Nil /\ UNCHANGED <<starts, launches>>
        BY <2>2 DEF StopLocked
      <3>2. (IInv => (stopCh = Nil => Open = {}))'
        BY OpenIsHeld, PTL
      <3> QED BY <1>2, <2>2, <3>1, <3>2 DEF Switch!Stop
    <2>3. ASSUME NEW q \in Repairers, Repair(q), stopCh # Nil PROVE Switch!Replace
      <3>1. /\ starts' = starts /\ launches' = launches + 1 /\ stopCh' = launches + 1
            /\ Launch /\ launches < MaxLaunches /\ launches \in Nat
        BY <1>2, <2>3 DEF Repair, Relaunch, Launch, IInv, TypeOK
      <3>2. Open' = {launches + 1}
        BY <1>2, <3>1, LaunchOpens
      <3> QED BY <2>3, <3>1, <3>2 DEF Switch!Replace, Switch!NewTunnel, Nil
    <2>4. ASSUME NEW g \in Launchers, DaemonNext(g)
          PROVE  Switch!Fail \/ UNCHANGED abstract
      <3>1. /\ daemon[g] = "running" /\ UNCHANGED <<stopCh, starts, launches, closedStop>>
            /\ \A h \in Launchers : daemon'[h] = "running" <=> h # g /\ daemon[h] = "running"
        BY <1>2, <2>4 DEF DaemonNext, DaemonFails, DaemonStops, IInv, TypeOK
      <3>2. Open' = Open \ {g}
        BY <3>1 DEF Open
      <3>3. \A h \in Open : h = stopCh
        BY <1>2, OpenIsHeld
      <3>4. CASE g \in Open
        BY <3>1, <3>2, <3>3, <3>4 DEF Switch!Fail
      <3>5. CASE g \notin Open
        BY <3>1, <3>2, <3>5
      <3> QED BY <3>4, <3>5
    <2>5. ASSUME UNCHANGED <<stopCh, starts, launches, closedStop>>,
                 \A h \in Launchers : daemon'[h] = "running" <=> daemon[h] = "running"
          PROVE  UNCHANGED abstract
      BY <2>5 DEF Open
    <2>6. ASSUME NEW c \in Callers,
                 \/ StartCheck(c) \/ StopCheck(c)
                 \/ StartLocked(c) /\ stopCh # Nil
                 \/ StopLocked(c) /\ stopCh = Nil
          PROVE  UNCHANGED abstract
      BY <2>5, <2>6 DEF StartCheck, StopCheck, StartLocked, StopLocked
    <2>7. ASSUME NEW q \in Repairers,
                 \/ QuitSelected(q) \/ RepairCanceled(q) \/ DelayElapsed(q)
                 \/ Repair(q) /\ stopCh = Nil
          PROVE  UNCHANGED abstract
      BY <2>5, <2>7 DEF QuitSelected, RepairCanceled, DelayElapsed, Repair
    <2>8. ASSUME NEW q \in Repairers, NEW g \in Launchers,
                 ReceiveError(q, g) \/ ReceiveNil(q, g)
          PROVE  UNCHANGED abstract
      BY <1>2, <2>5, <2>8 DEF ReceiveError, ReceiveNil, Receive, IInv, TypeOK
    <2>9. CASE UNCHANGED vars
      BY <2>5, <2>9 DEF vars
    <2> HIDE DEF abstract
    <2>10. ASSUME NEW c \in Callers, CallerNext(c) PROVE Step \/ UNCHANGED abstract
      BY <2>1, <2>2, <2>6, <2>10 DEF CallerNext
    <2>11. ASSUME NEW q \in Repairers, RepairerNext(q) PROVE Step \/ UNCHANGED abstract
      BY <2>3, <2>7, <2>8, <2>11 DEF RepairerNext
    <2>12. ASSUME NEW g \in Launchers, DaemonNext(g) PROVE Step \/ UNCHANGED abstract
      BY <2>4, <2>12
    <2> HIDE DEF Step
    <2> QED BY <1>2, <2>9, <2>10, <2>11, <2>12 DEF Next
  <1> QED BY <1>1, <1>2, Invariance, PTL DEF Spec, ImplementsSwitch, Switch!SwitchSpec
=============================================================================
