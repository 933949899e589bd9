---------------------------- MODULE RouterProofs ----------------------------
(***************************************************************************)
(* Proofs about Router, for every set of ingresses, rules, configurations, *)
(* workers and calls.                                                      *)
(*                                                                         *)
(* HeldRuns and NoOrphan hold together only: a delete turns held links     *)
(* into awaited ones, so the invariant also says that a link awaited by a  *)
(* worker is an older one than the link items holds (Waiting), and that    *)
(* links are numbered in the order they are made (Numbered).               *)
(***************************************************************************)
EXTENDS Router, TLAPS

\* A link is started or discarded when it is made, and the held one is among
\* the made ones.
Numbered ==
    /\ \A k \in Keys, r \in Rules : links[k][r] <= made[k][r]
    /\ \A l \in LinkIds : status[l] = "none" <=> l[3] > made[l[1]][l[2]]

\* items holds a link for the rules that have a configuration.
Configured ==
    \A k \in Keys, r \in Rules : links[k][r] = NoLink <=> config[k][r] = NoTunnel

\* A link awaited by a worker was made and is not held any more; a worker that
\* awaits links makes no call.
Waiting ==
    /\ \A w \in Workers : \A l \in waits[w] :
         /\ l[3] <= made[l[1]][l[2]]
         /\ l[3] # links[l[1]][l[2]]
    /\ \A w \in Workers : req[w] # NoRequest => waits[w] = {}

IInv == TypeOK /\ Numbered /\ Configured /\ Waiting /\ HeldRuns /\ NoOrphan

-----------------------------------------------------------------------------
\* A link id is its ingress, its rule and its number.
LEMMA LinkIdParts ==
    \A l \in LinkIds : /\ l[1] \in Keys /\ l[2] \in Rules /\ l[3] \in 1..MaxMade
                       /\ l = <<l[1], l[2], l[3]>>
  BY DEF LinkIds

\* And conversely.
LEMMA LinkIdOf ==
    \A k \in Keys, r \in Rules, n \in 1..MaxMade :
      /\ <<k, r, n>> \in LinkIds
      /\ <<k, r, n>>[1] = k /\ <<k, r, n>>[2] = r /\ <<k, r, n>>[3] = n
  BY DEF LinkIds

\* A link is the held one when its number is that of items.
LEMMA HeldNumber ==
    \A l \in LinkIds : l = Held(l[1], l[2]) <=> l[3] = links[l[1]][l[2]]
  BY LinkIdParts DEF Held

\* The arguments of an update.
LEMMA UpdateArgument ==
    ASSUME NEW q \in Requests, q.op \in {"updateRoute", "updateByKindRoutes"}
    PROVE  q.routes \in UNION {[ks -> Route] : ks \in SUBSET Keys}
  <1>1. q \in UpdateCall
    BY RouterAssumption DEF UpdateCall, DeleteCall, DeleteByKindCall
  <1> QED BY <1>1 DEF UpdateCall

\* No operation on a router just made: nothing is held and nothing awaited.
LEMMA InitIInv == Init => IInv
  <1> SUFFICES ASSUME Init PROVE IInv
    OBVIOUS
  <1> USE RouterAssumption DEF Init, NoLink
  <1>1. TypeOK
    BY DEF TypeOK, NoTable, NoRoute, Route, Status
  <1>2. Numbered
    BY LinkIdParts DEF Numbered
  <1>3. Configured
    BY DEF Configured, NoTable, NoRoute
  <1>4. Waiting /\ HeldRuns /\ NoOrphan
    BY DEF Waiting, HeldRuns, NoOrphan
  <1> QED BY <1>1, <1>2, <1>3, <1>4 DEF IInv

-----------------------------------------------------------------------------
(* One update *)

\* What unsafeUpdateRoute does to one rule of one ingress: the rule is not
\* touched, loses its link, keeps it, or gets the one just made.
Untouched(k, r) ==
    /\ links'[k][r] = links[k][r] /\ config'[k][r] = config[k][r]
    /\ made'[k][r] = made[k][r]
    /\ \A n \in 1..MaxMade : status'[<<k, r, n>>] = status[<<k, r, n>>]

Lost(k, r) ==
    /\ links'[k][r] = NoLink /\ config'[k][r] = NoTunnel
    /\ made'[k][r] = made[k][r]
    /\ \A n \in 1..MaxMade :
         status'[<<k, r, n>>] = IF n = links[k][r] THEN "stopped" ELSE status[<<k, r, n>>]

Kept(k, r) ==
    /\ links[k][r] # NoLink /\ links'[k][r] = links[k][r] /\ config'[k][r] = config[k][r]
    /\ made[k][r] < MaxMade /\ made'[k][r] = made[k][r] + 1
    /\ \A n \in 1..MaxMade :
         status'[<<k, r, n>>] = IF n = made[k][r] + 1 THEN "new" ELSE status[<<k, r, n>>]

Made(k, r) ==
    /\ links'[k][r] = made[k][r] + 1
    /\ config'[k][r] \in Configs
    /\ links[k][r] # NoLink => config'[k][r] # config[k][r]
    /\ made[k][r] < MaxMade /\ made'[k][r] = made[k][r] + 1
    /\ \A n \in 1..MaxMade :
         status'[<<k, r, n>>] = IF n = made[k][r] + 1 THEN "running"
                                ELSE IF n = links[k][r] THEN "stopped"
                                ELSE status[<<k, r, n>>]

\* An update of some routes does one of these four things to every rule.
LEMMA UpdateCases ==
    ASSUME TypeOK, NEW new \in UNION {[ks -> Route] : ks \in SUBSET Keys}, ApplyUpdate(new),
           NEW k \in Keys, NEW r \in Rules
    PROVE  Untouched(k, r) \/ Lost(k, r) \/ Kept(k, r) \/ Made(k, r)
  <1>1. DOMAIN new \subseteq Keys /\ \A i \in DOMAIN new : new[i] \in Route
    OBVIOUS
  <1> DEFINE c == new[k][r]
  <1>2. \A n \in 1..MaxMade :
          /\ <<k, r, n>> \in LinkIds
          /\ <<k, r, n>>[1] = k /\ <<k, r, n>>[2] = r /\ <<k, r, n>>[3] = n
          /\ <<k, r, n>> = Held(k, r) <=> n = links[k][r]
    BY LinkIdOf DEF Held
  <1>3. \A n \in 1..MaxMade :
          status'[<<k, r, n>>] =
            IF k \in DOMAIN new
            THEN IF c # NoTunnel /\ n = made[k][r] + 1
                 THEN IF Keeps(k, r, c) THEN "new" ELSE "running"
                 ELSE IF n = links[k][r] /\ ~Keeps(k, r, c) THEN "stopped"
                 ELSE status[<<k, r, n>>]
            ELSE status[<<k, r, n>>]
    BY <1>2 DEF ApplyUpdate, UpdatedStatus, NextNumber
  <1>4. /\ links'[k][r] = IF k \in DOMAIN new
                          THEN IF c = NoTunnel THEN NoLink
                               ELSE IF Keeps(k, r, c) THEN links[k][r] ELSE made[k][r] + 1
                          ELSE links[k][r]
        /\ config'[k][r] = IF k \in DOMAIN new THEN c ELSE config[k][r]
        /\ made'[k][r] = IF k \in DOMAIN new /\ c # NoTunnel THEN made[k][r] + 1
                                                              ELSE made[k][r]
        /\ k \in DOMAIN new /\ c # NoTunnel => made[k][r] < MaxMade
    BY DEF ApplyUpdate, UpdatedLink, NextNumber, Replace
  <1> HIDE DEF c
  <1>5. CASE k \notin DOMAIN new
    BY <1>3, <1>4, <1>5 DEF Untouched
  <1>6. CASE k \in DOMAIN new /\ c = NoTunnel
    BY <1>3, <1>4, <1>6 DEF Lost, Keeps
  <1>7. CASE k \in DOMAIN new /\ c # NoTunnel /\ Keeps(k, r, c)
    <2>1. links[k][r] # NoLink /\ config[k][r] = c /\ links[k][r] \in 0..MaxMade
      BY <1>7 DEF Keeps, Equal, TypeOK
    <2> QED BY <1>3, <1>4, <1>7, <2>1 DEF Kept
  <1>8. CASE k \in DOMAIN new /\ c # NoTunnel /\ ~Keeps(k, r, c)
    <2>1. c \in Configs
      BY <1>1, <1>8 DEF Route, c
    <2>2. links[k][r] # NoLink => config[k][r] # c
      BY <1>8 DEF Keeps, Equal
    <2> QED BY <1>3, <1>4, <1>8, <2>1, <2>2 DEF Made
  <1> QED BY <1>5, <1>6, <1>7, <1>8

\* An update keeps the invariant.
LEMMA UpdateIInv ==
    ASSUME IInv, NEW new \in UNION {[ks -> Route] : ks \in SUBSET Keys}, ApplyUpdate(new),
           UNCHANGED waits, req' \in [Workers -> Requests \cup {NoRequest}],
           \A w \in Workers : req'[w] # NoRequest => req[w] # NoRequest
    PROVE  IInv'
  <1> USE RouterAssumption DEF NoLink
  <1>1. \A k \in Keys, r \in Rules :
          Untouched(k, r) \/ Lost(k, r) \/ Kept(k, r) \/ Made(k, r)
    BY UpdateCases DEF IInv
  <1>2. \A k \in Keys, r \in Rules :
          /\ links[k][r] \in 0..MaxMade /\ made[k][r] \in 0..MaxMade
          /\ links[k][r] <= made[k][r]
          /\ config[k][r] \in Configs \cup {NoTunnel}
          /\ links[k][r] = NoLink <=> config[k][r] = NoTunnel
    BY DEF IInv, TypeOK, Numbered, Configured, Route
  <1>3. \A k \in Keys, r \in Rules, n \in 1..MaxMade :
          /\ status[<<k, r, n>>] \in Status
          /\ status[<<k, r, n>>] = "none" <=> n > made[k][r]
    <2> TAKE k \in Keys, r \in Rules, n \in 1..MaxMade
    <2> DEFINE l == <<k, r, n>>
    <2>1. l \in LinkIds /\ l[1] = k /\ l[2] = r /\ l[3] = n
      BY LinkIdOf
    <2> HIDE DEF l
    <2>2. status[l] \in Status /\ (status[l] = "none" <=> l[3] > made[l[1]][l[2]])
      BY <2>1 DEF IInv, TypeOK, Numbered
    <2> QED BY <2>1, <2>2 DEF l
  <1>4. \A k \in Keys, r \in Rules :
          /\ links'[k][r] \in 0..MaxMade /\ made'[k][r] \in 0..MaxMade
          /\ links'[k][r] <= made'[k][r]
          /\ made[k][r] <= made'[k][r]
          /\ config'[k][r] \in Configs \cup {NoTunnel}
          /\ links'[k][r] = NoLink <=> config'[k][r] = NoTunnel
    BY <1>1, <1>2, RoutesAssumption DEF Untouched, Lost, Kept, Made
  <1>5. \A k \in Keys, r \in Rules, n \in 1..MaxMade :
          /\ status'[<<k, r, n>>] \in Status
          /\ status'[<<k, r, n>>] = "none" <=> n > made'[k][r]
    <2> TAKE k \in Keys, r \in Rules, n \in 1..MaxMade
    <2> DEFINE old == status[<<k, r, n>>]
               new_ == status'[<<k, r, n>>]
    <2>1. old \in Status /\ (old = "none" <=> n > made[k][r])
      BY <1>3
    <2>2. links[k][r] <= made[k][r] /\ made[k][r] \in Nat /\ links[k][r] \in Nat
      BY <1>2
    <2>3. CASE Untouched(k, r)
      BY <2>1, <2>3 DEF Untouched
    <2>4. CASE Lost(k, r)
      <3>1. /\ new_ = IF n = links[k][r] THEN "stopped" ELSE old
            /\ made'[k][r] = made[k][r]
        BY <2>4 DEF Lost
      <3> QED BY <3>1, <2>1, <2>2 DEF Status
    <2>5. CASE Kept(k, r)
      <3>1. /\ new_ = IF n = made[k][r] + 1 THEN "new" ELSE old
            /\ made'[k][r] = made[k][r] + 1
        BY <2>5 DEF Kept
      <3> QED BY <3>1, <2>1, <2>2 DEF Status
    <2>6. CASE Made(k, r)
      <3>1. /\ new_ = IF n = made[k][r] + 1 THEN "running"
                      ELSE IF n = links[k][r] THEN "stopped" ELSE old
            /\ made'[k][r] = made[k][r] + 1
        BY <2>6 DEF Made
      <3> QED BY <3>1, <2>1, <2>2 DEF Status
    <2> QED BY <1>1, <2>3, <2>4, <2>5, <2>6
  <1>6. TypeOK'
    <2>1. links' \in [Keys -> [Rules -> 0..MaxMade]] /\ made' \in [Keys -> [Rules -> 0..MaxMade]]
      BY <1>4 DEF ApplyUpdate
    <2>2. config' \in [Keys -> Route]
      <3>1. \A k \in DOMAIN new : new[k] \in Route
        OBVIOUS
      <3> QED BY <3>1 DEF ApplyUpdate, Replace, IInv, TypeOK
    <2>3. status' \in [LinkIds -> Status]
      <3>1. \A l \in LinkIds : status'[l] \in Status
        <4> TAKE l \in LinkIds
        <4> PICK k \in Keys, r \in Rules, n \in 1..MaxMade : l = <<k, r, n>>
          BY LinkIdParts
        <4> QED BY <1>5
      <3> QED BY <3>1 DEF ApplyUpdate
    <2> QED BY <2>1, <2>2, <2>3 DEF TypeOK, IInv
  <1>7. Numbered'
    BY <1>4, <1>5, LinkIdParts DEF Numbered
  <1>8. Configured'
    BY <1>4 DEF Configured
  <1>9. Waiting'
    <2> SUFFICES ASSUME NEW w \in Workers, NEW l \in waits[w]
                 PROVE  l[3] <= made'[l[1]][l[2]] /\ l[3] # links'[l[1]][l[2]]
      BY DEF Waiting, IInv
    <2>1. l \in LinkIds /\ l[3] <= made[l[1]][l[2]] /\ l[3] # links[l[1]][l[2]]
      BY DEF IInv, Waiting, TypeOK
    <2> QED BY <1>1, <1>2, <2>1, LinkIdParts DEF Untouched, Lost, Kept, Made
  <1>10. HeldRuns'
    <2> SUFFICES ASSUME NEW k \in Keys, NEW r \in Rules, links'[k][r] # NoLink
                 PROVE  status'[<<k, r, links'[k][r]>>] = "running"
      BY DEF HeldRuns, Held
    <2>1. links[k][r] # NoLink => status[<<k, r, links[k][r]>>] = "running"
      BY DEF IInv, HeldRuns, Held
    <2>2. links'[k][r] \in 1..MaxMade
      BY <1>4
    <2> QED BY <1>1, <1>2, <2>1, <2>2 DEF Untouched, Lost, Kept, Made
  <1>11. NoOrphan'
    <2> SUFFICES ASSUME NEW l \in LinkIds, status'[l] = "running"
                 PROVE  l[3] = links'[l[1]][l[2]] \/ \E w \in Workers : l \in waits[w]
      BY LinkIdParts DEF NoOrphan, Held
    <2> PICK k \in Keys, r \in Rules, n \in 1..MaxMade : l = <<k, r, n>>
      BY LinkIdParts
    <2>1. l[1] = k /\ l[2] = r /\ l[3] = n
      BY LinkIdOf
    <2>2. status[l] = "running" => n = links[k][r] \/ \E w \in Workers : l \in waits[w]
      BY <2>1, HeldNumber DEF IInv, NoOrphan
    <2> QED BY <1>1, <2>1, <2>2 DEF Untouched, Lost, Kept, Made
  <1> QED BY <1>6, <1>7, <1>8, <1>9, <1>10, <1>11 DEF IInv

-----------------------------------------------------------------------------
(* One delete, one stop, and the steps together *)

\* What a delete does to one rule of one ingress: nothing, or its link leaves
\* items for the worker's waits.
Dropped(w, k, r) ==
    /\ links[k][r] # NoLink
    /\ links'[k][r] = NoLink /\ config'[k][r] = NoTunnel
    /\ <<k, r, links[k][r]>> \in waits'[w]

Same(k, r) == links'[k][r] = links[k][r] /\ config'[k][r] = config[k][r]

\* Every rule of the pairs is dropped, the others stay.
LEMMA RemoveCases ==
    ASSUME TypeOK, NEW w \in Workers, NEW pairs \in SUBSET (Keys \X Rules), Remove(w, pairs),
           NEW k \in Keys, NEW r \in Rules
    PROVE  IF <<k, r>> \in pairs /\ links[k][r] # NoLink THEN Dropped(w, k, r) ELSE Same(k, r)
  <1> DEFINE hits == {p \in pairs : links[p[1]][p[2]] # NoLink}
  <1>1. <<k, r>> \in hits <=> <<k, r>> \in pairs /\ links[k][r] # NoLink
    OBVIOUS
  <1>2. /\ links'[k][r] = IF <<k, r>> \in hits THEN NoLink ELSE links[k][r]
        /\ config'[k][r] = IF <<k, r>> \in hits THEN NoTunnel ELSE config[k][r]
        /\ waits'[w] = {Held(p[1], p[2]) : p \in hits}
    BY DEF Remove, TypeOK
  <1>3. <<k, r>> \in hits => Held(k, r) \in waits'[w]
    BY <1>2
  <1> QED BY <1>1, <1>2, <1>3 DEF Dropped, Same, Held

\* What a worker awaits after a delete was held before it.
LEMMA RemoveWaits ==
    ASSUME TypeOK, NEW w \in Workers, NEW pairs \in SUBSET (Keys \X Rules), Remove(w, pairs),
           NEW l \in waits'[w]
    PROVE  \E k \in Keys, r \in Rules : /\ <<k, r>> \in pairs /\ links[k][r] # NoLink
                                        /\ l = <<k, r, links[k][r]>>
  <1>1. PICK p \in pairs : links[p[1]][p[2]] # NoLink /\ l = Held(p[1], p[2])
    BY DEF Remove, TypeOK
  <1>2. p[1] \in Keys /\ p[2] \in Rules /\ p = <<p[1], p[2]>>
    OBVIOUS
  <1> QED BY <1>1, <1>2 DEF Held

\* A delete keeps the invariant.
LEMMA RemoveIInv ==
    ASSUME IInv, NEW w \in Workers, NEW pairs \in SUBSET (Keys \X Rules), Remove(w, pairs),
           req[w] # NoRequest, req' = [req EXCEPT ![w] = NoRequest]
    PROVE  IInv'
  <1> USE RouterAssumption DEF NoLink
  <1>1. \A k \in Keys, r \in Rules : Dropped(w, k, r) \/ Same(k, r)
    BY RemoveCases DEF IInv
  <1>2. \A k \in Keys, r \in Rules :
          links[k][r] \in 0..MaxMade /\ links[k][r] <= made[k][r] /\ made[k][r] \in Nat
    BY DEF IInv, TypeOK, Numbered
  <1>3. /\ UNCHANGED <<made, status>>
        /\ \A v \in Workers : v # w => waits'[v] = waits[v]
        /\ waits[w] = {}
    BY DEF Remove, IInv, TypeOK, Waiting
  <1>10. \A k \in Keys, r \in Rules : links'[k][r] \in {links[k][r], 0}
    BY <1>1 DEF Dropped, Same
  <1>4. \A l \in waits'[w] : /\ l \in LinkIds
                             /\ l[3] <= made[l[1]][l[2]] /\ links'[l[1]][l[2]] = NoLink
    <2> TAKE l \in waits'[w]
    <2>1. PICK k \in Keys, r \in Rules : /\ <<k, r>> \in pairs /\ links[k][r] # NoLink
                                         /\ l = <<k, r, links[k][r]>>
      BY RemoveWaits, SMTT(60) DEF IInv
    <2>2. Dropped(w, k, r)
      BY <2>1, RemoveCases DEF IInv
    <2>3. links[k][r] \in 1..MaxMade
      BY <1>2, <2>1
    <2>4. l \in LinkIds /\ l[1] = k /\ l[2] = r /\ l[3] = links[k][r]
      BY <2>1, <2>3, LinkIdOf
    <2> QED BY <1>2, <2>2, <2>4 DEF Dropped
  <1>5. TypeOK'
    <2>1. links' \in [Keys -> [Rules -> 0..MaxMade]] /\ config' \in [Keys -> Route]
      BY DEF Remove, Route, IInv, TypeOK
    <2>2. waits' \in [Workers -> SUBSET LinkIds]
      BY <1>4 DEF Remove, IInv, TypeOK
    <2> QED BY <1>3, <2>1, <2>2 DEF IInv, TypeOK
  <1>6. Numbered' /\ Configured'
    <2>1. \A k \in Keys, r \in Rules : links'[k][r] <= made'[k][r]
      BY <1>2, <1>3, <1>10
    <2>2. \A l \in LinkIds : status'[l] = "none" <=> l[3] > made'[l[1]][l[2]]
      BY <1>3 DEF IInv, Numbered
    <2>3. Configured'
      <3> SUFFICES ASSUME NEW k \in Keys, NEW r \in Rules
                   PROVE  links'[k][r] = NoLink <=> config'[k][r] = NoTunnel
        BY DEF Configured
      <3>1. CASE Dropped(w, k, r)
        BY <3>1 DEF Dropped
      <3>2. CASE Same(k, r)
        BY <3>2 DEF Same, IInv, Configured
      <3> QED BY <1>1, <3>1, <3>2
    <2> QED BY <2>1, <2>2, <2>3 DEF Numbered
  <1>7. Waiting'
    <2>1. ASSUME NEW v \in Workers, NEW l \in waits'[v]
          PROVE  l[3] <= made'[l[1]][l[2]] /\ l[3] # links'[l[1]][l[2]]
      <3>1. CASE v = w
        BY <1>3, <1>4, <3>1, LinkIdParts
      <3>2. CASE v # w
        <4>1. l \in LinkIds /\ l[3] <= made[l[1]][l[2]] /\ l[3] # links[l[1]][l[2]]
          BY <1>3, <3>2 DEF IInv, Waiting, TypeOK
        <4>2. l[1] \in Keys /\ l[2] \in Rules /\ l[3] \in 1..MaxMade
          BY <4>1, LinkIdParts
        <4> QED BY <1>3, <1>10, <4>1, <4>2
      <3> QED BY <3>1, <3>2
    <2>2. ASSUME NEW v \in Workers, req'[v] # NoRequest PROVE waits'[v] = {}
      BY <1>3, <2>2 DEF IInv, Waiting, TypeOK
    <2> QED BY <2>1, <2>2 DEF Waiting
  <1>8. HeldRuns'
    <2> SUFFICES ASSUME NEW k \in Keys, NEW r \in Rules, links'[k][r] # NoLink
                 PROVE  status'[<<k, r, links'[k][r]>>] = "running"
      BY DEF HeldRuns, Held
    <2>1. links'[k][r] = links[k][r]
      BY <1>10
    <2> QED BY <1>3, <2>1 DEF IInv, HeldRuns, Held
  <1>9. NoOrphan'
    <2> SUFFICES ASSUME NEW l \in LinkIds, status[l] = "running"
                 PROVE  l[3] = links'[l[1]][l[2]] \/ \E v \in Workers : l \in waits'[v]
      BY <1>3, LinkIdParts DEF NoOrphan, Held
    <2>1. l[3] = links[l[1]][l[2]] \/ \E v \in Workers : l \in waits[v]
      BY HeldNumber DEF IInv, NoOrphan
    <2>2. CASE l[3] = links[l[1]][l[2]]
      BY <1>1, <2>2, LinkIdParts DEF Dropped, Same
    <2>3. CASE \E v \in Workers : l \in waits[v]
      BY <1>3, <2>3
    <2> QED BY <2>1, <2>2, <2>3
  <1> QED BY <1>5, <1>6, <1>7, <1>8, <1>9 DEF IInv

\* Every step of a worker or a stop goroutine keeps the invariant.
LEMMA NextIInv == IInv /\ [Next]_vars => IInv'
  <1> SUFFICES ASSUME IInv, [Next]_vars PROVE IInv'
    OBVIOUS
  <1>1. ASSUME NEW w \in Workers, Call(w) PROVE IInv'
    <2>1. PICK q \in Requests : req' = [req EXCEPT ![w] = q]
      BY <1>1 DEF Call
    <2>2. TypeOK' /\ Waiting'
      BY <1>1, <2>1 DEF Call, IInv, TypeOK, Waiting
    <2> QED BY <1>1, <2>2 DEF Call, IInv, Numbered, Configured, HeldRuns, NoOrphan, Held
  <1>2. ASSUME NEW w \in Workers, updateRoute(w) \/ updateByKindRoutes(w) PROVE IInv'
    <2>1. /\ req[w] \in Requests /\ req[w].op \in {"updateRoute", "updateByKindRoutes"}
          /\ req' = [req EXCEPT ![w] = NoRequest]
          /\ ApplyUpdate(req[w].routes) /\ UNCHANGED waits
      BY <1>2 DEF updateRoute, updateByKindRoutes, Takes, IInv, TypeOK
    <2>2. /\ req' \in [Workers -> Requests \cup {NoRequest}]
          /\ \A v \in Workers : req'[v] # NoRequest => req[v] # NoRequest
      BY <2>1 DEF IInv, TypeOK
    <2> QED BY <2>1, <2>2, UpdateArgument, UpdateIInv
  <1>3. ASSUME NEW w \in Workers, deleteByRoute(w) \/ deleteByKindKeys(w) PROVE IInv'
    <2>1. PICK pairs \in SUBSET (Keys \X Rules) :
            /\ Remove(w, pairs)
            /\ req[w] # NoRequest /\ req' = [req EXCEPT ![w] = NoRequest]
      BY <1>3 DEF deleteByRoute, deleteByKindKeys, Takes
    <2> QED BY <2>1, RemoveIInv
  <1>4. ASSUME NEW w \in Workers, NEW l \in waits[w], stopLinkFunc(w, l) PROVE IInv'
    <2>1. l \in LinkIds /\ l[3] <= made[l[1]][l[2]] /\ l[3] # links[l[1]][l[2]]
      BY DEF IInv, TypeOK, Waiting
    <2>2. /\ status' = [status EXCEPT ![l] = "stopped"]
          /\ waits' = [waits EXCEPT ![w] = @ \ {l}]
          /\ UNCHANGED <<links, config, made, req>>
      BY <1>4 DEF stopLinkFunc
    <2>3. TypeOK'
      BY <2>1, <2>2 DEF IInv, TypeOK, Status
    <2>4. Numbered' /\ Configured' /\ Waiting'
      BY <2>1, <2>2, LinkIdParts, RouterAssumption
         DEF IInv, TypeOK, Numbered, Configured, Waiting
    <2>5. HeldRuns'
      BY <2>1, <2>2, HeldNumber, LinkIdOf, RouterAssumption
         DEF IInv, TypeOK, HeldRuns, Held, NoLink
    <2>6. NoOrphan'
      BY <2>1, <2>2 DEF IInv, TypeOK, NoOrphan, Held
    <2> QED BY <2>3, <2>4, <2>5, <2>6 DEF IInv
  <1>5. CASE UNCHANGED vars
    BY <1>5 DEF vars, IInv, TypeOK, Numbered, Configured, Waiting, HeldRuns, NoOrphan, Held
  <1> QED BY <1>1, <1>2, <1>3, <1>4, <1>5 DEF Next

\* The inductive invariant of the router.
THEOREM Invariance == Spec => []IInv
  BY InitIInv, NextIInv, PTL DEF Spec

\* Every link that items holds runs.
THEOREM HeldRunsHolds == Spec => []HeldRuns
  BY Invariance, PTL DEF IInv

\* Every link that runs is held by items, or a delete is about to stop it.
THEOREM NoOrphanHolds == Spec => []NoOrphan
  BY Invariance, PTL DEF IInv

-----------------------------------------------------------------------------
(* Action properties *)

\* What every step but an update does to the links and their configuration.
LEMMA OtherSteps ==
    ASSUME IInv, NEW w \in Workers,
           \/ Call(w) \/ deleteByRoute(w) \/ deleteByKindKeys(w)
           \/ \E l \in waits[w] : stopLinkFunc(w, l)
    PROVE  /\ \A k \in Keys, r \in Rules : Dropped(w, k, r) \/ Same(k, r)
           /\ \A l \in LinkIds : status'[l] \in {status[l], "stopped"}
  <1>1. CASE Call(w)
    BY <1>1 DEF Call, Same
  <1>2. CASE deleteByRoute(w) \/ deleteByKindKeys(w)
    <2>1. PICK pairs \in SUBSET (Keys \X Rules) : Remove(w, pairs)
      BY <1>2 DEF deleteByRoute, deleteByKindKeys
    <2>2. UNCHANGED status
      BY <2>1 DEF Remove
    <2> QED BY <2>1, <2>2, RemoveCases DEF IInv
  <1>3. ASSUME NEW l \in waits[w], stopLinkFunc(w, l)
        PROVE  /\ \A k \in Keys, r \in Rules : Same(k, r)
               /\ \A m \in LinkIds : status'[m] \in {status[m], "stopped"}
    BY <1>3 DEF stopLinkFunc, Same, IInv, TypeOK
  <1> QED BY <1>1, <1>2, <1>3

\* An update does one of four things to every rule.
LEMMA UpdateSteps ==
    ASSUME IInv, NEW w \in Workers, updateRoute(w) \/ updateByKindRoutes(w)
    PROVE  \A k \in Keys, r \in Rules :
             Untouched(k, r) \/ Lost(k, r) \/ Kept(k, r) \/ Made(k, r)
  <1>1. /\ req[w] \in Requests /\ req[w].op \in {"updateRoute", "updateByKindRoutes"}
        /\ ApplyUpdate(req[w].routes)
    BY DEF updateRoute, updateByKindRoutes, Takes, IInv, TypeOK
  <1> QED BY <1>1, UpdateArgument, UpdateCases DEF IInv

\* No link is started twice, and no link that was stopped runs again.
THEOREM OneLifeHolds == Spec => OneLife
  <1> DEFINE Ages(l) == /\ status[l] = "stopped" => status'[l] = "stopped"
                        /\ status[l] = "running" => status'[l] \in {"running", "stopped"}
                        /\ status'[l] = "running" => status[l] \in {"none", "running"}
  <1>1. ASSUME IInv, [Next]_vars PROVE [\A l \in LinkIds : Ages(l)]_vars
    <2> SUFFICES ASSUME Next, NEW l \in LinkIds PROVE Ages(l)
      BY <1>1
    <2>1. PICK w \in Workers :
            \/ updateRoute(w) \/ updateByKindRoutes(w)
            \/ Call(w) \/ deleteByRoute(w) \/ deleteByKindKeys(w)
            \/ \E m \in waits[w] : stopLinkFunc(w, m)
      BY DEF Next
    <2>2. CASE updateRoute(w) \/ updateByKindRoutes(w)
      <3> PICK k \in Keys, r \in Rules, n \in 1..MaxMade : l = <<k, r, n>>
        BY LinkIdParts
      <3>1. Untouched(k, r) \/ Lost(k, r) \/ Kept(k, r) \/ Made(k, r)
        BY <1>1, <2>2, UpdateSteps
      <3>2. /\ status[l] = "none" <=> n > made[k][r]
            /\ n = links[k][r] => status[l] = "running"
            /\ made[k][r] \in Nat
        BY <1>1, LinkIdOf, RouterAssumption
           DEF IInv, TypeOK, Numbered, HeldRuns, Held, NoLink
      <3>3. CASE Untouched(k, r)
        BY <3>3 DEF Untouched
      <3>4. CASE Lost(k, r)
        BY <3>2, <3>4 DEF Lost
      <3>5. CASE Kept(k, r)
        BY <3>2, <3>5 DEF Kept
      <3>6. CASE Made(k, r)
        BY <3>2, <3>6 DEF Made
      <3> QED BY <3>1, <3>3, <3>4, <3>5, <3>6
    <2>3. CASE \/ Call(w) \/ deleteByRoute(w) \/ deleteByKindKeys(w)
               \/ \E m \in waits[w] : stopLinkFunc(w, m)
      BY <1>1, <2>3, OtherSteps
    <2> QED BY <2>1, <2>2, <2>3
  <1> QED BY <1>1, Invariance, PTL DEF Spec, OneLife

\* A tunnel whose configuration does not change keeps its link.
THEOREM KeptIfEqualHolds == Spec => KeptIfEqual
  <1> DEFINE Steady(k, r) ==
        links[k][r] # NoLink /\ config'[k][r] = config[k][r] => links'[k][r] = links[k][r]
  <1>1. ASSUME IInv, [Next]_vars PROVE [\A k \in Keys, r \in Rules : Steady(k, r)]_vars
    <2> SUFFICES ASSUME Next, NEW k \in Keys, NEW r \in Rules PROVE Steady(k, r)
      BY <1>1
    <2>1. links[k][r] # NoLink => config[k][r] # NoTunnel
      BY <1>1 DEF IInv, Configured
    <2>2. PICK w \in Workers :
            \/ updateRoute(w) \/ updateByKindRoutes(w)
            \/ Call(w) \/ deleteByRoute(w) \/ deleteByKindKeys(w)
            \/ \E m \in waits[w] : stopLinkFunc(w, m)
      BY DEF Next
    <2>3. \/ Untouched(k, r) \/ Lost(k, r) \/ Kept(k, r) \/ Made(k, r)
          \/ Dropped(w, k, r) \/ Same(k, r)
      BY <1>1, <2>2, UpdateSteps, OtherSteps
    <2> QED BY <2>1, <2>3 DEF Untouched, Lost, Kept, Made, Dropped, Same
  <1> QED BY <1>1, Invariance, PTL DEF Spec, KeptIfEqual

-----------------------------------------------------------------------------
(* The router implements the table *)

\* The tunnels that are up are those items has the configuration of.
LEMMA RunningIsConfig == IInv => Running = config
  BY DEF IInv, TypeOK, Configured, HeldRuns, Running, Held, Route

\* Every call has on the table the effect TunnelTable gives it, and no other
\* step changes the table.
THEOREM Refinement == Spec => ImplementsTable
  <1>1. Init => Table!TableInit
    BY InitIInv, RunningIsConfig DEF Init, Table!TableInit, NoTable, NoRoute,
       Table!NoTable, Table!NoRoute
  <1>2. ASSUME IInv, IInv', [Next]_vars
        PROVE  [\E w \in Workers : Table!Call(w) \/ Table!Effect(w)]_<<Running, req>>
    <2>1. Running = config /\ Running' = config'
      <3>1. (IInv => Running = config)'
        BY RunningIsConfig, PTL
      <3> QED BY <1>2, <3>1, RunningIsConfig
    <2>2. CASE UNCHANGED vars
      BY <2>1, <2>2 DEF vars
    <2>3. ASSUME NEW w \in Workers, Call(w) PROVE Table!Call(w)
      BY <2>1, <2>3 DEF Call, Table!Call
    <2>4. ASSUME NEW w \in Workers, updateRoute(w) \/ updateByKindRoutes(w)
          PROVE  Table!Effect(w)
      <3>1. config' = Replace(config, req[w].routes)
        BY <2>4 DEF updateRoute, updateByKindRoutes, ApplyUpdate
      <3>2. req[w] # NoRequest /\ req[w].op \in {"updateRoute", "updateByKindRoutes"}
            /\ req' = [req EXCEPT ![w] = NoRequest]
        BY <2>4 DEF updateRoute, updateByKindRoutes, Takes
      <3>3. Table!Result(config, req[w]) = Replace(config, req[w].routes)
        BY <3>2 DEF Table!Result, Table!Replace, Replace
      <3> QED BY <2>1, <3>1, <3>2, <3>3 DEF Table!Effect
    <2>5. ASSUME NEW w \in Workers, deleteByRoute(w) PROVE Table!Effect(w)
      <3>1. /\ req[w] # NoRequest /\ req[w].op = "deleteByRoute"
            /\ req' = [req EXCEPT ![w] = NoRequest]
            /\ Remove(w, {p \in Keys \X Rules : p[1] = req[w].key})
        BY <2>5 DEF deleteByRoute, Takes
      <3>2. config' = Drop(config, req[w].key)
        <4>1. \A k \in Keys, r \in Rules :
                config'[k][r] = IF k = req[w].key THEN NoTunnel ELSE config[k][r]
          <5> TAKE k \in Keys, r \in Rules
          <5> DEFINE pairs == {p \in Keys \X Rules : p[1] = req[w].key}
          <5>1. IF <<k, r>> \in pairs /\ links[k][r] # NoLink
                THEN Dropped(w, k, r) ELSE Same(k, r)
            <6>1. pairs \in SUBSET (Keys \X Rules) /\ Remove(w, pairs) /\ TypeOK
              BY <1>2, <3>1 DEF IInv
            <6> HIDE DEF pairs
            <6> QED BY <6>1, RemoveCases
          <5>2. <<k, r>> \in pairs <=> k = req[w].key
            OBVIOUS
          <5> HIDE DEF pairs
          <5> QED BY <1>2, <5>1, <5>2 DEF Dropped, Same, IInv, Configured
        <4>2. config \in [Keys -> Route] /\ config' \in [Keys -> Route]
          BY <1>2 DEF IInv, TypeOK
        <4> QED BY <4>1, <4>2 DEF Drop, NoRoute, Route
      <3>3. Table!Result(config, req[w]) = Drop(config, req[w].key)
        BY <3>1 DEF Table!Result, Table!Drop, Drop, Table!NoRoute, NoRoute
      <3> QED BY <2>1, <3>1, <3>2, <3>3 DEF Table!Effect
    <2>6. ASSUME NEW w \in Workers, deleteByKindKeys(w) PROVE Table!Effect(w)
      <3> DEFINE q == req[w]
                 uses(k, r) == k \in q.keys /\ getKindRuleResource(q.kind, r) = q.name
      <3>1. /\ q # NoRequest /\ q.op = "deleteByKindKeys"
            /\ req' = [req EXCEPT ![w] = NoRequest]
            /\ Remove(w, {p \in Keys \X Rules : uses(p[1], p[2])})
        BY <2>6 DEF deleteByKindKeys, Takes
      <3>2. config' = DropByKind(config, q.kind, q.name, q.keys)
        <4>1. \A k \in Keys, r \in Rules :
                config'[k][r] = IF uses(k, r) THEN NoTunnel ELSE config[k][r]
          <5> TAKE k \in Keys, r \in Rules
          <5> DEFINE pairs == {p \in Keys \X Rules : uses(p[1], p[2])}
          <5>1. IF <<k, r>> \in pairs /\ links[k][r] # NoLink
                THEN Dropped(w, k, r) ELSE Same(k, r)
            <6>1. pairs \in SUBSET (Keys \X Rules) /\ Remove(w, pairs) /\ TypeOK
              BY <1>2, <3>1 DEF IInv
            <6> HIDE DEF pairs
            <6> QED BY <6>1, RemoveCases
          <5>2. <<k, r>> \in pairs <=> uses(k, r)
            OBVIOUS
          <5> HIDE DEF pairs
          <5> QED BY <1>2, <5>1, <5>2 DEF Dropped, Same, IInv, Configured
        <4>2. config \in [Keys -> Route] /\ config' \in [Keys -> Route]
          BY <1>2 DEF IInv, TypeOK
        <4> QED BY <4>1, <4>2 DEF DropByKind, Route
      <3>3. Table!Result(config, q) = DropByKind(config, q.kind, q.name, q.keys)
        BY <3>1 DEF Table!Result, Table!DropByKind, DropByKind,
           Table!getKindRuleResource, getKindRuleResource
      <3> QED BY <2>1, <3>1, <3>2, <3>3 DEF Table!Effect
    <2>7. ASSUME NEW w \in Workers, NEW l \in waits[w], stopLinkFunc(w, l)
          PROVE  UNCHANGED <<Running, req>>
      BY <2>1, <2>7 DEF stopLinkFunc
    <2> QED BY <1>2, <2>2, <2>3, <2>4, <2>5, <2>6, <2>7 DEF Next
  <1> QED BY <1>1, <1>2, Invariance, PTL DEF Spec, ImplementsTable, Table!TableSpec
=============================================================================
