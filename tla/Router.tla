------------------------------- MODULE Router -------------------------------
(***************************************************************************)
(* syncTunnelRouter (internal/argotunnel/router.go): the links of every    *)
(* ingress, as the router starts and stops them for the workers of the     *)
(* controller.                                                             *)
(*                                                                         *)
(* A link is <<k, r, n>>: the n-th link the translator made for rule r of  *)
(* ingress k.  An update starts and stops links while it holds r.mu; a     *)
(* delete takes them out of items under r.mu and stops each of them in a   *)
(* goroutine of its own, which it waits for after it unlocked.  Updates by *)
(* other workers run between such a delete and its stops.                  *)
(*                                                                         *)
(* No operation tells an ingress that items lacks from one whose links map *)
(* is empty, so links is total and 0 stands for both.                      *)
(***************************************************************************)
EXTENDS Naturals, TunnelRoutes

CONSTANTS
    Workers,     \* goroutines calling the router
    Requests,    \* the calls they make, with arguments they have read before
    NoRequest,
    MaxMade      \* bound: links made for a rule of an ingress

\* The calls of translator.go, by router operation.
UpdateCall == [op : {"updateRoute", "updateByKindRoutes"},
           routes : UNION {[ks -> Route] : ks \in SUBSET Keys}]
DeleteCall == [op : {"deleteByRoute"}, key : Keys]
DeleteByKindCall ==
    [op : {"deleteByKindKeys"}, kind : {"service", "secret"},
     name : {getKindRuleResource(k, r) : k \in {"service", "secret"}, r \in Rules},
     keys : SUBSET Keys]

ASSUME RouterAssumption ==
    /\ MaxMade \in Nat \ {0}
    /\ Requests \subseteq UpdateCall \cup DeleteCall \cup DeleteByKindCall
    /\ NoRequest \notin Requests

NoLink  == 0
LinkIds == Keys \X Rules \X (1..MaxMade)
Status  == {"none", "new", "running", "stopped"}

VARIABLES
    links,    \* r.items[k].links[r]: the number of the link, or NoLink
    config,   \* certificate and options of that link
    made,     \* links made for each rule of each ingress
    status,   \* state of every link; "new" is made and not started
    req,      \* per worker, the call that waits for r.mu
    waits     \* links whose stop the worker waits for in wg.Wait()

vars == <<links, config, made, status, req, waits>>

TypeOK ==
    /\ links \in [Keys -> [Rules -> 0..MaxMade]]
    /\ config \in [Keys -> Route]
    /\ made \in [Keys -> [Rules -> 0..MaxMade]]
    /\ status \in [LinkIds -> Status]
    /\ req \in [Workers -> Requests \cup {NoRequest}]
    /\ waits \in [Workers -> SUBSET LinkIds]

Init ==
    /\ links = [k \in Keys |-> [r \in Rules |-> NoLink]]
    /\ config = NoTable
    /\ made = [k \in Keys |-> [r \in Rules |-> 0]]
    /\ status = [l \in LinkIds |-> "none"]
    /\ req = [w \in Workers |-> NoRequest]
    /\ waits = [w \in Workers |-> {}]

\* The link items holds for a rule.
Held(k, r) == <<k, r, links[k][r]>>

-----------------------------------------------------------------------------
(* unsafeUpdateRoute, for every route of the call *)

\* oldLink.equal(newLink): the rule, and so host and origin, are the same.
Equal(k, r, c) == links[k][r] # NoLink /\ config[k][r] = c

\* Variant: equal() is never true.
KeepsNone(k, r, c) == FALSE

\* The old link stays in the new route, in place of the one just made.
Keeps(k, r, c) == c # NoTunnel /\ Equal(k, r, c)

\* Variant: the last link made for the rule is used again.
NextNumberReused(k, r) == IF made[k][r] = 0 THEN 1 ELSE made[k][r]

\* newTunnelLink makes a link for every rule of every route.
NextNumber(k, r) == made[k][r] + 1

\* The link of rule r in items after an update that gives it configuration c.
UpdatedLink(k, r, c) ==
    IF c = NoTunnel THEN NoLink
    ELSE IF Keeps(k, r, c) THEN links[k][r] ELSE NextNumber(k, r)

\* Variant: links that are in no rule of the new route are left running.
UpdatedStatusLeaks(l, c) ==
    IF c # NoTunnel /\ l[3] = NextNumber(l[1], l[2])
    THEN IF Keeps(l[1], l[2], c) THEN "new" ELSE "running"
    ELSE IF l = Held(l[1], l[2]) /\ ~Keeps(l[1], l[2], c) /\ c # NoTunnel
    THEN "stopped"
    ELSE status[l]

\* Variant: the old link is stopped even when it is kept.
UpdatedStatusStopsKept(l, c) ==
    IF c # NoTunnel /\ l[3] = NextNumber(l[1], l[2])
    THEN IF Keeps(l[1], l[2], c) THEN "new" ELSE "running"
    ELSE IF l = Held(l[1], l[2]) THEN "stopped" ELSE status[l]

\* A made link is started unless the old one is kept; an old link that is not
\* kept is stopped, replaced or not.
UpdatedStatus(l, c) ==
    IF c # NoTunnel /\ l[3] = NextNumber(l[1], l[2])
    THEN IF Keeps(l[1], l[2], c) THEN "new" ELSE "running"
    ELSE IF l = Held(l[1], l[2]) /\ ~Keeps(l[1], l[2], c)
    THEN "stopped"
    ELSE status[l]

ApplyUpdate(new) ==
    LET has(k, r) == k \in DOMAIN new /\ new[k][r] # NoTunnel
    IN  /\ \A k \in Keys, r \in Rules : has(k, r) => made[k][r] < MaxMade
        /\ config' = Replace(config, new)
        /\ made' = [k \in Keys |-> [r \in Rules |->
                      IF has(k, r) THEN NextNumber(k, r) ELSE made[k][r]]]
        /\ links' = [k \in Keys |-> [r \in Rules |->
                       IF k \in DOMAIN new THEN UpdatedLink(k, r, new[k][r])
                       ELSE links[k][r]]]
        /\ status' = [l \in LinkIds |->
                        IF l[1] \in DOMAIN new THEN UpdatedStatus(l, new[l[1]][l[2]])
                        ELSE status[l]]

\* The worker's call op gets r.mu.
Takes(w, op) ==
    /\ req[w] # NoRequest
    /\ req[w].op = op
    /\ req' = [req EXCEPT ![w] = NoRequest]

updateRoute(w) ==
    /\ Takes(w, "updateRoute")
    /\ ApplyUpdate(req[w].routes)
    /\ UNCHANGED waits

updateByKindRoutes(w) ==
    /\ Takes(w, "updateByKindRoutes")
    /\ ApplyUpdate(req[w].routes)
    /\ UNCHANGED waits

-----------------------------------------------------------------------------
(* Deletes *)

\* The links of some <<ingress, rule>> pairs leave items; a stop goroutine
\* starts for each.
Remove(w, pairs) ==
    LET hits == {p \in pairs : links[p[1]][p[2]] # NoLink}
    IN  /\ links' = [k \in Keys |-> [r \in Rules |->
                       IF <<k, r>> \in hits THEN NoLink ELSE links[k][r]]]
        /\ config' = [k \in Keys |-> [r \in Rules |->
                        IF <<k, r>> \in hits THEN NoTunnel ELSE config[k][r]]]
        /\ waits' = [waits EXCEPT ![w] = {Held(p[1], p[2]) : p \in hits}]
        /\ UNCHANGED <<made, status>>

deleteByRoute(w) ==
    /\ Takes(w, "deleteByRoute")
    /\ Remove(w, {p \in Keys \X Rules : p[1] = req[w].key})

\* Variant: the resource is looked up as a service whatever its kind.
deleteByKindKeysAsService(w) ==
    /\ Takes(w, "deleteByKindKeys")
    /\ Remove(w, {p \in Keys \X Rules :
                    /\ p[1] \in req[w].keys
                    /\ getKindRuleResource("service", p[2]) = req[w].name})

deleteByKindKeys(w) ==
    /\ Takes(w, "deleteByKindKeys")
    /\ Remove(w, {p \in Keys \X Rules :
                    /\ p[1] \in req[w].keys
                    /\ getKindRuleResource(req[w].kind, p[2]) = req[w].name})

\* Variant: the goroutine returns without stopping the link.
stopLinkFuncSkipped(w, l) ==
    /\ l \in waits[w]
    /\ waits' = [waits EXCEPT ![w] = @ \ {l}]
    /\ UNCHANGED <<links, config, made, status, req>>

\* One goroutine of the delete; the last one lets the delete return.
stopLinkFunc(w, l) ==
    /\ l \in waits[w]
    /\ status' = [status EXCEPT ![l] = "stopped"]
    /\ waits' = [waits EXCEPT ![w] = @ \ {l}]
    /\ UNCHANGED <<links, config, made, req>>

-----------------------------------------------------------------------------
\* A worker makes one call at a time, and a delete returns after its stops.
Call(w) ==
    /\ req[w] = NoRequest
    /\ waits[w] = {}
    /\ \E q \in Requests : req' = [req EXCEPT ![w] = q]
    /\ UNCHANGED <<links, config, made, status, waits>>

Next == \E w \in Workers :
    \/ Call(w)
    \/ updateRoute(w)
    \/ updateByKindRoutes(w)
    \/ deleteByRoute(w)
    \/ deleteByKindKeys(w)
    \/ \E l \in waits[w] : stopLinkFunc(w, l)

Spec == Init /\ [][Next]_vars

\* Stop goroutines run; nobody has to call the router.
FairSpec == Spec /\ \A w \in Workers : WF_vars(\E l \in waits[w] : stopLinkFunc(w, l))

-----------------------------------------------------------------------------
(* Properties *)

\* Every link items holds is running: no worker's delete stops the link that
\* another worker's update put in its place.
HeldRuns ==
    \A k \in Keys, r \in Rules :
      links[k][r] # NoLink => status[Held(k, r)] = "running"

\* No tunnel is forgotten: a link that runs is held by items, or a worker is
\* in the middle of stopping it.
NoOrphan ==
    \A l \in LinkIds :
      status[l] = "running" => l = Held(l[1], l[2]) \/ \E w \in Workers : l \in waits[w]

\* A link goes from made to running to stopped and never back, so start() is
\* called once on a link and the router never restarts one.
OneLife ==
    [][\A l \in LinkIds :
         /\ status[l] = "stopped" => status'[l] = "stopped"
         /\ status[l] = "running" => status'[l] \in {"running", "stopped"}
         /\ status'[l] = "running" => status[l] \in {"none", "running"}]_vars

\* A tunnel is interrupted only when its rule goes or its configuration
\* changes: an update that finds it equal keeps the running link.
KeptIfEqual ==
    [][\A k \in Keys, r \in Rules :
         links[k][r] # NoLink /\ config'[k][r] = config[k][r]
           => links'[k][r] = links[k][r]]_vars

\* A tunnel that no route holds any more is torn down in the end, though its
\* stop runs after the call has given up the lock.
TornDown ==
    \A l \in LinkIds :
      status[l] = "running" /\ l # Held(l[1], l[2]) ~> status[l] = "stopped"

\* The tunnels that are up: those of the held links that run.
Running ==
    [k \in Keys |-> [r \in Rules |->
       IF links[k][r] # NoLink /\ status[Held(k, r)] = "running"
       THEN config[k][r] ELSE NoTunnel]]

Table == INSTANCE TunnelTable WITH tunnels <- Running

\* The router implements the table of tunnels: each call takes effect once, as
\* it asks, though its stops run outside the lock and links are kept or made.
ImplementsTable == Table!TableSpec
=============================================================================
