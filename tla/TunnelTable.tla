----------------------------- MODULE TunnelTable -----------------------------
(***************************************************************************)
(* What the tunnel router promises its callers: a table of tunnels that    *)
(* every call changes at once, exactly as it asks and exactly once, in     *)
(* some order.  Router implements it.                                      *)
(***************************************************************************)
EXTENDS TunnelRoutes

CONSTANTS
    Workers,    \* goroutines calling the router
    Requests,   \* calls they make: records, see Result
    NoRequest

VARIABLES
    tunnels,    \* the table of routes
    req         \* per worker, the call that has not taken effect yet

Result(t, q) ==
    CASE q.op = "updateRoute"        -> Replace(t, q.routes)
      [] q.op = "updateByKindRoutes" -> Replace(t, q.routes)
      [] q.op = "deleteByRoute"      -> Drop(t, q.key)
      [] q.op = "deleteByKindKeys"   -> DropByKind(t, q.kind, q.name, q.keys)

TableInit ==
    /\ tunnels = NoTable
    /\ req = [w \in Workers |-> NoRequest]

Call(w) ==
    /\ req[w] = NoRequest
    /\ \E q \in Requests : req' = [req EXCEPT ![w] = q]
    /\ UNCHANGED tunnels

Effect(w) ==
    /\ req[w] # NoRequest
    /\ tunnels' = Result(tunnels, req[w])
    /\ req' = [req EXCEPT ![w] = NoRequest]

TableSpec ==
    TableInit /\ [][\E w \in Workers : Call(w) \/ Effect(w)]_<<tunnels, req>>
=============================================================================
