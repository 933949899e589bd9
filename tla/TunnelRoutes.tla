---------------------------- MODULE TunnelRoutes ----------------------------
(***************************************************************************)
(* Routes, and what the four operations of the tunnelRouter interface      *)
(* (internal/argotunnel/router.go) do to the table of all routes.  Links,  *)
(* goroutines and locks do not show here: Router adds them, Controller     *)
(* uses the operations as they are.                                        *)
(***************************************************************************)

CONSTANTS
    Keys,      \* ingress keys, namespace/name
    Rules,     \* tunnelRules: records with a service and a secret field
    Configs,   \* what equal() compares beyond the rule: certificate, options
    NoTunnel   \* a rule without a tunnel

ASSUME RoutesAssumption == NoTunnel \notin Configs

\* tunnelRoute: the tunnels of one ingress, by rule.
Route   == [Rules -> Configs \cup {NoTunnel}]
NoRoute == [r \in Rules |-> NoTunnel]
NoTable == [k \in Keys |-> NoRoute]

\* The field of a rule that names its resource of a kind.
getKindRuleResource(kind, r) == IF kind = "secret" THEN r.secret ELSE r.service

\* updateRoute and updateByKindRoutes: every route of the call is replaced.
Replace(t, new) == [k \in Keys |-> IF k \in DOMAIN new THEN new[k] ELSE t[k]]

\* deleteByRoute.
Drop(t, key) == [k \in Keys |-> IF k = key THEN NoRoute ELSE t[k]]

\* deleteByKindKeys: the tunnels of the listed routes that use the resource.
DropByKind(t, kind, name, keys) ==
    [k \in Keys |-> [r \in Rules |->
        IF k \in keys /\ getKindRuleResource(kind, r) = name
        THEN NoTunnel
        ELSE t[k][r]]]
=============================================================================
