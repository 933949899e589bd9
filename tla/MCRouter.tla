------------------------------- MODULE MCRouter -------------------------------
(* Instances of Router for TLC. *)
EXTENDS Router

CONSTANTS k1, k2, w1, w2, cfgA, cfgB, svcA, secA, secB

MCKeys    == {k1, k2}
MCWorkers == {w1, w2}
MCConfigs == {cfgA, cfgB}

\* Two rules that share a service and differ in their secret.
RuleA   == [service |-> svcA, secret |-> secA]
RuleB   == [service |-> svcA, secret |-> secB]
MCRules == {RuleA, RuleB}

Routes(a, b) == [r \in MCRules |-> IF r = RuleA THEN a ELSE b]

\* The first ingress goes through every route, the second has one tunnel.
MCRequests ==
    {[op |-> "updateRoute", routes |-> [k \in {k1} |-> Routes(a, b)]] :
       a \in {cfgA, cfgB}, b \in {cfgA, NoTunnel}}
    \cup {[op |-> "updateRoute", routes |-> [k \in {k1} |-> Routes(NoTunnel, NoTunnel)]],
          [op |-> "updateByKindRoutes", routes |-> [k \in MCKeys |-> Routes(cfgB, NoTunnel)]],
          [op |-> "deleteByRoute", key |-> k1],
          [op |-> "deleteByKindKeys", kind |-> "service", name |-> svcA, keys |-> MCKeys],
          [op |-> "deleteByKindKeys", kind |-> "secret", name |-> secA, keys |-> {k1}]}
=============================================================================
