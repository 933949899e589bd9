---------------------------- MODULE MCController ----------------------------
(* Instances of Controller for TLC. *)
EXTENDS Controller

CONSTANTS w1, w2

Res(n) == [namespace |-> "ns", name |-> n]
i1 == Res("i1")
i2 == Res("i2")
s1 == Res("s1")
v1 == Res("v1")
ha == <<"a", "ex">>

MCOneWorker  == {w1}
MCTwoWorkers == {w1, w2}
MCCovers     == {<<"certA", ha>>, <<"certB", ha>>}
NoSecrets    == [h \in {} |-> NoSecret]

\* An ingress of one host; its service port is selected by name.
Ing(class, opts) ==
    [namespace |-> "ns", class |-> class, opts |-> opts,
     tls |-> <<[hosts |-> {ha}, secretName |-> "s1"]>>,
     rules |-> {[host |-> ha, http |-> TRUE,
                 paths |-> {[path |-> "", serviceName |-> "v1",
                             servicePort |-> [type |-> "string", val |-> "web"]]}]}]
Web(n) == <<[port |-> n, name |-> "web", protocol |-> "TCP"]>>

\* i1 is the controller's, i2 is not; they share a secret and a service.
Own(opts) == Ing("argo-tunnel", opts)
Foreign   == Ing("nginx", "o1")
Cluster(ings, certs, ports, subsets) ==
    [kind \in Kinds |->
       CASE kind = "ingress"  -> ings
         [] kind = "secret"   -> [n \in {s1} |-> {[cert |-> c] : c \in certs}]
         [] kind = "service"  -> [n \in {v1} |-> {Web(n80) : n80 \in ports}]
         [] kind = "endpoint" -> [n \in {v1} |-> subsets]]
Shared ==
    Cluster([k \in {i1, i2} |-> IF k = i1 THEN {Own("o1")} ELSE {Foreign}],
            {"certA"}, {80}, {{}, {1}})
\* One ingress: everything changes, or what matters most.
Rich == Cluster([k \in {i1} |-> {Own("o1"), Own("o2")}],
                {"certA", "certB", NoCert}, {80, 81}, {{}, {1}})
Lean == Cluster([k \in {i1} |-> {Own("o1")}], {"certA", NoCert}, {80}, {{}, {1}})
\* One ingress, whose class may change.
Reclassed == Cluster([k \in {i1} |-> {Own("o1"), Foreign}], {"certA"}, {80}, {{1}})

FirstOf(objs) ==
    [kind \in Kinds |->
       CASE kind = "ingress"  -> [n \in DOMAIN objs[kind] |->
                                    IF n = i1 THEN Own("o1") ELSE Foreign]
         [] kind = "secret"   -> [n \in {s1} |-> [cert |-> "certA"]]
         [] kind = "service"  -> [n \in {v1} |-> Web(80)]
         [] kind = "endpoint" -> [n \in {v1} |-> {1}]]
\* The shared secret is not there at first.
InitShared == [FirstOf(Shared) EXCEPT !["secret"] = [n \in {s1} |-> Absent]]
InitSingle == FirstOf(Lean)

MCSharedKeys == {i1, i2}
MCOneKey     == {i1}
MCRules   == [host : {ha}, port : {80, 81}, service : {v1}, secret : {s1}]
MCConfigs == [cert : {"certA", "certB"}, opts : {"o1", "o2"}]
=============================================================================
