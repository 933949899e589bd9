-------------------------- MODULE MCTranslatorCases --------------------------
(* Instances of TranslatorCases for TLC. *)
EXTENDS TranslatorCases

ns == "ns"
Res(n) == [namespace |-> ns, name |-> n]
ha == <<"a", "ex">>
hb == <<"b", "ex">>
hc == <<"c">>
hd == <<"d", "org">>

MCOriginSecrets == [h \in {hc} |-> Res("sOrigin")]
MCDomainSecrets == [d \in {<<"ex">>} |-> Res("sDomain")]
MCDefaultSecret == Res("sDefault")
\* certA is a wildcard certificate, certB is for one host.
MCCovers == {<<"certA", ha>>, <<"certA", hb>>, <<"certA", hc>>,
             <<"certA", hd>>, <<"certB", ha>>}

SecretNames == {Res("s1"), Res("sDomain"), Res("sOrigin"), Res("sDefault")}
MCSecretCaches ==
    [SecretNames -> {Absent, [cert |-> "certA"]}]
    \cup {[n \in SecretNames |-> [cert |-> c]] : c \in {"certB", NoCert}}

Port(n, name, proto) == [port |-> n, name |-> name, protocol |-> proto]
MCServiceCaches ==
    {[n \in {Res("v1")} |-> s] :
       s \in {Absent, <<>>, <<Port(80, "web", "TCP")>>,
              <<Port(80, "web", "UDP"), Port(81, "web", "TCP"), Port(80, "alt", "TCP")>>}}
MCEndpointCaches == {[n \in {Res("v1")} |-> e] : e \in {Absent, {}, {0}, {0, 2}}}

Path(path, svc, port) == [path |-> path, serviceName |-> svc, servicePort |-> port]
web == [type |-> "string", val |-> "web"]
p80 == [type |-> "int", val |-> 80]
Rule(h, http, paths) == [host |-> h, http |-> http, paths |-> paths]
RuleSets ==
    {{Rule(ha, TRUE, {Path("", "v1", web), Path("/x", "v1", p80)})},
     {Rule(ha, TRUE, {Path("/", "v1", p80)}), Rule(hb, TRUE, {Path("", "v1", web)})},
     {Rule(hc, TRUE, {Path("", "v1", p80), Path("", NoName, p80)}),
      Rule(hd, TRUE, {Path("", "v1", web)})},
     {Rule(ha, FALSE, {}), Rule(NoName, TRUE, {Path("", "v1", p80)})}}
Tls(hosts, name) == [hosts |-> hosts, secretName |-> name]
TlsSeqs ==
    {<<>>, <<Tls({ha}, "s1")>>, <<Tls({ha, hc}, NoName)>>,
     <<Tls({ha, hb}, "s1"), Tls({ha}, "s2")>>, <<Tls({ha}, "s1"), Tls({ha}, NoName)>>,
     <<Tls({ha}, NoName), Tls({ha}, "s1")>>}

MCIngresses ==
    [namespace : {ns}, class : {"argo-tunnel", "nginx"}, tls : TlsSeqs,
     rules : RuleSets, opts : {"opts"}]

MCConfigs == [cert : {"certA", "certB"}, opts : {"opts"}]
MCRules ==
    [host : {ha, hb, hc, hd}, port : {80, 81}, service : {Res("v1")},
     secret : SecretNames \cup {Res("s2")}]
=============================================================================
