----------------------------- MODULE MCSettings -----------------------------
(* Inputs of SettingsCases for TLC. *)
EXTENDS SettingsCases

MCDNSLabels  == {"a", "b", "ex", "ns"}
MCStarLabels == {"*", "*a", "a*"}
MCStarFirst  == {"*", "*a"}
MCQualified  == {"s1", "s2", "p/s"}

MCPatterns == {<<"a", "ex">>, <<"*", "ex">>, <<"*">>, <<"*", "a", "ex">>,
               <<"*a", "ex">>, <<"a*", "ex">>, <<Empty>>, <<"a", Empty>>}
MCGroups ==
    [hosts : {{g, h} : g, h \in MCPatterns} \cup {{}},
     secret : {[namespace |-> "ns", name |-> n] : n \in {"s1", "s2", "p/s", Empty}}]
MCFlags == {<<Empty>>, <<"ns", "sf">>, <<"ns", Empty>>, <<"ns">>, <<"ns", "p", "s">>}
MCIngressHosts == {<<"a", "ex">>, <<"b", "ex">>, <<"a", "b", "ex">>, <<"b", "a", "ex">>}

Text(type, vals) == [type : {type}, val : vals]
MCTexts ==
    [o \in OptionNames |->
       IF o \in {"lbPool", "tags"} THEN Text("word", {"", "x"})
       ELSE Text("int", {-9, -1, 0, 7, 8, 15, 16, 255, 256}) \cup Text("duration", {0, 7})
            \cup Text("word", {"true", "false", "TRUE", "x"})]

MCSize == [t \in {"", "k", "ka", "kb", "v", "va", "vb=c"} |->
             CASE t = "" -> 0 [] t \in {"k", "v"} -> 1 [] t = "vb=c" -> 4 [] OTHER -> 2]
MCSegments ==
    [eq : {TRUE}, key : {"k", "ka", "kb"}, val : {"v", "va", "vb=c"}]
      \cup [eq : {FALSE}, key : {"", "ka"}, val : {""}]
MCLimits == {-1, 0, 1, 2, 3}
=============================================================================
