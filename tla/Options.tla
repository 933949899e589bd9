------------------------------ MODULE Options ------------------------------
(***************************************************************************)
(* How the controller's options come about when the process starts: the    *)
(* origin secret file (internal/cloudflare/originsecret.go), the default   *)
(* secret flag (internal/k8s/types.go), the options of                     *)
(* internal/argotunnel/options.go and the order main.go applies them in.   *)
(*                                                                         *)
(* A dotted string is the sequence of its labels and a string with slashes *)
(* the sequence of its parts, so <<Empty>> is the empty string.  A file is *)
(* a sequence of groups, each a set of hosts and a secret.                 *)
(***************************************************************************)
EXTENDS Naturals, Sequences

CONSTANTS
    Empty,          \* the empty label, part or name
    NoSecret,       \* a nil *resource
    DNSLabels,      \* labels that IsDNS1123Subdomain accepts
    StarLabels,     \* labels with a '*': "*" itself, and two characters with one
    StarFirst,      \* those of them that start with it
    QualifiedNames, \* names that IsQualifiedName accepts
    Slashed         \* names with a '/'

Star == <<"*">>

-----------------------------------------------------------------------------
(* Validation of the file *)

IsDNS1123Subdomain(str) == \A i \in DOMAIN str : str[i] \in DNSLabels
IsWildcardDNS1123Subdomain(str) ==
    Len(str) > 1 /\ str[1] = "*" /\ IsDNS1123Subdomain(Tail(str))

\* Variant: any host that starts with a '*' is taken for a wildcard.
ValidHostByPrefix(host) ==
    host # <<Empty>> /\ (host[1] \in StarFirst \/ IsDNS1123Subdomain(host))

ValidHost(host) ==
    /\ host # <<Empty>>
    /\ IF \E i \in DOMAIN host : host[i] \in StarLabels
       THEN host = Star \/ IsWildcardDNS1123Subdomain(host)
       ELSE IsDNS1123Subdomain(host)

ValidSecret(secret) ==
    /\ secret.name \notin {Empty} \cup Slashed
    /\ secret.name \in QualifiedNames
    /\ secret.namespace # Empty
    /\ IsDNS1123Subdomain(<<secret.namespace>>)

\* Validate of a group and of the file: ParseOriginSecrets fails otherwise.
Validate(file) ==
    \A i \in DOMAIN file : /\ file[i].hosts # {}
                           /\ \A h \in file[i].hosts : ValidHost(h)
                           /\ ValidSecret(file[i].secret)

-----------------------------------------------------------------------------
(* The options *)

\* The maps are filled in the order of the groups: the last one wins.
LastSecret(file, hosts) ==
    LET is == {i \in DOMAIN file : file[i].hosts \cap hosts # {}}
    IN  IF is = {} THEN NoSecret ELSE file[CHOOSE i \in is : \A j \in is : j <= i].secret
Hosts(file) == UNION {file[i].hosts : i \in DOMAIN file}

IsWild(host) == host # Star /\ host[1] \in StarFirst

\* h[2:] drops "*." or a label of two characters.
WildKey(host) == IF host[1] = "*" THEN Tail(host) ELSE <<Empty>> \o Tail(host)

\* SecretGroups, and the default it overrides when there is a '*' host.
SecretGroups(o, file) ==
    LET wild == {h \in Hosts(file) : IsWild(h)}
        mild == Hosts(file) \ (wild \cup {Star})
        all  == LastSecret(file, {Star})
    IN  [o EXCEPT
           !.originSecrets = [h \in mild |-> LastSecret(file, {h})],
           !.domainSecrets = [d \in {WildKey(h) : h \in wild} |->
                                LastSecret(file, {h \in wild : WildKey(h) = d})],
           !.secret = IF all = NoSecret THEN @ ELSE all]

Secret(o, name, namespace) ==
    IF name = Empty \/ namespace = Empty THEN o
    ELSE [o EXCEPT !.secret = [namespace |-> namespace, name |-> name]]

\* ObjValue.Set: the empty value sets nothing, any other must be
\* <namespace>/<name>.
ValidObj(val) == val = <<Empty>> \/ (Len(val) = 2 /\ Empty \notin {val[1], val[2]})
Obj(val) ==
    IF val = <<Empty>> THEN [namespace |-> Empty, name |-> Empty]
                       ELSE [namespace |-> val[1], name |-> val[2]]

\* collectOptions sets no default secret.
Defaults == [originSecrets |-> <<>>, domainSecrets |-> <<>>, secret |-> NoSecret]

\* Variant: the flag before the file.
collectOptionsFlagFirst(file, obj) ==
    SecretGroups(Secret(Defaults, obj.name, obj.namespace), file)

\* The order of NewController's arguments in main.go.
collectOptions(file, obj) ==
    Secret(SecretGroups(Defaults, file), obj.name, obj.namespace)

\* The process gets past its flags and its file.
Starts(file, flag) == ValidObj(flag) /\ Validate(file)
=============================================================================
