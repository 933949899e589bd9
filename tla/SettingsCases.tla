---------------------------- MODULE SettingsCases ----------------------------
(***************************************************************************)
(* Options and TunnelSettings over their inputs.  The state is one input   *)
(* of one of them: an origin secret file with the default secret flag, the *)
(* annotations of an ingress, the text of its tag annotation with the tag  *)
(* limit, or a repair with the back-off flags.  Each step makes it longer. *)
(***************************************************************************)
EXTENDS Options, TunnelSettings, FiniteSets, FiniteSetsExt

CONSTANTS
    Groups, Flags, IngressHosts,   \* groups of a file, values of the flag, hosts
    Texts,                         \* texts of annotations, by option
    Segments, Limits,              \* parts of a tag annotation, values of the flag
    Delays, Jitters, Steps,        \* back-off flags; a jitter is in eighths
    MaxGroups, MaxAnnotations, MaxSegments, MaxRepairs   \* bounds

\* Labels and hosts are lists, and '*' starts the labels that start with it; a
\* DNS label is not empty and has no '*'; a secret is one.
ASSUME FileAssumption ==
    /\ "*" \in StarFirst /\ StarFirst \subseteq StarLabels
    /\ "*" # Empty /\ Empty \notin DNSLabels /\ DNSLabels \cap StarLabels = {}
    /\ \A g \in Groups :
         /\ g.secret # NoSecret
         /\ \A h \in g.hosts : h \in Seq(STRING) /\ h # <<>>

\* The hosts asked about have a domain and are not wildcards.
ASSUME IngressHostsAssumption ==
    \A h \in IngressHosts : h \in Seq(STRING) /\ Len(h) > 1 /\ h[1] \notin StarFirst

\* A text spells something, and an integer when it says so.
ASSUME TextsAssumption ==
    /\ Narrow \in Nat \ {0}
    /\ Missing \notin BOOLEAN
    /\ \A o \in OptionNames : \A text \in Texts[o] :
         /\ text # Missing /\ text.val # Missing
         /\ text.type = "int" => text.val \in Int

\* The back-off flags are not negative, and a text has a length.
ASSUME BackoffAssumption ==
    Wide \in Nat \ {0} /\ Delays \subseteq Nat /\ Jitters \subseteq Nat /\ Steps \subseteq Nat
ASSUME SegmentsAssumption ==
    /\ Limits \subseteq Int
    /\ \A seg \in Segments : Size[seg.key] \in Nat /\ (seg.eq => Size[seg.val] \in Nat)

VARIABLE input

File(file, flag)    == [of |-> "file", file |-> file, flag |-> flag]
Annotated(anns)     == [of |-> "annotations", anns |-> anns]
Tagged(segs, limit) == [of |-> "tags", segs |-> segs, limit |-> limit]
Backoff(step, delay, jitter, steps) ==
    [of |-> "backoff", step |-> step, delay |-> delay, jitter |-> jitter, steps |-> steps]

Init ==
    \/ \E flag \in Flags : input = File(<<>>, flag)
    \/ input = Annotated([o \in OptionNames |-> Missing])
    \/ \E limit \in Limits, seg \in Segments : input = Tagged(<<seg>>, limit)
    \/ \E delay \in Delays, jitter \in Jitters, steps \in Steps :
         input = Backoff(0, delay, jitter, steps)

AddGroup ==
    /\ input.of = "file" /\ Len(input.file) < MaxGroups
    /\ \E g \in Groups : input' = [input EXCEPT !.file = Append(@, g)]

Annotate ==
    /\ input.of = "annotations"
    /\ Cardinality({o \in OptionNames : input.anns[o] # Missing}) < MaxAnnotations
    /\ \E o \in OptionNames : \E text \in Texts[o] :
         input.anns[o] = Missing /\ input' = [input EXCEPT !.anns[o] = text]

AddSegment ==
    /\ input.of = "tags" /\ Len(input.segs) < MaxSegments
    /\ \E seg \in Segments : input' = [input EXCEPT !.segs = Append(@, seg)]

RepairAgain ==
    /\ input.of = "backoff" /\ input.step < MaxRepairs
    /\ input' = [input EXCEPT !.step = @ + 1]

Next == AddGroup \/ Annotate \/ AddSegment \/ RepairAgain
Spec == Init /\ [][Next]_input

-----------------------------------------------------------------------------
(* Properties *)

options == collectOptions(input.file, Obj(input.flag))

\* The translator, with the secrets of these options.
Translate(o) ==
    INSTANCE Translator WITH
      OriginSecrets <- o.originSecrets, DomainSecrets <- o.domainSecrets,
      DefaultSecret <- o.secret, NoName <- Empty, IngressClass <- "argo-tunnel",
      NoCert <- Missing, Covers <- {}, Absent <- Missing,
      Keys <- {}, Rules <- {}, Configs <- {}, NoTunnel <- Missing

\* docs/guide_origin_secret_config.md: "specific hosts take precedence over
\* wildcard hosts".  The secret the translator falls back to for a host is that
\* of the last group that lists the host, else of the last that lists the
\* wildcard of its domain, else the flag's, else that of the last '*' group.
SecretPrecedence ==
    input.of = "file" /\ Starts(input.file, input.flag) =>
      \A host \in IngressHosts :
        LET Listing(h) == {i \in DOMAIN input.file : h \in input.file[i].hosts}
            exact  == Listing(host)
            domain == Listing(<<"*">> \o Tail(host))
            ranked == IF exact # {} THEN exact
                      ELSE IF domain # {} THEN domain
                      ELSE IF input.flag = <<Empty>> THEN Listing(Star) ELSE {}
            secret == Translate(options)!FallbackSecret(host)
        IN  IF ranked # {} THEN secret = input.file[Max(ranked)].secret
            ELSE IF input.flag = <<Empty>> THEN secret = NoSecret
            ELSE secret = [namespace |-> input.flag[1], name |-> input.flag[2]]

\* A file that Validate accepts cannot make SecretGroups misread a host: h[0]
\* and h[2:] are in range, what they leave of a wildcard is a domain, and every
\* secret has a key <namespace>/<name> that the cache of secrets may hold.
AcceptedFileIsSafe ==
    input.of = "file" /\ Starts(input.file, input.flag) =>
      /\ \A h \in Hosts(input.file) : h[1] # Empty
      /\ \A d \in DOMAIN options.domainSecrets : IsDNS1123Subdomain(d)
      /\ \A h \in DOMAIN options.originSecrets : IsDNS1123Subdomain(h)
      /\ \A i \in DOMAIN input.file : input.file[i].secret.name \notin Slashed

\* The values of the fields of tunnelOptions, as any build has them: Go's int and
\* uint are of 32 bits at least, and uint64 of 64.
Holds(o, text) ==
    CASE o \in {"compressionQuality", "heartbeatCount"} ->
           text.type = "int" /\ 0 <= text.val /\ text.val < 2^Wide
      [] o = "haConnections" ->
           text.type = "int" /\ -(2^(Narrow - 1)) <= text.val /\ text.val < 2^(Narrow - 1)
      [] o = "retries" -> text.type = "int" /\ 0 <= text.val /\ text.val < 2^Narrow
      [] o = "heartbeatInterval" ->
           text.type = "duration" \/ (text.type = "int" /\ text.val = 0)
      [] o = "noChunkedEncoding" -> text.type = "word" /\ text.val \in {"true", "false"}
      [] o \in {"lbPool", "tags"} -> TRUE
Spelled(o, text) == IF o = "noChunkedEncoding" THEN text.val = "true" ELSE text.val

\* The defaults of docs/controls.md; a tunnel is in no pool by default.
Documented(o) ==
    CASE o = "compressionQuality" -> 0 [] o = "haConnections"     -> 4
      [] o = "heartbeatCount"     -> 5 [] o = "heartbeatInterval" -> 5
      [] o = "retries"            -> 3 [] o = "noChunkedEncoding" -> FALSE
      [] o \in {"lbPool", "tags"} -> ""

\* Each option of a tunnel is exactly the value its own annotation spells when
\* the option's type holds it, never a part of it or the value of another one,
\* and the default that docs/controls.md gives it otherwise.
OptionsExact ==
    input.of = "annotations" =>
      LET opts == collectTunnelOptions(parseIngressTunnelOptions(input.anns))
      IN  \A o \in OptionNames :
            opts[o] = IF input.anns[o] # Missing /\ Holds(o, input.anns[o])
                      THEN Spelled(o, input.anns[o]) ELSE Documented(o)

\* Without a limit no tag is lost to the capacity computed from the length of
\* the text: each key that has a value gets the last one.
NoTagLost ==
    input.of = "tags" =>
      LET tags == parseTags(input.segs, -1)
          used == {i \in DOMAIN input.segs : IsTag(input.segs[i])}
      IN  /\ DOMAIN tags.table = {input.segs[i].key : i \in used}
          /\ \A i \in used :
               (\A j \in used : j > i => input.segs[j].key # input.segs[i].key)
                 => tags.table[input.segs[i].key] = input.segs[i].val

\* docs/controls.md: "the system limits tags to 32 unique custom tags".  With a
\* limit, the tags are the first unique keys up to it, neither more nor less.
TagLimit ==
    input.of = "tags" /\ input.limit >= 0 =>
      LET all == parseTags(input.segs, -1).order
          got == parseTags(input.segs, input.limit).order
      IN  got = SubSeq(all, 1, Min({input.limit, Len(all)}))

\* When the longest delay of the flags fits 64 bits, every repair waits at
\* least the delay and at most that: no attempt comes at once or never.
DelayInRange ==
    input.of = "backoff" =>
      LET longest == (IF input.steps = 0 THEN 1 ELSE 2^(input.steps - 1)) * input.delay
          noise   == (input.jitter * input.delay) \div 8
      IN  longest + noise \in Signed(Wide) =>
            \A n \in 0..noise :
              repairDelay(input.step, input.delay, n, input.steps)
                \in input.delay .. longest + noise
=============================================================================
