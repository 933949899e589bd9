--------------------------- MODULE SettingsProofs ---------------------------
(***************************************************************************)
(* What SettingsCases checks of the options on small inputs, for all files *)
(* of origin secrets, flags, annotations, tags and back-off flags.         *)
(*                                                                         *)
(* parseTags and the powers of two are recursive, and what they compute is *)
(* shown by induction.  The least number outside of a set gives it         *)
(* (Induction): a claim for every position of a list is that the set of    *)
(* the positions where it holds has them all (Positions).                  *)
(***************************************************************************)
EXTENDS SettingsCases, SequenceTheorems, FiniteSetTheorems, WellFoundedInduction, TLAPS

\* An input is built of the groups, flags and texts of the instance.
Built ==
    /\ input.of = "file" => input.file \in Seq(Groups)
    /\ input.of = "annotations" =>
         \A o \in OptionNames : input.anns[o] \in Texts[o] \cup {Missing}
    /\ input.of = "tags" => input.segs \in Seq(Segments) /\ input.limit \in Limits
    /\ input.of = "backoff" =>
         /\ input.step \in Nat /\ input.delay \in Delays
         /\ input.jitter \in Jitters /\ input.steps \in Steps

\* Every step makes the input longer by a part of the instance.
LEMMA BuiltHolds == Spec => []Built
  <1>1. Init => Built
    <2>1. ASSUME NEW flag, input = File(<<>>, flag) PROVE Built
      BY <2>1, EmptySeq DEF Built, File
    <2>2. ASSUME input = Annotated([o \in OptionNames |-> Missing]) PROVE Built
      BY <2>2 DEF Built, Annotated
    <2>3. ASSUME NEW seg \in Segments, NEW limit \in Limits, input = Tagged(<<seg>>, limit)
          PROVE  Built
      <3>1. <<seg>> \in Seq(Segments)
        OBVIOUS
      <3> QED BY <2>3, <3>1 DEF Built, Tagged
    <2>4. ASSUME NEW delay \in Delays, NEW jitter \in Jitters, NEW steps \in Steps,
                 input = Backoff(0, delay, jitter, steps)
          PROVE  Built
      BY <2>4 DEF Built, Backoff
    <2> QED BY <2>1, <2>2, <2>3, <2>4 DEF Init
  <1>2. Built /\ [Next]_input => Built'
    <2> SUFFICES ASSUME Built, [Next]_input PROVE Built'
      OBVIOUS
    <2>1. CASE AddGroup
      BY <2>1 DEF Built, AddGroup
    <2>2. CASE Annotate
      BY <2>2 DEF Built, Annotate
    <2>3. CASE AddSegment
      BY <2>3 DEF Built, AddSegment
    <2>4. CASE RepairAgain
      BY <2>4 DEF Built, RepairAgain
    <2>5. CASE UNCHANGED input
      BY <2>5 DEF Built
    <2> QED BY <2>1, <2>2, <2>3, <2>4, <2>5 DEF Next
  <1> QED BY <1>1, <1>2, PTL DEF Spec

-----------------------------------------------------------------------------
(* Origin secrets *)

\* A host of a file that is accepted: '*', a wildcard, or a name.
LEMMA AcceptedHost ==
    ASSUME NEW h \in Seq(STRING), h # <<>>, ValidHost(h)
    PROVE  /\ 1 \in DOMAIN h /\ h[1] # Empty
           /\ IsWild(h) => h[1] = "*" /\ IsDNS1123Subdomain(Tail(h)) /\ WildKey(h) = Tail(h)
           /\ ~IsWild(h) /\ h # Star => IsDNS1123Subdomain(h)
  <1>1. 1 \in DOMAIN h
    BY EmptySeq
  <1>2. CASE h = Star
    BY <1>1, <1>2, FileAssumption DEF Star, IsWild
  <1>3. CASE h # Star /\ IsWildcardDNS1123Subdomain(h)
    BY <1>1, <1>3, FileAssumption DEF IsWildcardDNS1123Subdomain, WildKey, IsWild
  <1>4. CASE IsDNS1123Subdomain(h)
    BY <1>1, <1>4, FileAssumption DEF IsDNS1123Subdomain, IsWild
  <1> QED BY <1>2, <1>3, <1>4 DEF ValidHost

\* Files of the instance that are accepted.
LEMMA AcceptedFile ==
    ASSUME NEW file \in Seq(Groups), Validate(file)
    PROVE  /\ DOMAIN file = 1..Len(file) /\ Len(file) \in Nat
           /\ \A i \in DOMAIN file : /\ ValidSecret(file[i].secret)
                                      /\ file[i].secret # NoSecret
           /\ \A h \in Hosts(file) : h \in Seq(STRING) /\ h # <<>> /\ ValidHost(h)
  <1>1. DOMAIN file = 1..Len(file) /\ Len(file) \in Nat /\ \A i \in DOMAIN file : file[i] \in Groups
    BY LenProperties
  <1> QED BY <1>1, FileAssumption DEF Validate, Hosts

\* The options, as one record.
Wild(file) == {h \in Hosts(file) : IsWild(h)}
OriginOf(file) == [h \in Hosts(file) \ (Wild(file) \cup {Star}) |-> LastSecret(file, {h})]
DomainOf(file) ==
    [d \in {WildKey(h) : h \in Wild(file)} |->
       LastSecret(file, {h \in Wild(file) : WildKey(h) = d})]
DefaultOf(file, obj) ==
    IF obj.name = Empty \/ obj.namespace = Empty THEN LastSecret(file, {Star})
    ELSE [namespace |-> obj.namespace, name |-> obj.name]

LEMMA OptionsOf ==
    ASSUME NEW file, NEW obj
    PROVE  LET o == collectOptions(file, obj)
           IN  /\ o.originSecrets = OriginOf(file) /\ o.domainSecrets = DomainOf(file)
               /\ o.secret = DefaultOf(file, obj)
  <1> DEFINE all == LastSecret(file, {Star})
  <1>1. SecretGroups(Defaults, file) =
          [Defaults EXCEPT !.originSecrets = OriginOf(file), !.domainSecrets = DomainOf(file),
                           !.secret = IF all = NoSecret THEN @ ELSE all]
    BY DEF SecretGroups, OriginOf, DomainOf, Wild
  <1>2. SecretGroups(Defaults, file) =
          [originSecrets |-> OriginOf(file), domainSecrets |-> DomainOf(file), secret |-> all]
    BY <1>1 DEF Defaults
  <1> QED BY <1>2 DEF collectOptions, Secret, DefaultOf

\* A file that Validate accepts is read as it was meant, for every file and
\* flag: SecretGroups slices no host out of range, a wildcard leaves a domain
\* and the name of every secret is one part of a key.
THEOREM AcceptedFileHolds == Spec => []AcceptedFileIsSafe
  <1>1. Built => AcceptedFileIsSafe
    <2> SUFFICES ASSUME Built, input.of = "file", Starts(input.file, input.flag)
                 PROVE  /\ \A h \in Hosts(input.file) : h[1] # Empty
                        /\ \A d \in DOMAIN options.domainSecrets : IsDNS1123Subdomain(d)
                        /\ \A h \in DOMAIN options.originSecrets : IsDNS1123Subdomain(h)
                        /\ \A i \in DOMAIN input.file : input.file[i].secret.name \notin Slashed
      BY DEF AcceptedFileIsSafe
    <2> DEFINE file == input.file
    <2>1. file \in Seq(Groups) /\ Validate(file)
      BY DEF Built, Starts
    <2>2. \A h \in Hosts(file) : h \in Seq(STRING) /\ h # <<>> /\ ValidHost(h)
      BY <2>1, AcceptedFile
    <2>3. options.originSecrets = OriginOf(file) /\ options.domainSecrets = DomainOf(file)
      BY OptionsOf DEF options
    <2>4. \A h \in Hosts(file) : h[1] # Empty
      BY <2>2, AcceptedHost
    <2>5. \A d \in DOMAIN options.domainSecrets : IsDNS1123Subdomain(d)
      <3>1. \A h \in Wild(file) : IsDNS1123Subdomain(WildKey(h))
        BY <2>2, AcceptedHost DEF Wild
      <3> QED BY <2>3, <3>1 DEF DomainOf
    <2>6. \A h \in DOMAIN options.originSecrets : IsDNS1123Subdomain(h)
      BY <2>2, <2>3, AcceptedHost DEF OriginOf, Wild
    <2>7. \A i \in DOMAIN file : file[i].secret.name \notin Slashed
      BY <2>1, AcceptedFile DEF ValidSecret
    <2> QED BY <2>4, <2>5, <2>6, <2>7
  <1> QED BY <1>1, BuiltHolds, PTL

\* A non-empty set of positions of a list has a last one, which is its maximum.
LEMMA LastPosition ==
    ASSUME NEW n \in Nat, NEW S \in SUBSET (1..n), S # {}
    PROVE  Max(S) \in S /\ (CHOOSE i \in S : \A j \in S : j <= i) = Max(S)
  <1> DEFINE T == {m \in 0..n : n - m \in S}
  <1>1. T \subseteq Nat /\ T # {}
    <2>1. PICK i \in S : TRUE
      OBVIOUS
    <2>2. n - i \in T /\ T \subseteq Nat
      BY <2>1
    <2> HIDE DEF T
    <2> QED BY <2>2
  <1> HIDE DEF T
  <1>2. PICK m \in T : \A y \in T : ~(<<y, m>> \in OpToRel(<, Nat))
    BY <1>1, NatLessThanWellFounded, WFMin
  <1>3. \A y \in T : ~(y < m)
    BY <1>1, <1>2 DEF OpToRel
  <1>4. \A j \in S : n - j \in T
    BY DEF T
  <1>5. n - m \in S /\ \A j \in S : j <= n - m
    BY <1>3, <1>4 DEF T
  <1>6. \E i \in S : \A j \in S : i >= j
    BY <1>5
  <1>7. Max(S) \in S /\ \A j \in S : Max(S) >= j
    BY <1>6 DEF Max
  <1> DEFINE last == CHOOSE i \in S : \A j \in S : j <= i
  <1>8. last \in S /\ \A j \in S : j <= last
    BY <1>5
  <1> HIDE DEF last
  <1>9. last = Max(S)
    <2>1. \A j \in S : j \in Nat
      OBVIOUS
    <2>2. last \in Nat /\ Max(S) \in Nat
      BY <1>7, <1>8, <2>1
    <2>3. Max(S) >= last /\ Max(S) <= last
      BY <1>7, <1>8, Zenon
    <2> QED BY <2>2, <2>3
  <1> QED BY <1>7, <1>9 DEF last

\* The secret of the last group that lists a host.
LEMMA LastGroup ==
    ASSUME NEW file \in Seq(Groups), NEW h
    PROVE  LET listing == {i \in DOMAIN file : h \in file[i].hosts}
           IN  /\ LastSecret(file, {h}) = IF listing = {} THEN NoSecret
                                          ELSE file[Max(listing)].secret
               /\ listing = {} <=> h \notin Hosts(file)
  <1> DEFINE listing == {i \in DOMAIN file : h \in file[i].hosts}
             is == {i \in DOMAIN file : file[i].hosts \cap {h} # {}}
  <1>1. is = listing
    OBVIOUS
  <1>2. listing \in SUBSET (1..Len(file)) /\ Len(file) \in Nat
    BY LenProperties
  <1>3. listing = {} <=> h \notin Hosts(file)
    BY DEF Hosts
  <1>4. LastSecret(file, {h}) =
          IF is = {} THEN NoSecret ELSE file[CHOOSE i \in is : \A j \in is : j <= i].secret
    BY DEF LastSecret
  <1> HIDE DEF is, listing
  <1>5. LastSecret(file, {h}) = IF listing = {} THEN NoSecret ELSE file[Max(listing)].secret
    BY <1>1, <1>2, <1>4, LastPosition
  <1> QED BY <1>3, <1>5 DEF listing

\* The wildcard of a domain is the one host that h[2:] turns into the domain.
LEMMA OneWildcard ==
    ASSUME NEW host \in Seq(STRING), Len(host) > 1
    PROVE  LET w == <<"*">> \o Tail(host)
           IN  /\ w # Star /\ w[1] = "*" /\ Tail(w) = Tail(host)
               /\ \A h \in Seq(STRING) :
                    h # <<>> /\ h[1] = "*" /\ Tail(h) = Tail(host) => h = w
  <1> DEFINE S == STRING \cup {"*"}
             w == <<"*">> \o Tail(host)
  <1>1. \A h \in Seq(STRING) : h \in Seq(S)
    BY SeqMonotonic
  <1>2. host \in Seq(S) /\ host # <<>> /\ Len(host) \in Nat
    BY <1>1, EmptySeq
  <1>3. Tail(host) \in Seq(S) /\ Len(Tail(host)) = Len(host) - 1
    BY <1>2, HeadTailProperties
  <1>4. <<"*">> \in Seq(S) /\ Len(<<"*">>) = 1
    OBVIOUS
  <1>5. /\ w \in Seq(S) /\ Len(w) = Len(host) /\ w[1] = "*"
        /\ \A i \in 1..Len(Tail(host)) : w[i + 1] = Tail(host)[i]
    BY <1>2, <1>3, <1>4, ConcatProperties
  <1> HIDE DEF w, S
  <1>6. w # Star /\ w # <<>>
    BY <1>2, <1>5 DEF Star
  <1>7. Tail(w) = Tail(host)
    <2>1. /\ Tail(w) \in Seq(S) /\ Len(Tail(w)) = Len(host) - 1
          /\ \A i \in 1..Len(Tail(w)) : Tail(w)[i] = w[i + 1]
      BY <1>5, <1>6, HeadTailProperties
    <2> QED BY <1>3, <1>5, <2>1, SeqEqual
  <1>8. ASSUME NEW h \in Seq(S), h # <<>>, h[1] = "*", Tail(h) = Tail(host)
        PROVE  h = w
    <2>1. /\ Len(h) \in Nat /\ Len(Tail(h)) = Len(h) - 1
          /\ \A i \in 1..Len(Tail(h)) : Tail(h)[i] = h[i + 1]
      BY <1>8, HeadTailProperties, LenProperties
    <2>2. Len(h) = Len(w)
      <3>1. Len(h) - 1 = Len(host) - 1
        BY ONLY <1>3, <1>8, <2>1, Zenon
      <3> QED BY <1>2, <1>5, <2>1, <3>1
    <2>3. ASSUME NEW i \in 1..Len(h) PROVE h[i] = w[i]
      <3>1. CASE i = 1
        BY <1>5, <1>8, <3>1
      <3>2. CASE i # 1
        <4>1. i - 1 \in 1..Len(Tail(host)) /\ (i - 1) + 1 = i
          BY <1>8, <2>1, <3>2
        <4>2. w[i] = Tail(host)[i - 1] /\ h[i] = Tail(h)[i - 1]
          BY <1>5, <1>8, <2>1, <4>1
        <4> QED BY <1>8, <4>2
      <3> QED BY <3>1, <3>2
    <2> QED BY <1>5, <2>2, <2>3, SeqEqual
  <1> QED BY <1>1, <1>5, <1>6, <1>7, <1>8 DEF w

\* The secret a host falls back to.
LEMMA Fallback ==
    ASSUME NEW o, NEW host
    PROVE  Translate(o)!FallbackSecret(host) =
             IF host \in DOMAIN o.originSecrets THEN o.originSecrets[host]
             ELSE IF Len(host) > 1 /\ Tail(host) \in DOMAIN o.domainSecrets
             THEN o.domainSecrets[Tail(host)]
             ELSE o.secret
  BY DEF Translate!FallbackSecret, Translate!HasDomain, Translate!parseDomain

\* For every file, flag and host that is not a wildcard: the last group that
\* lists the host, else the last that lists the wildcard of its domain, else
\* the flag, else the last '*' group.
THEOREM PrecedenceHolds == Spec => []SecretPrecedence
  <1>1. Built => SecretPrecedence
    <2> SUFFICES ASSUME Built, input.of = "file", Starts(input.file, input.flag),
                        NEW host \in IngressHosts
                 PROVE  LET Listing(h) == {i \in DOMAIN input.file : h \in input.file[i].hosts}
                            exact  == Listing(host)
                            domain == Listing(<<"*">> \o Tail(host))
                            ranked == IF exact # {} THEN exact
                                      ELSE IF domain # {} THEN domain
                                      ELSE IF input.flag = <<Empty>> THEN Listing(Star) ELSE {}
                            secret == Translate(options)!FallbackSecret(host)
                        IN  IF ranked # {} THEN secret = input.file[Max(ranked)].secret
                            ELSE IF input.flag = <<Empty>> THEN secret = NoSecret
                            ELSE secret = [namespace |-> input.flag[1], name |-> input.flag[2]]
      BY DEF SecretPrecedence
    <2> DEFINE file == input.file
               flag == input.flag
               obj == Obj(flag)
               w == <<"*">> \o Tail(host)
               Listing(h) == {i \in DOMAIN file : h \in file[i].hosts}
               wild == Wild(file)
               secret == Translate(options)!FallbackSecret(host)
    <2>1. file \in Seq(Groups) /\ Validate(file) /\ ValidObj(flag)
      BY DEF Built, Starts
    <2>2. \A h \in Hosts(file) : h \in Seq(STRING) /\ h # <<>> /\ ValidHost(h)
      BY <2>1, AcceptedFile
    <2>3. host \in Seq(STRING) /\ Len(host) > 1 /\ host[1] \notin StarFirst
      BY IngressHostsAssumption
    <2>4. host # Star /\ ~IsWild(host)
      BY <2>3, FileAssumption DEF Star, IsWild
    <2>5. /\ w # Star /\ w[1] = "*" /\ Tail(w) = Tail(host)
          /\ \A h \in Seq(STRING) : h # <<>> /\ h[1] = "*" /\ Tail(h) = Tail(host) => h = w
      BY <2>3, OneWildcard
    <2>6. \A h : /\ LastSecret(file, {h}) = IF Listing(h) = {} THEN NoSecret
                                             ELSE file[Max(Listing(h))].secret
                 /\ Listing(h) = {} <=> h \notin Hosts(file)
      BY <2>1, LastGroup
    <2>7. /\ options.originSecrets = OriginOf(file) /\ options.domainSecrets = DomainOf(file)
          /\ options.secret = DefaultOf(file, obj)
      BY OptionsOf DEF options
    <2> HIDE DEF file, flag, w, Listing
    <2>8. options.secret = IF flag = <<Empty>> THEN LastSecret(file, {Star})
                           ELSE [namespace |-> flag[1], name |-> flag[2]]
      BY <2>1, <2>7 DEF ValidObj, Obj, DefaultOf
    <2>9. /\ host \in DOMAIN options.originSecrets <=> host \in Hosts(file)
          /\ host \in Hosts(file) => options.originSecrets[host] = LastSecret(file, {host})
      BY <2>4, <2>7 DEF OriginOf, Wild
    <2>10. w \in Hosts(file) => w \in wild /\ WildKey(w) = Tail(host)
      BY <2>5, FileAssumption DEF IsWild, WildKey, Wild
    <2>11. \A h \in wild : WildKey(h) = Tail(host) => h = w
      BY <2>2, <2>5, AcceptedHost DEF Wild
    <2>12. /\ Tail(host) \in DOMAIN options.domainSecrets <=> w \in Hosts(file)
           /\ w \in Hosts(file) => options.domainSecrets[Tail(host)] = LastSecret(file, {w})
      <3>1. Tail(host) \in {WildKey(h) : h \in wild} <=> w \in Hosts(file)
        <4>1. ASSUME NEW h \in wild, WildKey(h) = Tail(host) PROVE w \in Hosts(file)
          BY <2>11, <4>1 DEF Wild
        <4>2. ASSUME w \in Hosts(file) PROVE Tail(host) \in {WildKey(h) : h \in wild}
          BY <2>10, <4>2
        <4> QED BY <4>1, <4>2
      <3>2. w \in Hosts(file) => {h \in wild : WildKey(h) = Tail(host)} = {w}
        BY <2>10, <2>11
      <3> QED BY <2>7, <3>1, <3>2 DEF DomainOf
    <2>13. secret = IF host \in Hosts(file) THEN LastSecret(file, {host})
                    ELSE IF w \in Hosts(file) THEN LastSecret(file, {w})
                    ELSE options.secret
      <3>1. secret = IF host \in DOMAIN options.originSecrets THEN options.originSecrets[host]
                     ELSE IF Len(host) > 1 /\ Tail(host) \in DOMAIN options.domainSecrets
                     THEN options.domainSecrets[Tail(host)]
                     ELSE options.secret
        BY Fallback
      <3> HIDE DEF secret
      <3> QED BY <2>3, <2>9, <2>12, <3>1
    <2> HIDE DEF secret
    <2>14. CASE Listing(host) # {}
      BY <2>6, <2>13, <2>14 DEF secret, file, Listing
    <2>15. CASE Listing(host) = {} /\ Listing(w) # {}
      BY <2>6, <2>13, <2>15 DEF secret, file, Listing, w
    <2>16. CASE Listing(host) = {} /\ Listing(w) = {}
      BY <2>6, <2>8, <2>13, <2>16 DEF secret, file, Listing, w, flag
    <2> QED BY <2>14, <2>15, <2>16, SMTT(30)
  <1> QED BY <1>1, BuiltHolds, PTL

-----------------------------------------------------------------------------
(* Induction *)

\* Induction: the least number outside of S would have to be 0, or to follow
\* one in S.
LEMMA Induction ==
    ASSUME NEW S, 0 \in S, \A n \in Nat : n \in S => n + 1 \in S
    PROVE  Nat \subseteq S
  <1> SUFFICES ASSUME Nat \ S # {} PROVE FALSE
    OBVIOUS
  <1>1. Nat \ S \subseteq Nat
    OBVIOUS
  <1>2. PICK m \in Nat \ S : \A y \in Nat \ S : ~(<<y, m>> \in OpToRel(<, Nat))
    BY <1>1, NatLessThanWellFounded, WFMin
  <1>3. \A y \in Nat \ S : ~(y < m)
    BY <1>2 DEF OpToRel
  <1>4. m # 0 /\ m - 1 \in Nat
    OBVIOUS
  <1>5. m - 1 \in S
    BY <1>3, <1>4
  <1> QED BY <1>4, <1>5

\* Induction over the positions of a list.
LEMMA Positions ==
    ASSUME NEW n \in Nat, NEW S, 0 \in S, \A i \in 1..n : i - 1 \in S => i \in S
    PROVE  0..n \subseteq S
  <1> DEFINE T == {i \in Nat : i <= n => i \in S}
  <1>1. 0 \in T
    OBVIOUS
  <1>2. ASSUME NEW i \in Nat, i \in T PROVE i + 1 \in T
    <2>1. i + 1 <= n => i + 1 \in 1..n /\ (i + 1) - 1 = i /\ i \in S
      BY <1>2
    <2> QED BY <2>1
  <1> HIDE DEF T
  <1>3. Nat \subseteq T
    BY <1>1, <1>2, Induction
  <1> QED BY <1>3 DEF T

-----------------------------------------------------------------------------
(* Tags *)

\* The loop of parseTags, as a function of the position.
Step(segs, n, tags, i) ==
    IF tags.m < TagCap(segs, n) /\ IsTag(segs[i]) THEN AddTag(tags, segs[i]) ELSE tags
IsScan(f, segs, n) ==
    f = [i \in 0..Len(segs) |-> IF i = 0 THEN NoTags ELSE Step(segs, n, f[i - 1], i)]
Scan(segs, n) == CHOOSE f : IsScan(f, segs, n)

\* What parseTags returns is the value of the loop at the end of the text.
LEMMA ScanIs ==
    ASSUME NEW segs, NEW n
    PROVE  parseTags(segs, n) = IF n = 0 THEN NoTags ELSE Scan(segs, n)[Len(segs)]
  BY DEF parseTags, Scan, IsScan, Step

\* The recursion has a solution: one for 1..n extends to one for 1..(n + 1).
LEMMA ScanSteps ==
    ASSUME NEW segs, Len(segs) \in Nat, NEW n
    PROVE  /\ Scan(segs, n)[0] = NoTags
           /\ \A i \in 1..Len(segs) :
                Scan(segs, n)[i] = Step(segs, n, Scan(segs, n)[i - 1], i)
  <1> DEFINE Value(f, i) == IF i = 0 THEN NoTags ELSE Step(segs, n, f[i - 1], i)
             Solves(f, N) == f = [i \in 0..N |-> Value(f, i)]
             S == {N \in Nat : \E f : Solves(f, N)}
  <1>1. 0 \in S
    <2>1. Solves([i \in 0..0 |-> NoTags], 0)
      OBVIOUS
    <2> QED BY <2>1
  <1>2. ASSUME NEW N \in Nat, N \in S PROVE N + 1 \in S
    <2>1. PICK f : Solves(f, N)
      BY <1>2
    <2> DEFINE g == [i \in 0..(N + 1) |-> IF i = N + 1 THEN Step(segs, n, f[N], N + 1) ELSE f[i]]
    <2>2. ASSUME NEW i \in 0..(N + 1) PROVE g[i] = Value(g, i)
      <3>1. CASE i = N + 1
        BY <3>1
      <3>2. CASE i \in 0..N
        <4>1. f[i] = Value(f, i)
          BY <2>1, <3>2
        <4>2. i # 0 => i - 1 \in 0..N
          BY <3>2
        <4>3. g[i] = f[i] /\ (i # 0 => g[i - 1] = f[i - 1])
          BY <3>2, <4>2
        <4> HIDE DEF g
        <4> QED BY <4>1, <4>3
      <3> QED BY <3>1, <3>2
    <2>3. g = [i \in 0..(N + 1) |-> g[i]]
      OBVIOUS
    <2>4. Solves(g, N + 1)
      <3> HIDE DEF g, Value
      <3> QED BY <2>2, <2>3
    <2>5. N + 1 \in Nat
      OBVIOUS
    <2> HIDE DEF g, Solves
    <2> QED BY <2>4, <2>5
  <1> HIDE DEF S
  <1>3. Nat \subseteq S
    BY <1>1, <1>2, Induction
  <1>4. \E f : Solves(f, Len(segs))
    BY <1>3 DEF S
  <1>5. IsScan(Scan(segs, n), segs, n)
    BY <1>4 DEF IsScan, Scan
  <1> DEFINE s == Scan(segs, n)
  <1>6. s = [i \in 0..Len(segs) |-> IF i = 0 THEN NoTags ELSE Step(segs, n, s[i - 1], i)]
    BY <1>5 DEF IsScan
  <1> HIDE DEF s
  <1>7. s[0] = NoTags /\ \A i \in 1..Len(segs) : s[i] = Step(segs, n, s[i - 1], i)
    BY <1>6
  <1> QED BY <1>7 DEF s

\* The lengths of the prefixes of a text.
IsSizes(f, segs) ==
    f = [i \in 0..Len(segs) |-> IF i = 0 THEN -1 ELSE f[i - 1] + 1 + SegmentSize(segs[i])]
Sizes(segs) == CHOOSE f : IsSizes(f, segs)

\* The length of the text is that sum at its end.
LEMMA SizeIs ==
    ASSUME NEW segs
    PROVE  TextSize(segs) = Sizes(segs)[Len(segs)]
  BY DEF TextSize, Sizes, IsSizes

\* So has the sum of the sizes.
LEMMA SizeSteps ==
    ASSUME NEW segs, Len(segs) \in Nat
    PROVE  /\ Sizes(segs)[0] = -1
           /\ \A i \in 1..Len(segs) :
                Sizes(segs)[i] = Sizes(segs)[i - 1] + 1 + SegmentSize(segs[i])
  <1> DEFINE Value(f, i) == IF i = 0 THEN -1 ELSE f[i - 1] + 1 + SegmentSize(segs[i])
             Solves(f, N) == f = [i \in 0..N |-> Value(f, i)]
             S == {N \in Nat : \E f : Solves(f, N)}
  <1>1. 0 \in S
    <2>1. Solves([i \in 0..0 |-> -1], 0)
      OBVIOUS
    <2> QED BY <2>1
  <1>2. ASSUME NEW N \in Nat, N \in S PROVE N + 1 \in S
    <2>1. PICK f : Solves(f, N)
      BY <1>2
    <2> DEFINE g == [i \in 0..(N + 1) |-> IF i = N + 1 THEN f[N] + 1 + SegmentSize(segs[N + 1]) ELSE f[i]]
    <2>2. ASSUME NEW i \in 0..(N + 1) PROVE g[i] = Value(g, i)
      <3>1. CASE i = N + 1
        BY <3>1
      <3>2. CASE i \in 0..N
        <4>1. f[i] = Value(f, i)
          BY <2>1, <3>2
        <4>2. i # 0 => i - 1 \in 0..N
          BY <3>2
        <4>3. g[i] = f[i] /\ (i # 0 => g[i - 1] = f[i - 1])
          BY <3>2, <4>2
        <4> HIDE DEF g
        <4> QED BY <4>1, <4>3
      <3> QED BY <3>1, <3>2
    <2>3. g = [i \in 0..(N + 1) |-> g[i]]
      OBVIOUS
    <2>4. Solves(g, N + 1)
      <3> HIDE DEF g, Value
      <3> QED BY <2>2, <2>3
    <2>5. N + 1 \in Nat
      OBVIOUS
    <2> HIDE DEF g, Solves
    <2> QED BY <2>4, <2>5
  <1> HIDE DEF S
  <1>3. Nat \subseteq S
    BY <1>1, <1>2, Induction
  <1>4. \E f : Solves(f, Len(segs))
    BY <1>3 DEF S
  <1>5. IsSizes(Sizes(segs), segs)
    BY <1>4 DEF IsSizes, Sizes
  <1> DEFINE s == Sizes(segs)
  <1>6. s = [i \in 0..Len(segs) |-> IF i = 0 THEN -1 ELSE s[i - 1] + 1 + SegmentSize(segs[i])]
    BY <1>5 DEF IsSizes
  <1> HIDE DEF s
  <1>7. s[0] = -1 /\ \A i \in 1..Len(segs) : s[i] = s[i - 1] + 1 + SegmentSize(segs[i])
    BY <1>6
  <1> QED BY <1>7 DEF s

\* A prefix of a text is no longer than the text, and a tag takes six
\* characters with its comma.
LEMMA PrefixSizes ==
    ASSUME NEW segs \in Seq(Segments)
    PROVE  /\ \A i \in 0..Len(segs) : /\ Sizes(segs)[i] \in Int
                                      /\ Sizes(segs)[i] <= Sizes(segs)[Len(segs)]
           /\ \A i \in 1..Len(segs) :
                IsTag(segs[i]) => Sizes(segs)[i] >= Sizes(segs)[i - 1] + 6
  <1> DEFINE z == Sizes(segs)
             N == Len(segs)
  <1>1. N \in Nat
    OBVIOUS
  <1>2. ASSUME NEW i \in 1..N
        PROVE  /\ z[i] = z[i - 1] + 1 + SegmentSize(segs[i])
               /\ SegmentSize(segs[i]) \in Nat
               /\ IsTag(segs[i]) => SegmentSize(segs[i]) >= 5
    <2>1. segs[i] \in Segments
      OBVIOUS
    <2>2. SegmentSize(segs[i]) \in Nat /\ (IsTag(segs[i]) => SegmentSize(segs[i]) >= 5)
      BY <2>1, SegmentsAssumption, SMTT(30) DEF SegmentSize, IsTag
    <2> QED BY <1>1, <2>2, SizeSteps
  <1>3. z[0] = -1
    BY <1>1, SizeSteps
  <1> HIDE DEF z, N
  <1>4. \A i \in 0..N : z[i] \in Int
    <2> DEFINE S == {i \in 0..N : z[i] \in Int}
    <2>1. 0 \in S
      BY <1>1, <1>3
    <2>2. \A i \in 1..N : i - 1 \in S => i \in S
      BY <1>1, <1>2
    <2> HIDE DEF S
    <2>3. 0..N \subseteq S
      BY <1>1, <2>1, <2>2, Positions
    <2> QED BY <2>3 DEF S
  <1>5. \A i \in 1..N : z[i - 1] <= z[i]
    <2> TAKE i \in 1..N
    <2>1. i - 1 \in 0..N
      BY <1>1
    <2> QED BY <1>2, <1>4, <2>1
  <1>6. \A i \in 0..N : z[i] <= z[N]
    <2> DEFINE S == {d \in 0..N : z[N - d] <= z[N]}
    <2>1. 0 \in S
      BY <1>1, <1>4
    <2>2. ASSUME NEW d \in 1..N, d - 1 \in S PROVE d \in S
      <3>1. /\ N - d \in 0..N /\ N - (d - 1) \in 1..N /\ (N - (d - 1)) - 1 = N - d
            /\ N \in 0..N /\ N - (d - 1) \in 0..N
        BY <1>1
      <3>2. z[N - d] <= z[N - (d - 1)] /\ z[N - (d - 1)] <= z[N]
        BY <1>5, <2>2, <3>1
      <3>3. z[N - d] \in Int /\ z[N - (d - 1)] \in Int /\ z[N] \in Int
        BY <1>4, <3>1
      <3> QED BY <3>2, <3>3
    <2> HIDE DEF S
    <2>3. 0..N \subseteq S
      BY <1>1, <2>1, <2>2, Positions
    <2>4. ASSUME NEW i \in 0..N PROVE z[i] <= z[N]
      <3>1. N - i \in 0..N /\ N - (N - i) = i
        BY <1>1
      <3> QED BY <2>3, <3>1 DEF S
    <2> QED BY <2>4
  <1>7. ASSUME NEW i \in 1..N, IsTag(segs[i]) PROVE z[i] >= z[i - 1] + 6
    <2>1. i - 1 \in 0..N
      BY <1>1
    <2>2. z[i - 1] \in Int /\ SegmentSize(segs[i]) \in Nat /\ SegmentSize(segs[i]) >= 5
      BY <1>2, <1>4, <1>7, <2>1
    <2>3. \A p \in Int, l \in Nat : l >= 5 => p + 1 + l >= p + 6
      OBVIOUS
    <2> QED BY <1>2, <2>2, <2>3, Zenon
  <1> QED BY <1>4, <1>6, <1>7 DEF z, N

\* What a scan has found: every key once, in the order of its list.
Collected(tags) ==
    /\ tags.m \in Nat /\ tags.order \in Seq({seg.key : seg \in Segments})
    /\ Len(tags.order) = tags.m
    /\ DOMAIN tags.table = {tags.order[j] : j \in 1..tags.m}

\* One tag more: the keys so far keep their places.
LEMMA AddTagCollects ==
    ASSUME NEW tags, Collected(tags), NEW seg \in Segments
    PROVE  /\ Collected(AddTag(tags, seg))
           /\ tags.m <= AddTag(tags, seg).m /\ AddTag(tags, seg).m <= tags.m + 1
           /\ \A j \in 1..tags.m : AddTag(tags, seg).order[j] = tags.order[j]
  <1> DEFINE next == AddTag(tags, seg)
             K == {s.key : s \in Segments}
  <1>1. DOMAIN next.table = DOMAIN tags.table \cup {seg.key}
    BY DEF AddTag
  <1>2. CASE seg.key \in DOMAIN tags.table
    <2>1. next.order = tags.order /\ next.m = tags.m
      BY <1>2 DEF AddTag
    <2> HIDE DEF next
    <2> QED BY <1>1, <1>2, <2>1 DEF Collected, next
  <1>3. CASE seg.key \notin DOMAIN tags.table
    <2>1. next.order = Append(tags.order, seg.key) /\ next.m = tags.m + 1
      BY <1>3 DEF AddTag
    <2>2. seg.key \in K /\ tags.order \in Seq(K) /\ Len(tags.order) = tags.m /\ tags.m \in Nat
      BY DEF Collected
    <2> HIDE DEF next, K
    <2>3. /\ next.order \in Seq(K) /\ Len(next.order) = tags.m + 1
          /\ \A j \in 1..tags.m : next.order[j] = tags.order[j]
          /\ next.order[tags.m + 1] = seg.key
      BY <2>1, <2>2
    <2>4. {next.order[j] : j \in 1..(tags.m + 1)} = {tags.order[j] : j \in 1..tags.m} \cup {seg.key}
      <3>1. 1..(tags.m + 1) = 1..tags.m \cup {tags.m + 1}
        BY <2>2
      <3>2. \A j \in 1..tags.m : next.order[j] = tags.order[j]
        BY <2>3
      <3>3. next.order[tags.m + 1] = seg.key
        BY <2>3
      <3> QED BY <3>1, <3>2, <3>3, Zenon
    <2> QED BY <1>1, <2>1, <2>2, <2>3, <2>4 DEF Collected, next, K
  <1> QED BY <1>2, <1>3

\* The capacity never decides: a segment that is a tag finds room for it, so it
\* is taken unless the limit is reached.
Takes(tags, n, seg) ==
    IF IsTag(seg) /\ (n < 0 \/ tags.m < n) THEN AddTag(tags, seg) ELSE tags

LEMMA CapacitySuffices ==
    ASSUME NEW segs \in Seq(Segments), NEW n \in Int \ {0}
    PROVE  /\ Scan(segs, n)[0] = NoTags
           /\ \A i \in 1..Len(segs) :
                Scan(segs, n)[i] = Takes(Scan(segs, n)[i - 1], n, segs[i])
           /\ \A i \in 0..Len(segs) : Collected(Scan(segs, n)[i])
  <1> DEFINE s == Scan(segs, n)
             z == Sizes(segs)
             N == Len(segs)
             Room(i) == Collected(s[i]) /\ 6 * s[i].m <= z[i] + 1
  <1>1. N \in Nat
    OBVIOUS
  <1>2. s[0] = NoTags /\ \A i \in 1..N : s[i] = Step(segs, n, s[i - 1], i)
    BY <1>1, ScanSteps
  <1>3. z[0] = -1 /\ TextSize(segs) = z[N]
    BY <1>1, SizeSteps, SizeIs
  <1>4. /\ \A i \in 0..N : z[i] \in Int /\ z[i] <= z[N]
        /\ \A i \in 1..N : IsTag(segs[i]) => z[i] >= z[i - 1] + 6
    BY PrefixSizes
  <1>5. \A i \in 1..N : z[i] >= z[i - 1]
    <2> TAKE i \in 1..N
    <2>1. segs[i] \in Segments
      OBVIOUS
    <2>2. SegmentSize(segs[i]) \in Nat
      BY <2>1, SegmentsAssumption DEF SegmentSize
    <2>3. i - 1 \in 0..N /\ z[i] = z[i - 1] + 1 + SegmentSize(segs[i])
      BY <1>1, SizeSteps
    <2> HIDE DEF z, N
    <2> QED BY <1>4, <2>2, <2>3
  <1>6. \A i \in 1..N : segs[i] \in Segments
    OBVIOUS
  <1> HIDE DEF s, z, N
  <1>7. ASSUME NEW i \in 1..N, Room(i - 1)
        PROVE  s[i] = Takes(s[i - 1], n, segs[i]) /\ Room(i)
    <2> DEFINE t == s[i - 1]
               wc == (z[N] + 1) \div 4
    <2>1. i - 1 \in 0..N /\ i \in 0..N /\ N \in 0..N
      BY <1>1
    <2>2. t.m \in Nat /\ Collected(t)
      BY <1>7 DEF Collected
    <2>3. z[i - 1] \in Int /\ z[i] \in Int /\ z[N] \in Int /\ z[i] <= z[N] /\ 6 * t.m <= z[i - 1] + 1
      BY <1>4, <1>7, <2>1
    <2>4. ASSUME IsTag(segs[i]) PROVE 6 * (t.m + 1) <= z[i] + 1
      <3>1. z[i] >= z[i - 1] + 6
        BY <1>4, <2>4
      <3>2. \A a \in Nat, p, q \in Int : 6 * a <= p + 1 /\ q >= p + 6 => 6 * (a + 1) <= q + 1
        OBVIOUS
      <3> HIDE DEF t
      <3>3. t.m \in Nat /\ z[i - 1] \in Int /\ z[i] \in Int /\ 6 * t.m <= z[i - 1] + 1
        BY <2>2, <2>3
      <3> QED BY <3>1, <3>2, <3>3, Zenon
    <2>5. ASSUME IsTag(segs[i]) PROVE t.m < wc
      <3>1. \A a \in Nat, p, q \in Int : 6 * (a + 1) <= p + 1 /\ p <= q => a < (q + 1) \div 4
        OBVIOUS
      <3> HIDE DEF t
      <3>2. t.m \in Nat /\ z[i] \in Int /\ z[N] \in Int /\ z[i] <= z[N] /\ 6 * (t.m + 1) <= z[i] + 1
        BY <2>2, <2>3, <2>4, <2>5
      <3> QED BY <3>1, <3>2, Zenon
    <2>6. TagCap(segs, n) = IF n < 0 \/ wc < n THEN wc ELSE n
      BY <1>3 DEF TagCap
    <2>7. wc \in Int
      BY <2>3
    <2> HIDE DEF t, wc
    <2>8. IsTag(segs[i]) => (t.m < TagCap(segs, n) <=> n < 0 \/ t.m < n)
      BY <2>2, <2>5, <2>6, <2>7
    <2>9. s[i] = Takes(t, n, segs[i])
      BY <1>2, <2>8 DEF Step, Takes, t
    <2>10. Room(i)
      <3>1. CASE s[i] = t
        <4>1. \A a \in Nat, p, q \in Int : 6 * a <= p + 1 /\ q >= p => 6 * a <= q + 1
          OBVIOUS
        <4>2. t.m \in Nat /\ z[i - 1] \in Int /\ z[i] \in Int /\ 6 * t.m <= z[i - 1] + 1
          BY <2>2, <2>3
        <4>3. 6 * t.m <= z[i] + 1
          BY <1>5, <4>1, <4>2, Zenon
        <4> QED BY <2>2, <3>1, <4>3
      <3>2. CASE s[i] = AddTag(t, segs[i]) /\ IsTag(segs[i])
        <4>1. Collected(s[i]) /\ s[i].m <= t.m + 1
          BY <1>6, <2>2, <3>2, AddTagCollects
        <4>2. s[i].m \in Nat
          BY <4>1 DEF Collected
        <4>3. \A a, b \in Nat, p \in Int : b <= a + 1 /\ 6 * (a + 1) <= p + 1 => 6 * b <= p + 1
          OBVIOUS
        <4>4. t.m \in Nat /\ z[i] \in Int /\ 6 * (t.m + 1) <= z[i] + 1
          BY <2>2, <2>3, <2>4, <3>2
        <4>5. 6 * s[i].m <= z[i] + 1
          BY <4>1, <4>2, <4>3, <4>4, Zenon
        <4> QED BY <4>1, <4>5
      <3> QED BY <2>9, <3>1, <3>2 DEF Takes
    <2> QED BY <2>9, <2>10 DEF t
  <1>8. \A i \in 0..N : Room(i)
    <2> DEFINE S == {i \in 0..N : Room(i)}
    <2>1. Room(0)
      <3>1. NoTags.m = 0 /\ NoTags.order = <<>> /\ NoTags.table = <<>>
        BY DEF NoTags
      <3> QED BY <1>2, <1>3, <3>1 DEF Collected
    <2> HIDE DEF Room
    <2>2. 0 \in S
      BY <1>1, <2>1
    <2>3. \A i \in 1..N : i - 1 \in S => i \in S
      BY <1>1, <1>7
    <2> HIDE DEF S
    <2>4. 0..N \subseteq S
      BY <1>1, <2>2, <2>3, Positions
    <2> QED BY <2>4 DEF S
  <1>9. \A i \in 1..N : i - 1 \in 0..N
    BY <1>1
  <1>10. \A i \in 1..N : s[i] = Takes(s[i - 1], n, segs[i])
    BY <1>7, <1>8, <1>9
  <1> QED BY <1>2, <1>8, <1>10 DEF s, N

\* The segments among the first i that are tags.
UsedTo(segs, i) == {j \in 1..i : IsTag(segs[j])}

\* Without a limit, the keys are those of the tags, each with its last value.
LEMMA TableIs ==
    ASSUME NEW segs \in Seq(Segments)
    PROVE  \A i \in 0..Len(segs) :
             LET table == Scan(segs, -1)[i].table
             IN  /\ DOMAIN table = {segs[j].key : j \in UsedTo(segs, i)}
                 /\ \A j \in UsedTo(segs, i) :
                      (\A l \in UsedTo(segs, i) : l > j => segs[l].key # segs[j].key)
                        => table[segs[j].key] = segs[j].val
  <1> DEFINE s == Scan(segs, -1)
             N == Len(segs)
             Keys(i) == DOMAIN s[i].table = {segs[j].key : j \in UsedTo(segs, i)}
             Last(i, j) == \A l \in UsedTo(segs, i) : l > j => segs[l].key # segs[j].key
             Vals(i) == \A j \in UsedTo(segs, i) : Last(i, j) => s[i].table[segs[j].key] = segs[j].val
  <1>1. N \in Nat
    OBVIOUS
  <1>2. s[0] = NoTags /\ \A i \in 1..N : s[i] = Takes(s[i - 1], -1, segs[i])
    BY CapacitySuffices
  <1> HIDE DEF s, N
  <1>3. ASSUME NEW i \in 1..N, Keys(i - 1), Vals(i - 1) PROVE Keys(i) /\ Vals(i)
    <2>1. CASE ~IsTag(segs[i])
      <3>1. UsedTo(segs, i) = UsedTo(segs, i - 1)
        BY <1>1, <2>1 DEF UsedTo
      <3>2. s[i] = s[i - 1]
        BY <1>2, <2>1 DEF Takes
      <3> QED BY <1>3, <3>1, <3>2
    <2>2. CASE IsTag(segs[i])
      <3> DEFINE used == UsedTo(segs, i - 1)
                 old == s[i - 1].table
                 new == s[i].table
                 key == segs[i].key
      <3>1. UsedTo(segs, i) = used \cup {i} /\ \A j \in used : j < i
        BY <1>1, <2>2 DEF UsedTo
      <3>2. s[i] = AddTag(s[i - 1], segs[i])
        BY <1>2, <2>2 DEF Takes
      <3>3. new = [k \in DOMAIN old \cup {key} |-> IF k = key THEN segs[i].val ELSE old[k]]
        BY <3>2 DEF AddTag
      <3>4. DOMAIN old = {segs[j].key : j \in used}
        BY <1>3
      <3>5. \A j \in used : Last(i - 1, j) => old[segs[j].key] = segs[j].val
        BY <1>3
      <3> HIDE DEF used, old, new, key
      <3>6. DOMAIN new = {segs[j].key : j \in used \cup {i}}
        BY <3>3, <3>4 DEF key
      <3>7. ASSUME NEW j \in used \cup {i}, Last(i, j) PROVE new[segs[j].key] = segs[j].val
        <4>1. CASE j = i
          BY <3>3, <4>1 DEF key
        <4>2. CASE j \in used
          <5>1. segs[i].key # segs[j].key
            BY <3>1, <3>7, <4>2
          <5>2. Last(i - 1, j)
            BY <3>1, <3>7 DEF used
          <5>3. segs[j].key \in DOMAIN old
            BY <3>4, <4>2
          <5> QED BY <3>3, <3>5, <4>2, <5>1, <5>2, <5>3 DEF key
        <4> QED BY <4>1, <4>2
      <3> QED BY <3>1, <3>6, <3>7 DEF new
    <2> QED BY <2>1, <2>2
  <1>4. \A i \in 0..N : Keys(i) /\ Vals(i)
    <2> DEFINE S == {i \in 0..N : Keys(i) /\ Vals(i)}
    <2>1. Keys(0) /\ Vals(0)
      <3>1. UsedTo(segs, 0) = {}
        BY DEF UsedTo
      <3>2. DOMAIN NoTags.table = {}
        BY DEF NoTags
      <3> QED BY <1>2, <3>1, <3>2
    <2> HIDE DEF Keys, Vals
    <2>2. 0 \in S
      BY <1>1, <2>1
    <2>3. \A i \in 1..N : i - 1 \in S => i \in S
      BY <1>1, <1>3
    <2> HIDE DEF S
    <2>4. 0..N \subseteq S
      BY <1>1, <2>2, <2>3, Positions
    <2> QED BY <2>4 DEF S
  <1> QED BY <1>4 DEF s, N

\* With a limit, the scan is that without until the limit is reached, and then
\* keeps its keys.
LEMMA LimitedIs ==
    ASSUME NEW segs \in Seq(Segments), NEW limit \in Nat \ {0}
    PROVE  \A i \in 0..Len(segs) :
             LET all == Scan(segs, -1)[i]
                 got == Scan(segs, limit)[i]
             IN  IF all.m < limit THEN got = all
                 ELSE got.m = limit /\ got.order = SubSeq(all.order, 1, limit)
  <1> DEFINE a == Scan(segs, -1)
             b == Scan(segs, limit)
             N == Len(segs)
             K == {seg.key : seg \in Segments}
             Agree(i) == IF a[i].m < limit THEN b[i] = a[i]
                         ELSE b[i].m = limit /\ b[i].order = SubSeq(a[i].order, 1, limit)
  <1>1. N \in Nat /\ \A i \in 1..N : segs[i] \in Segments
    OBVIOUS
  <1>2. /\ a[0] = NoTags /\ \A i \in 1..N : a[i] = Takes(a[i - 1], -1, segs[i])
        /\ \A i \in 0..N : Collected(a[i])
    BY CapacitySuffices
  <1>3. b[0] = NoTags /\ \A i \in 1..N : b[i] = Takes(b[i - 1], limit, segs[i])
    BY CapacitySuffices
  <1> HIDE DEF a, b, N
  <1>4. ASSUME NEW i \in 1..N, Agree(i - 1) PROVE Agree(i)
    <2> DEFINE u == a[i - 1]
               v == a[i]
               w == b[i - 1]
               x == b[i]
    <2>1. i - 1 \in 0..N /\ i \in 0..N
      BY <1>1
    <2>2. Collected(u) /\ Collected(v)
      BY <1>2, <2>1
    <2>3. /\ u.m \in Nat /\ u.order \in Seq(K) /\ Len(u.order) = u.m
          /\ v.m \in Nat /\ v.order \in Seq(K) /\ Len(v.order) = v.m
      BY <2>2 DEF Collected
    <2>4. v = IF IsTag(segs[i]) THEN AddTag(u, segs[i]) ELSE u
      BY <1>2 DEF Takes
    <2>5. x = IF IsTag(segs[i]) /\ w.m < limit THEN AddTag(w, segs[i]) ELSE w
      BY <1>3 DEF Takes
    <2>6. u.m <= v.m /\ v.m <= u.m + 1 /\ \A j \in 1..u.m : v.order[j] = u.order[j]
      <3>1. CASE v = u
        BY <2>3, <3>1
      <3>2. CASE v = AddTag(u, segs[i])
        <4> HIDE DEF u, v
        <4> QED BY <1>1, <2>2, <3>2, AddTagCollects
      <3> QED BY <2>4, <3>1, <3>2
    <2>7. IF u.m < limit THEN w = u ELSE w.m = limit /\ w.order = SubSeq(u.order, 1, limit)
      BY <1>4
    <2> HIDE DEF u, v, w, x, K
    <2>8. CASE u.m < limit
      <3>1. x = v
        BY <2>4, <2>5, <2>7, <2>8
      <3>2. v.m >= limit => v.m = limit /\ v.order = SubSeq(v.order, 1, limit)
        BY <2>3, <2>6, <2>8
      <3> QED BY <2>3, <3>1, <3>2 DEF v, x
    <2>9. CASE ~(u.m < limit)
      <3>1. x = w /\ w.m = limit /\ w.order = SubSeq(u.order, 1, limit)
        BY <2>5, <2>7, <2>9
      <3>2. SubSeq(v.order, 1, limit) = SubSeq(u.order, 1, limit)
        BY <2>3, <2>6, <2>9
      <3>3. ~(v.m < limit)
        BY <2>3, <2>6, <2>9
      <3> QED BY <3>1, <3>2, <3>3 DEF v, x
    <2> QED BY <2>8, <2>9
  <1>5. \A i \in 0..N : Agree(i)
    <2> DEFINE S == {i \in 0..N : Agree(i)}
    <2>1. Agree(0)
      BY <1>2, <1>3 DEF NoTags
    <2> HIDE DEF Agree
    <2>2. 0 \in S
      BY <1>1, <2>1
    <2>3. \A i \in 1..N : i - 1 \in S => i \in S
      BY <1>1, <1>4
    <2> HIDE DEF S
    <2>4. 0..N \subseteq S
      BY <1>1, <2>2, <2>3, Positions
    <2> QED BY <2>4 DEF S
  <1> QED BY <1>5 DEF a, b, N

\* parseTags loses no tag to the capacity it computes from the length of the
\* text, for annotations of any length.
THEOREM TagsKept == Spec => []NoTagLost
  <1>1. Built => NoTagLost
    <2> SUFFICES ASSUME Built, input.of = "tags"
                 PROVE  LET tags == parseTags(input.segs, -1)
                            used == {i \in DOMAIN input.segs : IsTag(input.segs[i])}
                        IN  /\ DOMAIN tags.table = {input.segs[i].key : i \in used}
                            /\ \A i \in used :
                                 (\A j \in used : j > i => input.segs[j].key # input.segs[i].key)
                                   => tags.table[input.segs[i].key] = input.segs[i].val
      BY DEF NoTagLost
    <2> DEFINE segs == input.segs
    <2>1. segs \in Seq(Segments) /\ Len(segs) \in Nat /\ DOMAIN segs = 1..Len(segs)
      BY DEF Built
    <2> HIDE DEF segs
    <2>2. parseTags(segs, -1) = Scan(segs, -1)[Len(segs)]
      BY ScanIs
    <2>3. {i \in DOMAIN segs : IsTag(segs[i])} = UsedTo(segs, Len(segs))
      BY <2>1 DEF UsedTo
    <2>4. Len(segs) \in 0..Len(segs)
      BY <2>1
    <2> QED BY <2>1, <2>2, <2>3, <2>4, TableIs, SMTT(30) DEF segs
  <1> QED BY <1>1, BuiltHolds, PTL

\* With a limit, parseTags keeps the first unique keys up to it.
THEOREM TagsLimited == Spec => []TagLimit
  <1>1. Built => TagLimit
    <2> SUFFICES ASSUME Built, input.of = "tags", input.limit >= 0
                 PROVE  LET all == parseTags(input.segs, -1).order
                            got == parseTags(input.segs, input.limit).order
                        IN  got = SubSeq(all, 1, Min({input.limit, Len(all)}))
      BY DEF TagLimit
    <2> DEFINE segs == input.segs
               limit == input.limit
               N == Len(segs)
               a == Scan(segs, -1)[N]
               b == Scan(segs, limit)[N]
    <2>1. segs \in Seq(Segments) /\ N \in Nat /\ N \in 0..N /\ limit \in Nat
      <3>1. segs \in Seq(Segments) /\ limit \in Limits
        BY DEF Built
      <3>2. limit \in Int /\ limit >= 0
        BY <3>1, SegmentsAssumption
      <3> HIDE DEF segs, limit
      <3>3. N \in Nat
        BY <3>1
      <3> QED BY <3>1, <3>2, <3>3
    <2>2. parseTags(segs, -1) = a /\ parseTags(segs, limit) = IF limit = 0 THEN NoTags ELSE b
      BY ScanIs
    <2>3. Collected(a)
      <3> HIDE DEF segs
      <3> QED BY <2>1, CapacitySuffices
    <2>4. limit # 0 => IF a.m < limit THEN b = a
                       ELSE b.m = limit /\ b.order = SubSeq(a.order, 1, limit)
      <3> HIDE DEF segs, limit
      <3> QED BY <2>1, LimitedIs
    <2> HIDE DEF segs, limit, a, b
    <2>5. a.order \in Seq({seg.key : seg \in Segments}) /\ a.m \in Nat /\ Len(a.order) = a.m
      BY <2>3 DEF Collected
    <2>6. Min({limit, a.m}) = IF a.m < limit THEN a.m ELSE limit
      BY <2>1, <2>5 DEF Min
    <2>7. CASE limit = 0
      <3>1. Min({limit, a.m}) = 0 /\ SubSeq(a.order, 1, 0) = <<>>
        BY <2>5, <2>6, <2>7
      <3>2. parseTags(segs, limit).order = <<>>
        BY <2>2, <2>7 DEF NoTags
      <3> QED BY <2>2, <2>5, <3>1, <3>2 DEF segs, limit
    <2>8. CASE limit # 0 /\ a.m < limit
      <3>1. parseTags(segs, limit).order = a.order /\ Min({limit, a.m}) = Len(a.order)
        BY <2>2, <2>4, <2>5, <2>6, <2>8
      <3>2. SubSeq(a.order, 1, Len(a.order)) = a.order
        BY <2>5
      <3> QED BY <2>2, <2>5, <3>1, <3>2 DEF segs, limit
    <2>9. CASE limit # 0 /\ ~(a.m < limit)
      BY <2>2, <2>4, <2>5, <2>6, <2>9 DEF segs, limit
    <2> QED BY <2>7, <2>8, <2>9
  <1> QED BY <1>1, BuiltHolds, PTL

-----------------------------------------------------------------------------
(* The repair delay *)

\* 2^n counts the subsets of 1..n, and n + 1 is in half of those of 1..(n + 1).
LEMMA Powers ==
    /\ 2^0 = 1
    /\ \A n \in Nat : 2^n \in Nat /\ 2^(n + 1) = 2 * 2^n
  <1>1. 2^0 = 1
    <2>1. SUBSET {} = {{}}
      OBVIOUS
    <2>2. Cardinality(SUBSET {}) = 2^Cardinality({}) /\ Cardinality({}) = 0
      BY FS_SUBSET, FS_EmptySet
    <2>3. Cardinality({{}}) = 1
      BY FS_Singleton
    <2> QED BY <2>1, <2>2, <2>3
  <1>2. ASSUME NEW n \in Nat PROVE 2^n \in Nat /\ 2^(n + 1) = 2 * 2^n
    <2> DEFINE A == SUBSET (1..n)
               B == {s \in SUBSET (1..(n + 1)) : n + 1 \in s}
               f == [s \in A |-> s \cup {n + 1}]
    <2>1. /\ IsFiniteSet(1..n) /\ Cardinality(1..n) = n
          /\ IsFiniteSet(1..(n + 1)) /\ Cardinality(1..(n + 1)) = n + 1
      BY FS_Interval
    <2>2. IsFiniteSet(A) /\ Cardinality(A) = 2^n
      BY <2>1, FS_SUBSET
    <2>3. Cardinality(SUBSET (1..(n + 1))) = 2^(n + 1)
      BY <2>1, FS_SUBSET
    <2>4. f \in Bijection(A, B)
      <3>1. ASSUME NEW s \in A PROVE f[s] \in B
        OBVIOUS
      <3>2. ASSUME NEW s \in A, NEW t \in A, f[s] = f[t] PROVE s = t
        <4>1. n + 1 \notin s /\ n + 1 \notin t /\ s \cup {n + 1} = t \cup {n + 1}
          BY <3>2
        <4> QED BY <4>1
      <3>3. ASSUME NEW u \in B PROVE \E s \in A : f[s] = u
        <4>1. u \ {n + 1} \in A
          OBVIOUS
        <4>2. (u \ {n + 1}) \cup {n + 1} = u
          OBVIOUS
        <4> QED BY <4>1, <4>2
      <3>4. f \in [A -> B]
        BY <3>1
      <3> HIDE DEF f, A, B
      <3>5. f \in Injection(A, B)
        BY <3>2, <3>4 DEF Injection, IsInjective
      <3>6. f \in Surjection(A, B)
        BY <3>3, <3>4 DEF Surjection
      <3> QED BY <3>5, <3>6 DEF Bijection
    <2>5. IsFiniteSet(B) /\ Cardinality(B) = Cardinality(A)
      BY <2>2, <2>4, FS_Bijection DEF ExistsBijection
    <2>6. SUBSET (1..(n + 1)) = A \cup B /\ A \cap B = {}
      OBVIOUS
    <2>7. Cardinality(A) \in Nat
      BY <2>2, FS_CardinalityType
    <2> HIDE DEF A, B
    <2>8. Cardinality(A \cup B) = Cardinality(A) + Cardinality(B)
      <3>1. Cardinality(A \cup B) = Cardinality(A) + Cardinality(B) - Cardinality(A \cap B)
        BY <2>2, <2>5, FS_Union
      <3>2. Cardinality(A \cap B) = 0
        BY <2>6, FS_EmptySet
      <3> QED BY <2>5, <2>7, <3>1, <3>2
    <2>9. 2^(n + 1) = 2^n + 2^n /\ 2^n \in Nat
      BY <2>2, <2>3, <2>5, <2>6, <2>7, <2>8
    <2> QED BY <2>9
  <1> QED BY <1>1, <1>2

\* A larger exponent does not shorten the delay.
LEMMA PowersGrow ==
    /\ \A n \in Nat : 2^n >= 1
    /\ \A a, b \in Nat : a <= b => 2^a <= 2^b
  <1>1. \A n \in Nat : 2^n >= 1
    <2> DEFINE S == {n \in Nat : 2^n >= 1}
    <2>1. 0 \in S
      BY Powers
    <2>2. \A n \in Nat : n \in S => n + 1 \in S
      BY Powers
    <2> HIDE DEF S
    <2>3. Nat \subseteq S
      BY <2>1, <2>2, Induction
    <2> QED BY <2>3 DEF S
  <1>2. ASSUME NEW a \in Nat PROVE \A d \in Nat : 2^a <= 2^(a + d)
    <2> DEFINE S == {d \in Nat : 2^a <= 2^(a + d)}
    <2>1. 0 \in S
      BY Powers
    <2>2. ASSUME NEW d \in S PROVE d + 1 \in S
      <3>1. d \in Nat /\ a + d \in Nat /\ a + (d + 1) = (a + d) + 1
        OBVIOUS
      <3>2. 2^(a + d) \in Nat /\ 2^((a + d) + 1) = 2 * 2^(a + d) /\ 2^a \in Nat
        BY <3>1, Powers
      <3> QED BY <3>1, <3>2
    <2> HIDE DEF S
    <2>3. Nat \subseteq S
      BY <2>1, <2>2, Induction
    <2> QED BY <2>3 DEF S
  <1>3. ASSUME NEW a \in Nat, NEW b \in Nat, a <= b PROVE 2^a <= 2^b
    <2>1. b - a \in Nat /\ a + (b - a) = b
      BY <1>3
    <2> QED BY <1>2, <2>1
  <1> QED BY <1>1, <1>3

\* 64 bit arithmetic leaves what fits 64 bits as it is.
LEMMA WrapFits ==
    ASSUME NEW x \in Signed(Wide), Wide \in Nat \ {0}
    PROVE  Wrap(x) = x
  <1> DEFINE H == 2^(Wide - 1)
  <1>1. H \in Nat /\ H >= 1 /\ 2^Wide = 2 * H
    <2>1. Wide - 1 \in Nat /\ (Wide - 1) + 1 = Wide
      OBVIOUS
    <2> QED BY <2>1, Powers, PowersGrow
  <1>2. x \in Int /\ -H <= x /\ x < H
    BY <1>1 DEF Signed
  <1>3. Wrap(x) = ((x + H) % (2 * H)) - H
    BY <1>1 DEF Wrap
  <1> HIDE DEF H
  <1>4. (x + H) % (2 * H) = x + H
    <2> DEFINE a == x + H
               b == 2 * H
    <2>1. a \in Nat /\ b \in Nat /\ a < b /\ b > 0
      BY <1>1, <1>2
    <2> HIDE DEF a, b
    <2>2. a % b = a
      BY <2>1
    <2> QED BY <2>2 DEF a, b
  <1> QED BY <1>1, <1>2, <1>3, <1>4

\* repairDelay waits at least the delay and at most the longest one, however
\* often a link was repaired, for all flags whose longest delay fits the width
\* of the integers.
THEOREM DelayHolds == Spec => []DelayInRange
  <1>1. Built => DelayInRange
    <2> SUFFICES ASSUME Built, input.of = "backoff"
                 PROVE  LET longest == (IF input.steps = 0 THEN 1 ELSE 2^(input.steps - 1))
                                         * input.delay
                            noise   == (input.jitter * input.delay) \div 8
                        IN  longest + noise \in Signed(Wide) =>
                              \A n \in 0..noise :
                                repairDelay(input.step, input.delay, n, input.steps)
                                  \in input.delay .. longest + noise
      BY DEF DelayInRange
    <2> DEFINE step == input.step
               delay == input.delay
               steps == input.steps
               factor == IF steps = 0 THEN 1 ELSE 2^(steps - 1)
               shift == IF steps = 0 THEN 1 ELSE 2^(step % steps)
               noise == (input.jitter * delay) \div 8
    <2>1. step \in Nat /\ delay \in Nat /\ steps \in Nat /\ input.jitter \in Nat
      BY BackoffAssumption DEF Built
    <2>2. noise \in Nat
      <3>1. input.jitter * delay \in Nat
        BY <2>1
      <3> QED BY <3>1
    <2>3. shift \in Nat /\ factor \in Nat /\ 1 <= shift /\ shift <= factor
      <3>1. CASE steps = 0
        BY <3>1
      <3>2. CASE steps # 0
        <4>1. step % steps \in Nat /\ steps - 1 \in Nat /\ step % steps <= steps - 1
          BY <2>1, <3>2
        <4> QED BY <3>2, <4>1, Powers, PowersGrow
      <3> QED BY <3>1, <3>2
    <2>4. BaseDelay(step, delay, steps) = IF steps = 0 THEN delay ELSE Wrap(shift * delay)
      BY DEF BaseDelay
    <2> HIDE DEF step, delay, steps, factor, shift, noise
    <2> SUFFICES ASSUME factor * delay + noise \in Signed(Wide), NEW n \in 0..noise
                 PROVE  repairDelay(step, delay, n, steps) \in delay .. factor * delay + noise
      BY DEF step, delay, steps, factor, noise
    <2>5. /\ shift * delay \in Nat /\ factor * delay \in Nat
          /\ delay <= shift * delay /\ shift * delay <= factor * delay
      <3>1. \A a, b, c \in Nat : a <= b => a * c <= b * c
        OBVIOUS
      <3>2. \A a, b \in Nat : a * b \in Nat
        OBVIOUS
      <3> QED BY <2>1, <2>3, <3>1, <3>2
    <2>6. 2^(Wide - 1) \in Nat
      BY BackoffAssumption, Powers
    <2>7. \A x \in Nat : x <= factor * delay + noise => x \in Signed(Wide)
      BY <2>2, <2>5, <2>6 DEF Signed
    <2>8. n \in Nat /\ n <= noise
      BY <2>2
    <2>9. BaseDelay(step, delay, steps) = shift * delay
      <3>1. shift * delay \in Signed(Wide)
        BY <2>2, <2>5, <2>7
      <3>2. CASE steps = 0
        BY <2>1, <2>4, <3>2 DEF shift
      <3>3. CASE steps # 0
        BY <2>4, <3>1, <3>3, WrapFits, BackoffAssumption
      <3> QED BY <3>2, <3>3
    <2>10. shift * delay + n \in Signed(Wide)
      BY <2>2, <2>5, <2>7, <2>8
    <2>11. repairDelay(step, delay, n, steps) = shift * delay + n
      BY <2>9, <2>10, WrapFits, BackoffAssumption DEF repairDelay
    <2> QED BY <2>1, <2>2, <2>5, <2>8, <2>11
  <1> QED BY <1>1, BuiltHolds, PTL

-----------------------------------------------------------------------------
(* Annotations *)

\* The number that an annotation spells is a value of its option's field exactly
\* when parseMetaUint64, parseMetaInt or parseMetaUint takes it.
LEMMA WidthsAgree ==
    ASSUME NEW n \in Int
    PROVE  /\ n \in 0 .. 2^Wide - 1 <=> 0 <= n /\ n < 2^Wide
           /\ n \in 0 .. 2^Narrow - 1 <=> 0 <= n /\ n < 2^Narrow
           /\ n \in Signed(Narrow) <=> -(2^(Narrow - 1)) <= n /\ n < 2^(Narrow - 1)
  <1>1. Wide \in Nat /\ Narrow \in Nat /\ Narrow - 1 \in Nat
    BY BackoffAssumption, TextsAssumption
  <1>2. 2^Wide \in Nat /\ 2^Narrow \in Nat /\ 2^(Narrow - 1) \in Nat
    BY <1>1, Powers
  <1> QED BY <1>2 DEF Signed

\* Every option of a tunnel is what its annotation spells, when the type of the
\* option holds that, and the documented default otherwise: for every text and
\* all widths of integers.
THEOREM OptionsExactHolds == Spec => []OptionsExact
  <1>1. Built => OptionsExact
    <2> DEFINE opts == collectTunnelOptions(parseIngressTunnelOptions(input.anns))
               Exact(o) == opts[o] = IF input.anns[o] # Missing /\ Holds(o, input.anns[o])
                                     THEN Spelled(o, input.anns[o]) ELSE Documented(o)
    <2> SUFFICES ASSUME Built, input.of = "annotations"
                 PROVE  \A o \in OptionNames : Exact(o)
      BY DEF OptionsExact
    <2>1. \A o \in OptionNames : opts[o] = LET v == parseIngressTunnelOptions(input.anns)[o]
                                           IN  IF v = Missing THEN Default[o] ELSE v
      BY DEF collectTunnelOptions
    <2>2. \A o \in OptionNames : input.anns[o] # Missing =>
            /\ input.anns[o].val # Missing
            /\ input.anns[o].type = "int" => input.anns[o].val \in Int
      BY TextsAssumption DEF Built
    <2>3. TRUE # Missing /\ FALSE # Missing
      BY TextsAssumption
    <2> HIDE DEF opts
    <2>4. Exact("compressionQuality")
      BY <2>1, <2>2, WidthsAgree DEF OptionNames, Default, parseIngressTunnelOptions,
         parseMetaUint64, ParseUint, Holds, Spelled, Documented
    <2>5. Exact("heartbeatCount")
      BY <2>1, <2>2, WidthsAgree DEF OptionNames, Default, parseIngressTunnelOptions,
         parseMetaUint64, ParseUint, Holds, Spelled, Documented
    <2>6. Exact("haConnections")
      BY <2>1, <2>2, WidthsAgree DEF OptionNames, Default, parseIngressTunnelOptions,
         parseMetaInt, ParseInt, Holds, Spelled, Documented
    <2>7. Exact("retries")
      BY <2>1, <2>2, WidthsAgree DEF OptionNames, Default, parseIngressTunnelOptions,
         parseMetaUint, ParseUint, Holds, Spelled, Documented
    <2>8. Exact("heartbeatInterval")
      BY <2>1, <2>2 DEF OptionNames, Default, parseIngressTunnelOptions,
         parseMetaDuration, ParseDuration, Holds, Spelled, Documented
    <2>9. Exact("noChunkedEncoding")
      BY <2>1, <2>3 DEF OptionNames, Default, parseIngressTunnelOptions,
         parseMetaBool, Holds, Spelled, Documented
    <2>10. Exact("lbPool") /\ Exact("tags")
      BY <2>1, <2>2 DEF OptionNames, Default, parseIngressTunnelOptions,
         GetAnnotation, Holds, Spelled, Documented
    <2> QED BY <2>4, <2>5, <2>6, <2>7, <2>8, <2>9, <2>10 DEF OptionNames
  <1> QED BY <1>1, BuiltHolds, PTL
=============================================================================
