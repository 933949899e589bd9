--------------------------- MODULE TunnelSettings ---------------------------
(***************************************************************************)
(* The settings of one tunnel: its options from the annotations of the     *)
(* ingress (internal/argotunnel/annotations.go, options.go), and the tags  *)
(* and the repair delay of internal/argotunnel/tunnel.go.                  *)
(***************************************************************************)
EXTENDS Integers, Sequences

CONSTANTS
    Narrow, Wide,   \* bits of the 32 and the 64 bit integers of the code
    Missing,        \* no annotation, no option
    Size            \* length of a text, for every text of the tags

\* The range of signed integers, and what 64 bit arithmetic makes of a value.
Signed(bits) == -(2^(bits - 1)) .. 2^(bits - 1) - 1
Wrap(n) == ((n + 2^(Wide - 1)) % 2^Wide) - 2^(Wide - 1)

-----------------------------------------------------------------------------
(* Annotations *)

OptionNames ==
    {"compressionQuality", "haConnections", "heartbeatCount", "heartbeatInterval",
     "lbPool", "noChunkedEncoding", "retries", "tags"}
Default ==
    [compressionQuality |-> 0, haConnections |-> 4,
     heartbeatCount |-> 5, heartbeatInterval |-> 5,
     lbPool |-> "", noChunkedEncoding |-> FALSE,
     retries |-> 3, tags |-> ""]

\* The texts of an annotation: type says what a text spells, an integer, a
\* duration or else a word, and val which.  The parsers of the Go library.
ParseInt(text, bits) ==
    IF text.type = "int" /\ text.val \in Signed(bits) THEN text.val ELSE Missing
ParseUint(text, bits) ==
    IF text.type = "int" /\ text.val \in 0 .. 2^bits - 1 THEN text.val ELSE Missing
ParseDuration(text) ==
    IF text.type = "duration" \/ (text.type = "int" /\ text.val = 0) THEN text.val ELSE Missing

\* An annotation that is absent or does not parse is no option.
parseMetaBool(text) ==
    CASE text # Missing /\ text.type = "word" /\ text.val = "true"  -> TRUE
      [] text # Missing /\ text.type = "word" /\ text.val = "false" -> FALSE
      [] OTHER -> Missing
parseMetaDuration(text) == IF text = Missing THEN Missing ELSE ParseDuration(text)
parseMetaInt(text) == IF text = Missing THEN Missing ELSE ParseInt(text, Narrow)

\* Variant: parsed with 64 bits, then converted to the width of the option.
parseMetaUintConverted(text) ==
    IF text = Missing \/ ParseUint(text, Wide) = Missing THEN Missing
    ELSE ParseUint(text, Wide) % 2^Narrow

parseMetaUint(text) == IF text = Missing THEN Missing ELSE ParseUint(text, Narrow)
parseMetaUint64(text) == IF text = Missing THEN Missing ELSE ParseUint(text, Wide)
GetAnnotation(text) == IF text = Missing THEN Missing ELSE text.val

parseIngressTunnelOptions(annotations) ==
    [compressionQuality |-> parseMetaUint64(annotations.compressionQuality),
     haConnections      |-> parseMetaInt(annotations.haConnections),
     heartbeatCount     |-> parseMetaUint64(annotations.heartbeatCount),
     heartbeatInterval  |-> parseMetaDuration(annotations.heartbeatInterval),
     lbPool             |-> GetAnnotation(annotations.lbPool),
     noChunkedEncoding  |-> parseMetaBool(annotations.noChunkedEncoding),
     retries            |-> parseMetaUint(annotations.retries),
     tags               |-> GetAnnotation(annotations.tags)]

collectTunnelOptions(opts) ==
    [o \in OptionNames |-> IF opts[o] = Missing THEN Default[o] ELSE opts[o]]

-----------------------------------------------------------------------------
(* Tags *)

\* The text between two commas: key, and after the first '=' the value.
SegmentSize(seg) == Size[seg.key] + (IF seg.eq THEN 1 + Size[seg.val] ELSE 0)
TextSize(segs) ==
    LET size[i \in 0..Len(segs)] ==
          IF i = 0 THEN -1 ELSE size[i - 1] + 1 + SegmentSize(segs[i])
    IN  size[Len(segs)]

\* Both of at least two characters.
IsTag(seg) == seg.eq /\ Size[seg.key] > 1 /\ Size[seg.val] > 1

\* Variant: a pair takes six characters, and the last comma is forgotten.
TagCapTight(segs, n) ==
    LET wc == TextSize(segs) \div 6 IN IF n < 0 \/ wc < n THEN wc ELSE n

\* The limit, or the number of tags the text has room for.
TagCap(segs, n) ==
    LET wc == (TextSize(segs) + 1) \div 4 IN IF n < 0 \/ wc < n THEN wc ELSE n

NoTags == [order |-> <<>>, table |-> <<>>, m |-> 0]

\* Variant: a key that comes again counts again.
AddTagAgain(tags, seg) ==
    [order |-> IF seg.key \in DOMAIN tags.table THEN tags.order
               ELSE Append(tags.order, seg.key),
     table |-> [k \in DOMAIN tags.table \cup {seg.key} |->
                  IF k = seg.key THEN seg.val ELSE tags.table[k]],
     m |-> tags.m + 1]

\* order keeps the first place of a key, table its last value.
AddTag(tags, seg) ==
    LET known == seg.key \in DOMAIN tags.table
    IN  [order |-> IF known THEN tags.order ELSE Append(tags.order, seg.key),
         table |-> [k \in DOMAIN tags.table \cup {seg.key} |->
                      IF k = seg.key THEN seg.val ELSE tags.table[k]],
         m |-> IF known THEN tags.m ELSE tags.m + 1]

\* The scan ends at the end of the text or once the limit is reached.
parseTags(segs, n) ==
    LET scan[i \in 0..Len(segs)] ==
          IF i = 0 THEN NoTags
          ELSE LET tags == scan[i - 1]
               IN  IF tags.m < TagCap(segs, n) /\ IsTag(segs[i]) THEN AddTag(tags, segs[i])
                                                                 ELSE tags
    IN  IF n = 0 THEN NoTags ELSE scan[Len(segs)]

-----------------------------------------------------------------------------
(* The repair delay *)

\* Variant: the exponent is not reduced.
BaseDelayUnreduced(step, delay, steps) ==
    IF steps = 0 THEN delay ELSE Wrap(2^step * delay)

BaseDelay(step, delay, steps) ==
    IF steps = 0 THEN delay ELSE Wrap(2^(step % steps) * delay)

\* noise is what rand.Float64() makes of the jitter.
repairDelay(step, delay, noise, steps) == Wrap(BaseDelay(step, delay, steps) + noise)
=============================================================================
