------------------------------- MODULE UrlKey -------------------------------
(***************************************************************************)
(* The cache key of a URL (pkg/urlkey, internal/urlutil) and the test for  *)
(* a common origin (sameOrigin in internal/helpers.go).                    *)
(*                                                                         *)
(* A URL is a record as url.Parse makes it: scheme (in lower case), opaque,*)
(* host with its port, path as it is written, query and fragment.  Texts   *)
(* are sequences of bytes.                                                 *)
(***************************************************************************)
EXTENDS Integers, Sequences, SequencesExt

Percent == 37
Slash == 47
Colon == 58
Question == 63
OpenBracket == 91
CloseBracket == 93
Dot == 46
Digits == 48 .. 57
Uppers == 65 .. 90
Lowers == 97 .. 122

DefaultPort(scheme) == CASE scheme = "http" -> <<56, 48>>
                         [] scheme = "https" -> <<52, 52, 51>>
                         [] OTHER -> <<>>

\* strings.ToLower, for ASCII.
ToLower(s) == [i \in DOMAIN s |-> IF s[i] \in Uppers THEN s[i] + 32 ELSE s[i]]

\* The brackets of an IPv6 address are dropped.
StripBrackets(host) ==
    IF Len(host) >= 2 /\ Head(host) = OpenBracket /\ Last(host) = CloseBracket
    THEN SubSeq(host, 2, Len(host) - 1) ELSE host

\* The host and what is after its last colon, when that is only digits.
SplitHostPort(hostPort) ==
    LET colon == SelectLastInSeq(hostPort, LAMBDA c : c = Colon)
        port == SubSeq(hostPort, colon + 1, Len(hostPort))
    IN  IF colon # 0 /\ \A i \in DOMAIN port : port[i] \in Digits
        THEN [host |-> StripBrackets(SubSeq(hostPort, 1, colon - 1)), port |-> port]
        ELSE [host |-> StripBrackets(hostPort), port |-> <<>>]

\* The port that a host names, or the one of the scheme.
PortOf(scheme, hostPort) ==
    IF SplitHostPort(hostPort).port = <<>> THEN DefaultPort(scheme)
                                           ELSE SplitHostPort(hostPort).port

\* The part of the key that names the host, without the default port.
Authority(scheme, hostPort) ==
    LET port == PortOf(scheme, hostPort)
    IN  ToLower(SplitHostPort(hostPort).host)
        \o (IF port # DefaultPort(scheme) THEN <<Colon>> \o port ELSE <<>>)

(***************************************************************************)
(* url.ResolveReference of an absolute URL, that is resolvePath.  It goes  *)
(* by the path as it is written, so that dots that are escaped are no dots *)
(* to it.  The first segment of a path is empty.                           *)
(***************************************************************************)
PutByte(segs, c) ==
    IF c = Slash THEN Append(segs, <<>>) ELSE [segs EXCEPT ![Len(segs)] = Append(@, c)]

Segments(path) == FoldLeft(PutByte, << <<>> >>, path)

Dots == {<<Dot>>, <<Dot, Dot>>}

PutSegment(out, seg) ==
    CASE seg = <<Dot>>      -> out
      [] seg = <<Dot, Dot>> -> IF out = <<>> THEN out ELSE Front(out)
      [] OTHER              -> Append(out, seg)

RemoveDots(path) ==
    LET out == FoldLeft(PutSegment, <<>>, Segments(path))
        full == IF Last(Segments(path)) \in Dots THEN Append(out, <<>>) ELSE out
        text == FlattenSeq([i \in DOMAIN full |-> <<Slash>> \o full[i]])
    IN  IF path = <<>> THEN path
        ELSE IF Len(text) > 1 /\ text[2] = Slash THEN Tail(text)
        ELSE IF text = <<>> THEN <<Slash>> ELSE text

-----------------------------------------------------------------------------
IsHexDigit(c) == c \in Digits \cup (65 .. 70) \cup (97 .. 102)
FromHex(c) == CASE c \in Digits -> c - 48
                [] c \in Lowers -> c - 87
                [] OTHER        -> c - 55
HexDigit(n) == IF n < 10 THEN n + 48 ELSE n + 55

\* unicode.IsLetter of the runes up to 255.
Letters == Uppers \cup Lowers \cup {170, 181, 186}
           \cup (192 .. 214) \cup (216 .. 246) \cup (248 .. 255)

\* Mutation: what has a meaning in a URL is decoded, too.
IsUnreservedAny(r) == r < 128

\* isUnreserved
IsUnreserved(r) == r \in Letters \cup Digits \cup {45, Dot, 95, 126}

\* strings.Builder.WriteRune: a rune that is no ASCII takes two bytes.
WriteRune(r) == IF r < 128 THEN <<r>> ELSE <<192 + (r \div 64), 128 + (r % 64)>>

PercentEncodeUpper(b) == <<Percent, HexDigit(b \div 16), HexDigit(b % 16)>>

IsEscape(s, i) == /\ s[i] = Percent /\ i + 2 <= Len(s)
                  /\ IsHexDigit(s[i + 1]) /\ IsHexDigit(s[i + 2])

NormalizePercentEncoding(s) ==
    LET from[i \in Nat] ==
            IF i > Len(s) THEN <<>>
            ELSE IF IsEscape(s, i)
            THEN LET b == 16 * FromHex(s[i + 1]) + FromHex(s[i + 2])
                 IN  (IF IsUnreserved(b) THEN WriteRune(b) ELSE PercentEncodeUpper(b))
                     \o from[i + 3]
            ELSE <<s[i]>> \o from[i + 1]
    IN  from[1]

\* Mutation: an empty path stays empty.
PathTextEmpty(u) == NormalizePercentEncoding(RemoveDots(u.path))

\* The path of a key; an empty one is "/" in the two schemes of HTTP.
PathText(u) ==
    LET path == RemoveDots(u.path)
    IN  NormalizePercentEncoding(IF path = <<>> /\ u.scheme \in {"http", "https"}
                                 THEN <<Slash>> ELSE path)

\* Normalize
Normalize(u) ==
    IF u.opaque # <<>> THEN <<u.opaque>>
    ELSE << u.scheme,
            Authority(u.scheme, u.host) \o PathText(u)
            \o (IF u.query = <<>> THEN <<>>
                ELSE <<Question>> \o NormalizePercentEncoding(u.query)) >>

\* Mutation: ports are not compared.
SameOriginPortless(a, b) ==
    /\ a.scheme = b.scheme
    /\ ToLower(SplitHostPort(a.host).host) = ToLower(SplitHostPort(b.host).host)

\* sameOrigin
SameOrigin(a, b) ==
    /\ a.scheme = b.scheme
    /\ ToLower(SplitHostPort(a.host).host) = ToLower(SplitHostPort(b.host).host)
    /\ PortOf(a.scheme, a.host) = PortOf(b.scheme, b.host)
=============================================================================
