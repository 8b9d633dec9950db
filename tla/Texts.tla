------------------------------- MODULE Texts --------------------------------
(***************************************************************************)
(* What clients and origins write, and what the text algorithms of the     *)
(* cache make of it.  A behaviour writes one input, item by item: a        *)
(* Cache-Control field, a list of offers as in Accept, two sets of values  *)
(* for the fields of a Vary, two URLs, or the headers of an answer and of  *)
(* the 304s after it.  Each input is described by what its writer means,   *)
(* and spelled out by the definitions here; the properties compare what    *)
(* the cache reads with what was meant.                                    *)
(***************************************************************************)
EXTENDS Text, Normalization, HopByHop

U == INSTANCE UrlKey

CONSTANTS CacheDirectives,  \* directives, as records
          Separators,       \* what may be written between two elements
          Offers,           \* elements of an Accept-like field
          Selections,       \* values for the fields of a Vary
          Addresses,        \* URLs: resources with a way to write them
          Messages,         \* headers of answers, with what Connection lists
          MaxItems          \* bound on the items of each kind of input

VARIABLE input

Items == [list |-> CacheDirectives, offers |-> Offers, vary |-> Selections,
          url |-> Addresses, headers |-> Messages]

Init == \E kind \in DOMAIN Items : input = [kind |-> kind, items |-> <<>>]

Write(kind) ==
    /\ input.kind = kind
    /\ Len(input.items) < MaxItems[kind]
    /\ \E item \in Items[kind] : input' = [input EXCEPT !.items = Append(@, item)]

Next == \/ Write("list") \/ Write("offers") \/ Write("vary") \/ Write("url")
        \/ Write("headers")

Spec == Init /\ [][Next]_input

Is(kind, n) == input.kind = kind /\ Len(input.items) = n

-----------------------------------------------------------------------------
(***************************************************************************)
(* A directive is [name, form, arg, fields, pairs]: form says whether it   *)
(* has no argument, a token, or a quoted string; the quoted string holds   *)
(* arg or, for form "fields", a list of names; pairs says whether every    *)
(* letter of it is written as a quoted pair or only those that must be.    *)
(* A list of names is what no-cache has.                                   *)
(***************************************************************************)
TokenLetters == Letter \ {Space, Comma, Quote, Backslash}

ASSUME DirectivesAssumption ==
    /\ \A d \in CacheDirectives :
         /\ d.name \in Seq(TokenLetters \ {Equals}) /\ d.name # <<>>
         /\ \/ d.form = "bare" /\ d.arg = <<>>
            \/ d.form = "token" /\ d.arg \in Seq(TokenLetters)
            \/ d.form = "quoted" /\ d.arg \in Seq(Letter)
            \/ /\ d.form = "fields" /\ d.name = NoCache
               /\ d.fields \in Seq(Seq(TokenLetters) \ {<<>>})
    /\ \A s \in Separators : s \in Seq({Space, Comma}) /\ \E i \in DOMAIN s : s[i] = Comma

Join(texts, separator) ==
    FlattenSeq([i \in DOMAIN texts |-> IF i = 1 THEN texts[i] ELSE separator \o texts[i]])

Quoted(s, pairs) ==
    <<Quote>>
    \o FlattenSeq([i \in DOMAIN s |-> IF pairs \/ s[i] \in {Quote, Backslash}
                                      THEN <<Backslash, s[i]>> ELSE <<s[i]>>])
    \o <<Quote>>

\* The text of the argument, with its quotes.
ArgumentText(d, separator) ==
    CASE d.form = "bare"   -> <<>>
      [] d.form = "token"  -> d.arg
      [] d.form = "quoted" -> Quoted(d.arg, d.pairs)
      [] d.form = "fields" -> Quoted(Join(d.fields, separator), d.pairs)

DirectiveText(d, separator) ==
    IF d.form = "bare" THEN d.name
    ELSE d.name \o (<<Equals>> \o ArgumentText(d, separator))

FieldText(ds, separator) == Join([i \in DOMAIN ds |-> DirectiveText(ds[i], separator)], separator)

(***************************************************************************)
(* Whatever an origin puts into the arguments of its directives and        *)
(* however it separates and quotes them, the cache finds the directives    *)
(* that were written and no others, each with the whole text of its        *)
(* argument (of two with one name, that of the last one), and in the       *)
(* argument of no-cache the field names that were meant.  The text of any  *)
(* other quoted argument keeps its quotes, which is all that the code does *)
(* with it: a duration that is written in quotes has no value.             *)
(***************************************************************************)
DirectivesReadBack ==
    input.kind = "list" => \A separator \in Separators :
        LET ds == input.items
            read == ParseDirectives(FieldText(ds, separator))
        IN  /\ DOMAIN read = { ds[i].name : i \in DOMAIN ds }
            /\ \A i \in DOMAIN ds :
                 (\A j \in i + 1 .. Len(ds) : ds[j].name # ds[i].name) =>
                    /\ read[ds[i].name] = ArgumentText(ds[i], separator)
                    /\ ds[i].form = "fields" => NoCacheFields(read) = ds[i].fields

-----------------------------------------------------------------------------
(***************************************************************************)
(* An offer is [main, params, q], see Normalization.                       *)
(***************************************************************************)
ASSUME OffersAssumption ==
    \A o \in Offers :
        /\ o = [main |-> o.main, params |-> o.params, q |-> o.q]
        /\ o.params \in Seq(Int) /\ o.q \in {Refused} \cup 0 .. MaxQ
        /\ \A main \in {o.main, Alias(o.main)} : main \in Int /\ Wildcards(main) \in Nat

IsPlain(offer) == offer.params = <<>> /\ offer.q = MaxQ

ClassesOf(offers) ==
    {"qvalue", "encoding"}
    \cup (IF \A i \in DOMAIN offers : IsPlain(offers[i]) THEN {"list", "content"} ELSE {})

Shuffled(s) ==
    { [i \in DOMAIN s |-> s[p[i]]] : p \in { f \in [DOMAIN s -> DOMAIN s] :
                                              \A i, j \in DOMAIN s : f[i] = f[j] => i = j } }

(***************************************************************************)
(* Two clients that offer the same in another order get one value, and so  *)
(* share a variant: the order of offers and of their parameters has no     *)
(* meaning.  Which of repeated elements are dropped must not depend on it  *)
(* either.                                                                 *)
(***************************************************************************)
OrderHasNoMeaning ==
    input.kind = "offers" => \A class \in ClassesOf(input.items), other \in Shuffled(input.items) :
        NormalizeHeaderValue(class, [i \in DOMAIN other |->
                                       [other[i] EXCEPT !.params = Reverse(@)]])
        = NormalizeHeaderValue(class, input.items)

(***************************************************************************)
(* Two clients that offer something else do not share a variant: what is   *)
(* offered can still be read from the normalised value, with its           *)
(* parameters and its quality.  Not so for offers of quality zero, which   *)
(* the code drops or raises, nor for two offers that differ in their       *)
(* parameters only.                                                        *)
(***************************************************************************)
OffersSurvive ==
    input.kind = "offers" =>
        LET offers == input.items
            kept == NormalizeHeaderValue("qvalue", offers)
            meant == { [main   |-> offers[i].main,
                        params |-> InOrder(offers[i].params, Ascending),
                        q      |-> offers[i].q] : i \in DOMAIN offers }
        IN  (/\ \A i \in DOMAIN offers : offers[i].q \notin {Refused, 0}
             /\ \A i, j \in DOMAIN offers : offers[i].main = offers[j].main => i = j)
            => { kept[i] : i \in DOMAIN kept } = meant

-----------------------------------------------------------------------------
\* A selection is [names, values]: the fields of a Vary in their order.
ASSUME SelectionsAssumption ==
    \A s \in Selections :
        /\ s = [names |-> s.names, values |-> s.values]
        /\ s.names \in Seq(Seq(Letter) \ {<<>>})
        /\ s.values \in [{ s.names[i] : i \in DOMAIN s.names } -> Seq(Letter)]

HashText(s) == VaryHashText(s.names, s.values)

\* The known names that can be read in a text from its letter j on.
NamesAt(text, j, known) == { n \in known : IsPrefix(n, SubSeq(text, j, Len(text))) }

\* What is hashed for the names from names[i] on.
RestText(names, values, i) == VaryHashText(SubSeq(names, i, Len(names)), values)

(***************************************************************************)
(* A name could be read where there is none: a longer one in the place of  *)
(* names[i], or one that begins within names[i]'s value.                   *)
(***************************************************************************)
MistakableAt(names, values, known, i) ==
    LET name == names[i]
        text == RestText(names, values, i)
    IN  \/ \E n \in NamesAt(text, 1, known) : Len(n) > Len(name)
        \/ \E j \in Len(name) + 1 .. Len(name) + Len(values[name]) :
              NamesAt(text, j, known) # {}

Mistakable(names, values, known) ==
    \E i \in DOMAIN names : MistakableAt(names, values, known, i)

(***************************************************************************)
(* Two variants of a URL have different keys: the text that is hashed for  *)
(* them differs, whatever the names are, one the beginning of another or   *)
(* not.  Names and values follow each other without a separator, and so    *)
(* this holds only where no name of either variant can be read in a value, *)
(* or in a name and what follows it: Vary Foo with the value -Barx and     *)
(* Vary Foo-Bar with the value x have one text.                            *)
(***************************************************************************)
VariantsApart ==
    Is("vary", 2) =>
        LET a == input.items[1]
            b == input.items[2]
            known == DOMAIN a.values \cup DOMAIN b.values
        IN  /\ a # b
            /\ ~ Mistakable(a.names, a.values, known)
            /\ ~ Mistakable(b.names, b.values, known)
            => HashText(a) # HashText(b)

-----------------------------------------------------------------------------
(***************************************************************************)
(* An address is [resource, style].  A resource is                         *)
(* [scheme, name, ip6, port, segments, hasQuery, query], with octets for   *)
(* letters; a style says how its URL is written: the host in upper case,   *)
(* the default port in full, an empty path, dot segments, escapes.         *)
(***************************************************************************)
Hex(n, style) == IF n < 10 THEN n + 48 ELSE n + (IF style = "lower" THEN 87 ELSE 55)

\* An octet, and a delimiter in a query, which is its byte plus Delimiter.
Delimiter == 256

Octet(o, style, raw) ==
    IF o >= Delimiter THEN <<o - Delimiter>>
    ELSE IF style = "least" /\ o \in raw THEN <<o>>
    ELSE <<U!Percent, Hex(o \div 16, style), Hex(o % 16, style)>>

Octets(s, style, raw) == FlattenSeq([i \in DOMAIN s |-> Octet(s[i], style, raw)])

\* What may stand for itself; browsers write other letters into a query as well.
Plain == U!Digits \cup U!Uppers \cup U!Lowers \cup {45, 46, 95, 126}
RawInQuery == Plain \cup (128 .. 255)

ToUpper(s) == [i \in DOMAIN s |-> IF s[i] \in U!Lowers THEN s[i] - 32 ELSE s[i]]

\* What is written as it is in a query, to delimit, and what may be in a host.
Delimiters == (0 .. 127) \ (Plain \cup {U!Percent})
HostLetters == (0 .. 127) \ (U!Uppers \cup {U!Slash, U!OpenBracket, U!CloseBracket})

(***************************************************************************)
(* The name of a host, when it is no IPv6 address, has no colon.  No       *)
(* segment of a resource is "." or "..", which a path cannot express.      *)
(***************************************************************************)
ASSUME AddressesAssumption ==
    \A a \in Addresses :
        LET r == a.resource
            colons == { i \in DOMAIN r.name : r.name[i] = U!Colon }
        IN  /\ r = [scheme |-> r.scheme, name |-> r.name, ip6 |-> r.ip6, port |-> r.port,
                    segments |-> r.segments, hasQuery |-> r.hasQuery, query |-> r.query]
            /\ r.scheme \in {"http", "https"}
            /\ r.name \in Seq(HostLetters)
            /\ r.ip6 \in BOOLEAN
            /\ r.ip6 => \E i, j \in colons : i # j
            /\ ~ r.ip6 => colons = {}
            /\ r.port \in Seq(U!Digits) /\ r.port # <<>>
            /\ r.segments \in Seq(Seq(0 .. 255) \ U!Dots) /\ r.segments # <<>>
            /\ r.query \in Seq((0 .. 255) \cup { Delimiter + d : d \in Delimiters })
            /\ r.hasQuery \in BOOLEAN /\ (r.query # <<>> => r.hasQuery)
            /\ a.style.dots \in {"none", "here", "up", "escaped"}

HostText(r, style) ==
    LET name == IF style.upper THEN ToUpper(r.name) ELSE r.name
    IN  (IF r.ip6 THEN <<U!OpenBracket>> \o name \o <<U!CloseBracket>> ELSE name)
        \o (IF r.port = U!DefaultPort(r.scheme) /\ ~ style.port THEN <<>>
            ELSE <<U!Colon>> \o r.port)

DotText(dots) == CASE dots = "none"    -> <<>>
                   [] dots = "here"    -> <<U!Slash, U!Dot>>
                   [] dots = "up"      -> <<U!Slash, 120, U!Slash, U!Dot, U!Dot>>
                   [] dots = "escaped" -> <<U!Slash, U!Percent, 50, 69>>

PathOf(r, style) ==
    IF r.segments = << <<>> >> /\ style.bare THEN <<>>
    ELSE DotText(style.dots)
         \o FlattenSeq([i \in DOMAIN r.segments |->
                          <<U!Slash>> \o Octets(r.segments[i], style.escapes, Plain)])

\* The url.URL of an address; the fragment is not used by any definition.
Url(a) == [scheme |-> a.resource.scheme, opaque |-> <<>>,
           host   |-> HostText(a.resource, a.style),
           path   |-> PathOf(a.resource, a.style),
           query  |-> Octets(a.resource.query, a.style.escapes, RawInQuery)]

Key == [a \in Addresses |-> U!Normalize(Url(a))]

NonAscii(s) == \E i \in DOMAIN s : s[i] \in 128 .. 255

(***************************************************************************)
(* All ways to write the URL of a resource lead to one key: otherwise an   *)
(* unsafe request by one of them leaves what is stored under another.  Not *)
(* so for escaped dot segments, and for octets that are not ASCII in a     *)
(* query.                                                                  *)
(***************************************************************************)
KeyOfResource ==
    Is("url", 2) =>
        LET a == input.items[1]
            b == input.items[2]
        IN  /\ a.resource = b.resource
            /\ "escaped" \notin {a.style.dots, b.style.dots}
            /\ ~ NonAscii(a.resource.query)
            => Key[a] = Key[b]

\* What the key does not tell apart, although the resources differ.
Confused(r, s) ==
    \/ r.ip6 /\ s.ip6 /\ r.port # s.port
    \/ r.query = <<>> /\ s.query = <<>> /\ r.hasQuery # s.hasQuery
    \/ NonAscii(r.query) \/ NonAscii(s.query)

(***************************************************************************)
(* Two resources never share a key, however their URLs are written: a      *)
(* response must not be served for another resource.  Confused lists where *)
(* they do: a port within or behind the brackets of an IPv6 address, an    *)
(* empty query, and octets that the code takes for letters.                *)
(***************************************************************************)
ResourcesApart ==
    Is("url", 2) =>
        LET a == input.items[1]
            b == input.items[2]
        IN  a.resource # b.resource /\ ~ Confused(a.resource, b.resource)
            => Key[a] # Key[b]

(***************************************************************************)
(* sameOrigin, which decides whether what Location names is invalidated,   *)
(* holds for two URLs exactly when scheme, host and port of their          *)
(* resources are the same, however they are written.                       *)
(***************************************************************************)
OriginOfResource ==
    Is("url", 2) =>
        LET a == input.items[1]
            b == input.items[2]
            origin(r) == <<r.scheme, r.name, r.ip6, r.port>>
        IN  U!SameOrigin(Url(a), Url(b)) <=> origin(a.resource) = origin(b.resource)

-----------------------------------------------------------------------------
(***************************************************************************)
(* A message is [fields, listed]: the names of its fields, and those that  *)
(* its Connection lists when it has one.  The first of the input is a full *)
(* answer, the others are 304s; the value of a field is the number of the  *)
(* message it comes from.                                                  *)
(***************************************************************************)
HeaderOf(i) == [f \in input.items[i].fields |->
                  IF f = "Connection" THEN input.items[i].listed ELSE i]

StoredHeader ==
    LET n == Len(input.items)
        after[i \in 1 .. n] == IF i = 1 THEN StoreFull(HeaderOf(1))
                                        ELSE StoreMerged(after[i - 1], HeaderOf(i))
    IN  after[n]

\* Field f of message i is for every hop, and may be stored.
IsEndToEnd(f, i) ==
    LET m == input.items[i] IN
    /\ f \in m.fields \ FixedHopByHop
    /\ "Connection" \in m.fields => f \notin m.listed
    /\ f = "Content-Length" => i = 1

(***************************************************************************)
(* After any number of 304s, the stored header has exactly the fields that *)
(* some answer sent end to end, each from the last one that did: nothing   *)
(* an answer meant for one hop is stored, or keeps the stored field of     *)
(* that name from staying, and the Content-Length stays that of the body.  *)
(***************************************************************************)
StoredEndToEnd ==
    input.kind = "headers" /\ input.items # <<>> =>
        LET from(f) == { i \in DOMAIN input.items : IsEndToEnd(f, i) }
        IN  /\ DOMAIN StoredHeader = { f \in UNION { m.fields : m \in Messages } : from(f) # {} }
            /\ \A f \in DOMAIN StoredHeader : StoredHeader[f] = Max(from(f))
=============================================================================
