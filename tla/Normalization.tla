---------------------------- MODULE Normalization ----------------------------
(***************************************************************************)
(* How the value of a request header field is brought into one form before *)
(* two requests are compared by it, and the text that the Vary hash is     *)
(* made of (internal/normalization.go).                                    *)
(*                                                                         *)
(* An element of a list such as Accept is an offer: the text before its    *)
(* first ";" (main), its other parameters, and its quality.  Mains and     *)
(* parameters are numbers in the order of their texts.  Qualities are in   *)
(* thousandths, MaxQ when missing or not a number; one of the texts "0"    *)
(* and "0.0" is Refused, any other text for nothing is 0.                  *)
(***************************************************************************)
EXTENDS Integers, Sequences, SequencesExt

CONSTANTS Wildcards(_),   \* how many "*" a main has
          Alias(_)        \* the main that encodingReplacer puts for one

Refused == -1
MinQ == 1
MaxQ == 1000

(***************************************************************************)
(* slices.SortFunc, which sorts a short list by insertion: each element    *)
(* goes behind the last one that it need not precede.                      *)
(***************************************************************************)
Insert(sorted, x, Before(_, _)) ==
    InsertAt(sorted, Max({0} \cup { i \in DOMAIN sorted : ~ Before(x, sorted[i]) }) + 1, x)

InOrder(s, Before(_, _)) ==
    FoldLeft(LAMBDA sorted, x : Insert(sorted, x, Before), <<>>, s)

Ascending(a, b) == a < b
MainsAscending(a, b) == a.main < b.main

\* slices.Compare of two sorted lists of parameters, of one length.
ParamsBefore(a, b) ==
    \E i \in DOMAIN a : a[i] < b[i] /\ \A j \in 1 .. i - 1 : a[j] = b[j]

Clamp(q) == IF q < MinQ THEN MinQ ELSE IF q > MaxQ THEN MaxQ ELSE q

\* The loop over the elements: those that are refused are left out.
PutQuality(parts, offer) ==
    IF offer.q = Refused THEN parts
    ELSE Append(parts, [main   |-> offer.main,
                        params |-> InOrder(offer.params, Ascending),
                        q      |-> Clamp(offer.q)])

QualityParts(offers) == FoldLeft(PutQuality, <<>>, offers)

\* Mutation: elements of one quality and main stay in the order they come in.
RanksBeforeMains(a, b) ==
    IF a.q # b.q THEN a.q > b.q
    ELSE IF Wildcards(a.main) # Wildcards(b.main) THEN Wildcards(a.main) < Wildcards(b.main)
    ELSE a.main < b.main

(***************************************************************************)
(* The comparison that sorts the elements.  Elements that compare equal    *)
(* are equal, so that it does not matter in which order SortFunc leaves    *)
(* them.                                                                   *)
(***************************************************************************)
RanksBefore(a, b) ==
    IF a.q # b.q THEN a.q > b.q
    ELSE IF Wildcards(a.main) # Wildcards(b.main) THEN Wildcards(a.main) < Wildcards(b.main)
    ELSE IF a.main # b.main THEN a.main < b.main
    ELSE IF Len(a.params) # Len(b.params) THEN Len(a.params) > Len(b.params)
    ELSE ParamsBefore(a.params, b.params)

\* Mutation: the neighbours that are dropped are those of the same quality.
CompactSameQuality(parts) ==
    FoldLeft(LAMBDA kept, p : IF kept # <<>> /\ Last(kept).q = p.q THEN kept
                                                               ELSE Append(kept, p),
             <<>>, parts)

\* slices.CompactFunc: of neighbours with the same main the first one stays.
PutUnlessRepeated(kept, p) ==
    IF kept # <<>> /\ Last(kept).main = p.main THEN kept ELSE Append(kept, p)

Compact(parts) == FoldLeft(PutUnlessRepeated, <<>>, parts)

\* normalizeOrderInsensitiveWithQValues
NormalizeWithQValues(offers) == Compact(InOrder(QualityParts(offers), RanksBefore))

Aliased(offers) == [i \in DOMAIN offers |-> [offers[i] EXCEPT !.main = Alias(@)]]

(***************************************************************************)
(* normalizeHeaderValue, by the class of the field, for the classes whose  *)
(* values are lists.  The elements of an order-insensitive list and of     *)
(* Content-Encoding have no quality: each is a main.                       *)
(***************************************************************************)
NormalizeHeaderValue(class, offers) ==
    CASE class = "qvalue"   -> NormalizeWithQValues(offers)
      [] class = "encoding" -> NormalizeWithQValues(Aliased(offers))
      [] class = "content"  -> InOrder(Aliased(offers), MainsAscending)
      [] class = "list"     -> InOrder(offers, MainsAscending)

\* Mutation: only the values are hashed.
VaryHashTextValues(names, resolved) ==
    FlattenSeq([i \in DOMAIN names |-> resolved[names[i]]])

(***************************************************************************)
(* makeVaryHash: what is hashed, in the order of the names, each followed  *)
(* by its value, with nothing in between.  Names and values are texts.     *)
(***************************************************************************)
VaryHashText(names, resolved) ==
    FlattenSeq([i \in DOMAIN names |-> names[i] \o resolved[names[i]]])
=============================================================================
