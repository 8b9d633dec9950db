------------------------------ MODULE VaryIndex ------------------------------
(***************************************************************************)
(* The index of the responses stored for one URL (ResponseRefs), and how a *)
(* request selects one of them (internal/varymatcher.go, the Vary part of  *)
(* internal/normalization.go, and the index update of                      *)
(* internal/responsestorerer.go).                                          *)
(*                                                                         *)
(* A request header is a function from Fields to Values, NoValue where the *)
(* field is missing.  Normalize stands for normalizeHeaderValue, which is  *)
(* applied to the same field both when a response is stored and when it is *)
(* looked up.  A member "*" of a Vary field is a name like any other to    *)
(* the code: no request carries a field of that name.                      *)
(***************************************************************************)
EXTENDS Headers, Sequences

CONSTANTS Urls,             \* normalised URLs (URL keys)
          Values,           \* values of request header fields
          NoValue,          \* the empty value
          Star,             \* the field name "*"
          Normalize(_, _),  \* normalizeHeaderValue(field, value)
          VaryHash(_)       \* makeVaryHash of the resolved fields

ASSUME ValueAssumption == NoValue \in Values
ASSUME NormalizeAssumption ==
    \A f \in Fields, v \in Values : Normalize(f, v) \in Values

\* The resolved fields of a Vary, field name to normalised request value.
Resolved == UNION { [vary -> Values] : vary \in SUBSET Fields }

(***************************************************************************)
(* The cache takes the 64-bit hash of the resolved fields for their        *)
(* identity and never compares them again once it has picked an entry, so  *)
(* everything below rests on the hash having no collisions.                *)
(***************************************************************************)
ASSUME HashAssumption ==
    \A r, s \in Resolved : VaryHash(r) = VaryHash(s) => r = s

Ids == [url : Urls, hash : { VaryHash(r) : r \in Resolved }]

Ref == [id : Ids, vary : SUBSET Fields, resolved : Resolved, received : Int]

RequestHeader == [Fields -> Values]

\* One field of a request, as both normalizedVaryHeader and the matcher see it.
FieldValue(reqHdr, f) ==
    IF reqHdr[f] = NoValue THEN NoValue ELSE Normalize(f, reqHdr[f])

NormalizeVaryHeader(vary, reqHdr) == [f \in vary |-> FieldValue(reqHdr, f)]

\* Mutation: all variants of a URL share one key.
VaryKeyShared(url, resolved) == [url |-> url, hash |-> VaryHash(<<>>)]

\* makeVaryKey
VaryKey(url, resolved) == [url |-> url, hash |-> VaryHash(resolved)]

\* The reference that StoreResponse makes for a response (lines 63-68, 85-90).
MakeRef(url, hdr, reqHdr) ==
    LET resolved == NormalizeVaryHeader(hdr.vary, reqHdr)
    IN  [id |-> VaryKey(url, resolved), vary |-> hdr.vary,
         resolved |-> resolved, received |-> hdr.date]

(***************************************************************************)
(* The order of VaryHeadersMatch, which sorts in place: references with    *)
(* "*" last, references with a Vary before those without, then by          *)
(* ReceivedAt, earliest first.  slices.SortFunc leaves the order of equal  *)
(* elements open, so the result is one of several.                         *)
(***************************************************************************)
Rank(ref) == IF ref.vary = {Star} THEN 2 ELSE IF ref.vary = {} THEN 1 ELSE 0

Before(a, b) == \/ Rank(a) < Rank(b)
                \/ Rank(a) = Rank(b) /\ a.received < b.received

Reorderings(n) ==
    { f \in [1 .. n -> 1 .. n] : \A i, j \in 1 .. n : f[i] = f[j] => i = j }

SortedRefs(refs) ==
    { [i \in 1 .. Len(refs) |-> refs[f[i]]] :
        f \in { g \in Reorderings(Len(refs)) :
                  \A i \in 1 .. Len(refs) : \A j \in 1 .. (i - 1) :
                      ~ Before(refs[g[i]], refs[g[j]]) } }

\* Mutation: only "*" keeps a reference from matching.
VaryHeadersMatchAny(ref, reqHdr) == ref.vary # {Star}

\* varyHeadersMatchOne
VaryHeadersMatchOne(ref, reqHdr) ==
    /\ ref.vary # {Star}
    /\ \A f \in DOMAIN ref.resolved : FieldValue(reqHdr, f) = ref.resolved[f]

\* The loop of VaryHeadersMatch: i is the index it returns, 0 for none.
IsFirstMatch(refs, reqHdr, i) ==
    \/ /\ i \in 1 .. Len(refs)
       /\ VaryHeadersMatchOne(refs[i], reqHdr)
       /\ \A j \in 1 .. (i - 1) : ~ VaryHeadersMatchOne(refs[j], reqHdr)
    \/ /\ i = 0
       /\ \A j \in 1 .. Len(refs) : ~ VaryHeadersMatchOne(refs[j], reqHdr)

\* Mutation: index 0 of the slice is taken for the one of no match.
UpdateRefsFirst(refs, refIndex, ref) ==
    IF refs # <<>>
    THEN [refs EXCEPT ![IF refIndex = 0 THEN 1 ELSE refIndex] = ref]
    ELSE Append(refs, ref)

\* Mutation: the first reference is never the one to update.
UpdateRefsNotFirst(refs, refIndex, ref) ==
    IF refIndex \in 2 .. Len(refs)
    THEN [refs EXCEPT ![refIndex] = ref]
    ELSE Append(refs, ref)

\* StoreResponse, lines 92-96 (Go's index -1 is 0 here).
UpdateRefs(refs, refIndex, ref) ==
    IF refIndex \in 1 .. Len(refs)
    THEN [refs EXCEPT ![refIndex] = ref]
    ELSE Append(refs, ref)
=============================================================================
