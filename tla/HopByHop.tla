------------------------------ MODULE HopByHop ------------------------------
(***************************************************************************)
(* Which fields of an answer are stored (internal/helpers.go): those that  *)
(* are for one hop only are removed before an answer is stored and are not *)
(* merged from a 304.                                                      *)
(*                                                                         *)
(* A header is a function from the names of its fields to their values;    *)
(* the value of Connection is the set of names its first line lists.       *)
(***************************************************************************)
\* The fields that hopByHopHeaders names itself: two stand for all of them but
\* "TE", which is not in canonical form and so is no field of a header.
FixedHopByHop == {"Connection", "Keep-Alive"}

HopByHopHeaders(hdr) ==
    FixedHopByHop \cup (IF "Connection" \in DOMAIN hdr THEN hdr["Connection"] ELSE {})

RemoveHopByHopHeaders(hdr) == [f \in DOMAIN hdr \ HopByHopHeaders(hdr) |-> hdr[f]]

\* Mutation: what is left out is what the stored response lists.
MergedFieldsOfStored(target, src) ==
    DOMAIN src \ (HopByHopHeaders(target) \cup {"Content-Length"})

\* The fields that mergeResponseHeaders takes from a 304.
MergedFields(target, src) == DOMAIN src \ (HopByHopHeaders(src) \cup {"Content-Length"})

MergeHeaders(target, src) ==
    LET merged == MergedFields(target, src)
    IN  [f \in merged \cup DOMAIN target |-> IF f \in merged THEN src[f] ELSE target[f]]

\* A full answer is stored; a 304 is merged and the result is stored again.
StoreFull(hdr) == RemoveHopByHopHeaders(hdr)
StoreMerged(stored, hdr) == RemoveHopByHopHeaders(MergeHeaders(stored, hdr))
=============================================================================
