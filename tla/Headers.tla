------------------------------- MODULE Headers -------------------------------
(***************************************************************************)
(* Response headers, and what the cache does to them.                      *)
(*                                                                         *)
(* A header is a record of the fields the cache reads:                     *)
(*   cc            the Cache-Control field, or Absent                      *)
(*   expires       a time, Bare when the field cannot be parsed, or Absent *)
(*   lastModified  a time, or Absent                                       *)
(*   date          a time, or Absent before FixDateHeader                  *)
(*   age           the number in the Age field, or Absent                  *)
(*   vary          the set of field names in Vary, {} when there is none   *)
(*   tagged        whether there is an ETag                                *)
(*   listed        whether the fields that no-cache="..." names are there  *)
(* HTTP dates have a resolution of one Second; the clock is finer.         *)
(***************************************************************************)
EXTENDS Directives

CONSTANT Fields         \* names of request header fields a Vary may list

OptionalTime == Int \cup {Absent}

Header ==
    [cc : RespCC \cup {Absent}, expires : Int \cup {Absent, Bare},
     lastModified : OptionalTime, date : Int, age : OptionalTime,
     vary : SUBSET Fields, tagged : BOOLEAN, listed : BOOLEAN]

\* The header of an answer as upstream returns it: there may be no Date.
RawHeader ==
    [cc : RespCC \cup {Absent}, expires : Int \cup {Absent, Bare},
     lastModified : OptionalTime, date : OptionalTime, age : OptionalTime,
     vary : SUBSET Fields, tagged : BOOLEAN, listed : BOOLEAN]

\* http.TimeFormat has no fraction of a second.
ToSecond(t) == (t \div Second) * Second

\* Mutation: the missing Date is noticed and not set.
FixDateHeaderForgotten(hdr, receivedAt) == hdr

\* FixDateHeader: a response without a Date gets the time of its receipt.
FixDateHeader(hdr, receivedAt) ==
    IF hdr.date = Absent
    THEN [hdr EXCEPT !.date = ToSecond(receivedAt)]
    ELSE hdr

\* mergeResponseHeaders: each field of a 304 replaces the stored one.
MergeResponseHeaders(target, src) ==
    LET pick(old, new) == IF new = Absent THEN old ELSE new
    IN  [cc           |-> pick(target.cc, src.cc),
         expires      |-> pick(target.expires, src.expires),
         lastModified |-> pick(target.lastModified, src.lastModified),
         date         |-> pick(target.date, src.date),
         age          |-> pick(target.age, src.age),
         vary         |-> IF src.vary = {} THEN target.vary ELSE src.vary,
         tagged       |-> target.tagged \/ src.tagged,
         listed       |-> target.listed \/ src.listed]

\* The loop of serveFromCache over the fields of a qualified no-cache.
StripListedFields(hdr) ==
    IF ResponseDirectives(hdr).noCache = "fields"
    THEN [hdr EXCEPT !.listed = FALSE]
    ELSE hdr

(***************************************************************************)
(* The origin is outside the repository.  A template says which header     *)
(* fields its answer carries; times in it are relative to the moment gen   *)
(* at which it answers, and up is how long the representation has been in  *)
(* caches between the origin and this one.                                 *)
(***************************************************************************)
OriginHeader(tpl, gen, up) ==
    LET born == ToSecond(gen - up)
        at(offset) == IF offset \in {Absent, Bare} THEN offset ELSE born + offset
    IN  [cc           |-> tpl.cc,
         expires      |-> at(tpl.expiresIn),
         lastModified |-> at(tpl.modified),
         date         |-> at(tpl.skew),
         age          |-> IF up = 0 THEN Absent ELSE up \div Second,
         vary         |-> tpl.vary,
         tagged       |-> tpl.tagged,
         listed       |-> tpl.listed]
=============================================================================
