----------------------------- MODULE MCTransport -----------------------------
(***************************************************************************)
(* Instances of Transport for TLC.  Each cfg picks one set of requests and *)
(* one set of replies below.                                               *)
(***************************************************************************)
EXTENDS Transport, TLC

MCNormalize(f, v) == IF v = "EN" THEN "en" ELSE v
MCVaryHash(r) == { <<f, r[f]>> : f \in DOMAIN r }

MCOrigin == [u \in Urls |-> IF u = "/x" THEN "other" ELSE "here"]

Hdr(v) == [f \in Fields |-> IF f = "Accept" THEN v ELSE ""]

Get(v, cc) == [method |-> "GET", range |-> FALSE, url |-> "/a", hdr |-> Hdr(v),
               cc |-> cc, inm |-> Absent, ims |-> Absent]
Plain == Get("", NoReqCC)
Post  == [Plain EXCEPT !.method = "POST"]
HeadReq == [Plain EXCEPT !.method = "HEAD"]

Reply(code, cc) ==
    [code |-> code, cc |-> cc, expiresIn |-> Absent, modified |-> Absent,
     skew |-> 0, vary |-> {}, tagged |-> TRUE, listed |-> FALSE, up |-> 0,
     sized |-> TRUE, locs |-> <<>>]
MaxAge(n) == [NoRespCC EXCEPT !.maxAge = n]
Swr(n, s) == [NoRespCC EXCEPT !.maxAge = n, !.swr = s]
Ok == Reply(200, MaxAge(1))
NotModified == Reply(304, Absent)
ServerError == [Reply(500, Absent) EXCEPT !.tagged = FALSE]

-----------------------------------------------------------------------------
\* Races on one URL: time stands still, a GET with no-cache validates, and
\* the Vary of the responses changes, also to "*" alone and to a list with "*".
NoCacheGet   == Get("en", [NoReqCC EXCEPT !.noCache = TRUE])
RaceRequests == { Get("en", NoReqCC), Get("fr", NoReqCC), NoCacheGet, Post }
RaceReplies  == { [Ok EXCEPT !.skew = Absent, !.vary = v] :
                    v \in { {}, {"Accept"}, {"*"}, {"Accept", "*"} } }
                \cup { NotModified, [NotModified EXCEPT !.vary = {"Accept"}], ServerError }

\* One caller: variants of one URL, whose answers name other URLs in Location
\* and Content-Location.
VariantRequests == { Get("en", NoReqCC), Get("EN", NoReqCC), Get("fr", NoReqCC), Post,
                     [Plain EXCEPT !.url = "/b"], [Plain EXCEPT !.url = "/x"] }
VariantReplies  == { [Ok EXCEPT !.vary = {"Accept"}, !.locs = <<"/b", "/x">>],
                     [NotModified EXCEPT !.cc = MaxAge(2)],
                     ServerError }

\* Request and response directives of all kinds, one caller, time passing.  Two
\* requests have a precondition of the client's own; one response has nothing
\* that would replace it.
ServeRequests ==
    { Plain, HeadReq, [Plain EXCEPT !.range = TRUE], [Plain EXCEPT !.inm = 1],
      [Plain EXCEPT !.ims = 2] }
    \cup { Get("", cc) : cc \in { [NoReqCC EXCEPT !.noCache = TRUE],
                                  [NoReqCC EXCEPT !.onlyIfCached = TRUE],
                                  [NoReqCC EXCEPT !.minFresh = 1],
                                  [NoReqCC EXCEPT !.noStore = TRUE] } }
ServeReplies ==
    { [Reply(200, MaxAge(2)) EXCEPT !.skew = Absent],
      [Reply(200, MaxAge(3)) EXCEPT !.up = 1, !.skew = 1, !.tagged = FALSE, !.modified = -1],
      Reply(200, [MaxAge(1) EXCEPT !.immutable = TRUE]),
      Reply(200, [MaxAge(1) EXCEPT !.mustRevalidate = TRUE]),
      [Reply(200, [MaxAge(1) EXCEPT !.noCache = "all"]) EXCEPT !.tagged = FALSE],
      [Reply(200, [MaxAge(1) EXCEPT !.noCache = "fields"]) EXCEPT !.listed = TRUE],
      Reply(200, [NoRespCC EXCEPT !.noStore = TRUE]),
      NotModified,
      [ServerError EXCEPT !.cc = [NoRespCC EXCEPT !.staleIfError = 1]] }

\* stale-while-revalidate: the client and the goroutine it leaves behind.
SwrRequests == { Plain, Post }
SwrReplies  == { Reply(200, Swr(1, 1)), NotModified, ServerError }

\* For the violation runs.
SwrVariantRequests == { Get("en", NoReqCC), Get("fr", NoReqCC) }
SwrVariantReplies  == { [Reply(200, Swr(1, 1)) EXCEPT !.vary = {"Accept"}],
                        NotModified, ServerError }
NoStore304Replies  == { Ok, ServerError, [NotModified EXCEPT !.cc = [NoRespCC EXCEPT !.noStore = TRUE]] }
SieRequests == { Plain, Get("", [NoReqCC EXCEPT !.staleIfError = 2]) }
SieReplies  == { Reply(200, [MaxAge(1) EXCEPT !.staleIfError = 2]), ServerError }

Symmetry == Permutations(Clients)
=============================================================================
