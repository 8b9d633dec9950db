--------------------------- MODULE StoredResponse ---------------------------
(***************************************************************************)
(* The life of one stored response: it is received, validated with a 304   *)
(* any number of times, and ages in between, while requests with all sorts *)
(* of directives ask whether it is fresh.  The network holds each exchange *)
(* for any time, so the time of the request, of the origin's answer and of *)
(* its receipt differ.  The variable born is a ghost: when the origin      *)
(* really generated, or last confirmed, the representation.                *)
(***************************************************************************)
EXTENDS Cacheability

CONSTANTS Templates,    \* what the origin's answers carry
          Freshenings,  \* what the headers of its 304 answers carry
          ReqCCs,       \* the request directives that are asked about
          Codes,        \* status codes of the stored response
          MaxTransit,   \* bound: longest exchange, and longest time upstream
          MaxSkew,      \* bound: how far a Date field is ahead or behind
          MaxTime       \* bound on the clock

Template == [cc : RespCC \cup {Absent}, expiresIn : Int \cup {Absent, Bare},
             modified : OptionalTime, skew : (-MaxSkew .. MaxSkew) \cup {Absent},
             vary : SUBSET Fields, tagged : BOOLEAN, listed : BOOLEAN]

ASSUME TemplatesAssumption == /\ Templates \subseteq Template
                              /\ Freshenings \subseteq Template
                              /\ ReqCCs \subseteq ReqCC
ASSUME BoundsAssumption == /\ MaxTransit \in Nat
                           /\ MaxSkew \in Nat
                           /\ MaxTime \in Nat
\* No age is beyond the range of a duration (292 years in the build).
ASSUME RangeAssumption ==
    2 * MaxTime + MaxTransit + MaxSkew + Second <= MaxDuration

VARIABLES now,          \* the clock
          entry,        \* the stored response; code 0 before there is one
          born          \* ghost: when its content was generated or confirmed

vars == <<now, entry, born>>

NoHeader == [cc |-> Absent, expires |-> Absent, lastModified |-> Absent,
             date |-> 0, age |-> Absent, vary |-> {}, tagged |-> FALSE,
             listed |-> FALSE]
IsStored == entry.code # 0

TypeOK == /\ now \in Nat
          /\ born \in Int
          /\ entry \in [code : Codes \cup {0}, hdr : Header,
                        reqAt : Nat, respAt : Nat]

Init == /\ now = 0
        /\ born = 0
        /\ entry = [code |-> 0, hdr |-> NoHeader, reqAt |-> 0, respAt |-> 0]

Tick == /\ now < MaxTime
        /\ now' = now + 1
        /\ UNCHANGED <<entry, born>>

\* roundTripTimed sent the request at start and has the answer now.
Receive == \E code \in Codes, tpl \in Templates,
              start \in (now - MaxTransit) .. now, up \in 0 .. MaxTransit :
             \E gen \in start .. now :
               /\ ~ IsStored
               /\ start >= 0
               /\ born' = gen - up
               /\ entry' = [code   |-> code,
                            hdr    |-> FixDateHeader(OriginHeader(tpl, gen, up), now),
                            reqAt  |-> start,
                            respAt |-> now]
               /\ UNCHANGED now

\* HandleValidationResponse, lines 81-90: the 304 came from the origin.
Freshen == \E tpl \in Freshenings, start \in (now - MaxTransit) .. now :
             \E gen \in start .. now :
               /\ IsStored
               /\ start >= entry.respAt
               /\ born' = gen
               /\ LET src == FixDateHeader(OriginHeader(tpl, gen, 0), now)
                  IN  entry' = [entry EXCEPT
                                  !.hdr = MergeResponseHeaders(entry.hdr, src),
                                  !.reqAt = start, !.respAt = now]
               /\ UNCHANGED now

Next == Tick \/ Receive \/ Freshen

Spec == Init /\ [][Next]_vars

-----------------------------------------------------------------------------
Verdict(reqCC) == CalculateFreshness(entry, reqCC, now)

(***************************************************************************)
(* The age the cache computes (calculateCurrentAge) is never less than the *)
(* real age of the representation, short of the second that an upstream    *)
(* cache may have dropped from its Age field: not with a skewed Date, with *)
(* an answer delayed on its way, or after a 304 whose header is merged.    *)
(***************************************************************************)
AgeNeverUnderestimated ==
    IsStored => CalculateCurrentAge(entry, now) + Second > now - born

(***************************************************************************)
(* A response that CalculateFreshness calls fresh is younger than the      *)
(* lifetime its own header gives it, plus the staleness the request said   *)
(* it accepts, whatever the request's other directives are and even where  *)
(* delta-seconds overflow.  The lifetime here is that of RFC 9111, 4.2.1,  *)
(* computed without regard to the width of a duration.  The exception is   *)
(* max-age=0, which line 144 takes for no max-age at all.                  *)
(***************************************************************************)
ExplicitLifetime ==
    LET cc == ResponseDirectives(entry.hdr) IN
    IF IsDelta(cc.maxAge) THEN cc.maxAge * Second
    ELSE IF entry.hdr.expires # Absent
         THEN IF entry.hdr.expires = Bare THEN 0
              ELSE Larger(entry.hdr.expires - entry.hdr.date, 0)
         ELSE IF entry.hdr.lastModified = Absent THEN 0
              ELSE Larger(entry.hdr.date - entry.hdr.lastModified, 0) \div 10 + Second
AcceptedStaleness(reqCC) ==
    IF reqCC.maxStale = Absent THEN 0
    ELSE IF reqCC.maxStale = Bare THEN MaxDuration
         ELSE reqCC.maxStale * Second
FreshOnlyWithinAllowance ==
    \A reqCC \in ReqCCs :
        /\ IsStored
        /\ ResponseDirectives(entry.hdr).maxAge # 0
        /\ ~ Verdict(reqCC).isStale
        => now - born < ExplicitLifetime + AcceptedStaleness(reqCC) + Second

(***************************************************************************)
(* A stale response only becomes fresh again by being validated: while the *)
(* entry stays as it is, the passing of time never turns the verdict of    *)
(* CalculateFreshness on a request from stale to fresh.                    *)
(***************************************************************************)
StaleStepStaysStale ==
    \A reqCC \in ReqCCs :
         /\ IsStored
         /\ entry' = entry
         /\ CalculateFreshness(entry, reqCC, now).isStale
         => CalculateFreshness(entry', reqCC, now').isStale
StaleStaysStale == [][StaleStepStaysStale]_vars
=============================================================================
