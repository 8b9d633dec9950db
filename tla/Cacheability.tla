---------------------------- MODULE Cacheability ----------------------------
(***************************************************************************)
(* What may be stored, and what may be served when validation fails        *)
(* (internal/cacheabilityevaluator.go, internal/helpers.go,                *)
(* internal/requestmethodchecker.go).                                      *)
(***************************************************************************)
EXTENDS Freshness

IsFinalStatus(code) == 200 <= code /\ code < 600

IsStatusUnderstood(code) ==
    code \in {200, 203, 301, 304, 404, 405, 410, 414, 501, 308}

IsStaleErrorAllowed(code) == code \in {500, 502, 503, 504}

IsNonErrorStatus(code) == 200 <= code /\ code < 400

IsUnsafeMethod(method) == method \in {"POST", "PUT", "DELETE", "PATCH"}

IsRequestMethodUnderstood(req) == req.method = "GET" /\ ~ req.range

CanStoreResponse(code, hdr, reqCC) ==
    LET cc == ResponseDirectives(hdr) IN
    /\ IsFinalStatus(code)
    /\ (code \in {206, 304} \/ cc.mustUnderstand) => IsStatusUnderstood(code)
    /\ ~ cc.noStore /\ ~ reqCC.noStore
    /\ \/ cc.public
       \/ hdr.expires # Absent
       \/ cc.maxAge # Absent
       \/ IsHeuristicallyCacheableCode(code)

(***************************************************************************)
(* The directives that HandleValidationResponse passes are those of the    *)
(* failed answer and of nothing else.                                      *)
(***************************************************************************)
CanStaleOnError(f, cc, now) ==
    /\ IsDelta(cc.staleIfError)
    /\ AgeAt(f, now) <= Wrap(f.life + DeltaValue(cc.staleIfError))
=============================================================================
