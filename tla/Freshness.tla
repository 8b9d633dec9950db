------------------------------ MODULE Freshness ------------------------------
(***************************************************************************)
(* The freshness calculator (internal/freshness.go) as operators.          *)
(*                                                                         *)
(* An entry is a record with a status code, a header and the two times of  *)
(* the exchange that stored or last validated it.                          *)
(***************************************************************************)
EXTENDS Headers

Larger(a, b)  == IF a >= b THEN a ELSE b
Smaller(a, b) == IF a <= b THEN a ELSE b

HeuristicCodes == {200, 203, 206, 301, 304, 404, 405, 410, 414, 501, 308}
IsHeuristicallyCacheableCode(code) == code \in HeuristicCodes

\* A tenth of the time since the last modification, rounded to a Second.
HeuristicFreshness(hdr) ==
    IF hdr.lastModified # Absent /\ hdr.lastModified < hdr.date
    THEN ((Sub(hdr.date, hdr.lastModified) \div Second + 5) \div 10) * Second
    ELSE 0

\* Mutation: the time the exchange took is not part of the age.
CalculateCurrentAgeNoDelay(e, now) ==
    LET ageVal       == IF e.hdr.age = Absent THEN 0 ELSE e.hdr.age
        apparentAge  == Larger(Sub(e.respAt, e.hdr.date), 0)
        residentTime == Larger(Sub(now, e.respAt), 0)
    IN  Wrap(Larger(apparentAge, Wrap(ageVal * Second)) + residentTime)

CalculateCurrentAge(e, now) ==
    LET ageVal        == IF e.hdr.age = Absent THEN 0 ELSE e.hdr.age
        apparentAge   == Larger(Sub(e.respAt, e.hdr.date), 0)
        responseDelay == Larger(Sub(e.respAt, e.reqAt), 0)
        correctedAge  == Wrap(Wrap(ageVal * Second) + responseDelay)
        residentTime  == Larger(Sub(now, e.respAt), 0)
    IN  Wrap(Larger(apparentAge, correctedAge) + residentTime)

\* Lines 139-142: the lifetime that max-age gives, 0 when there is none.
MaxAgeLifetime(cc) ==
    IF IsDelta(cc.maxAge) /\ DeltaValue(cc.maxAge) >= 0
    THEN DeltaValue(cc.maxAge)
    ELSE 0

\* Lines 144-154: Expires, or the heuristic where it is allowed.
FallbackLifetime(e, cc) ==
    IF e.hdr.expires \notin {Absent, Bare} /\ e.hdr.expires > e.hdr.date
    THEN Sub(e.hdr.expires, e.hdr.date)
    ELSE IF e.hdr.expires = Absent
            /\ (IsHeuristicallyCacheableCode(e.code) \/ cc.public)
         THEN HeuristicFreshness(e.hdr)
         ELSE 0

\* The freshness lifetime before the request has its say.
ResponseLifetime(e, cc) ==
    IF MaxAgeLifetime(cc) = 0 THEN FallbackLifetime(e, cc)
                              ELSE MaxAgeLifetime(cc)

\* Mutation: the request's max-age extends the lifetime.
UsefulLifeExtended(e, reqCC, cc) ==
    IF IsDelta(reqCC.maxAge) /\ DeltaValue(reqCC.maxAge) > 0
    THEN Larger(ResponseLifetime(e, cc), DeltaValue(reqCC.maxAge))
    ELSE ResponseLifetime(e, cc)

\* Lines 156-158: the request's own max-age can only shorten it.
UsefulLife(e, reqCC, cc) ==
    IF IsDelta(reqCC.maxAge) /\ DeltaValue(reqCC.maxAge) > 0
    THEN Smaller(ResponseLifetime(e, cc), DeltaValue(reqCC.maxAge))
    ELSE ResponseLifetime(e, cc)

\* Lines 164-171: how much staleness the request accepts.
MaxStaleAllowance(reqCC) ==
    IF reqCC.maxStale = Bare THEN MaxDuration
    ELSE IF reqCC.maxStale # Absent /\ DeltaValue(reqCC.maxStale) >= 0
         THEN DeltaValue(reqCC.maxStale)
         ELSE 0

\* Mutation: the operands of the subtraction are swapped.
MinFreshUnmetSwapped(reqCC, age, life) ==
    /\ IsDelta(reqCC.minFresh)
    /\ DeltaValue(reqCC.minFresh) > 0
    /\ Wrap(age - life) < DeltaValue(reqCC.minFresh)

\* Lines 159-162: the request asks for more remaining life than there is.
MinFreshUnmet(reqCC, age, life) ==
    /\ IsDelta(reqCC.minFresh)
    /\ DeltaValue(reqCC.minFresh) > 0
    /\ Wrap(life - age) < DeltaValue(reqCC.minFresh)

\* Lines 173-177.
StaleBeyondAllowance(reqCC, age, life) ==
    LET allowance == MaxStaleAllowance(reqCC)
    IN  /\ age >= life
        /\ ~ (allowance > 0 /\ age < Larger(Wrap(life + allowance), allowance))

\* The type Freshness.
FreshnessVerdict == [isStale : BOOLEAN, age : Int, ts : Int, life : Int]

CalculateFreshness(e, reqCC, now) ==
    LET cc   == ResponseDirectives(e.hdr)
        age  == CalculateCurrentAge(e, now)
        life == UsefulLife(e, reqCC, cc)
    IN  IF IsDelta(reqCC.maxAge) /\ DeltaValue(reqCC.maxAge) = 0
        THEN [isStale |-> TRUE, age |-> 0, ts |-> now, life |-> 0]
        ELSE [isStale |-> \/ MinFreshUnmet(reqCC, age, life)
                          \/ StaleBeyondAllowance(reqCC, age, life),
              age     |-> age, ts |-> now, life |-> life]

\* The age of a freshness verdict taken at f.ts, brought forward to now.
AgeAt(f, now) == Wrap(f.age + Sub(now, f.ts))
=============================================================================
