-------------------------- MODULE FreshnessProofs --------------------------
(***************************************************************************)
(* Lemmas about durations, headers and the freshness calculator, for every *)
(* value of the constants.                                                 *)
(***************************************************************************)
EXTENDS Cacheability, TLAPS

-----------------------------------------------------------------------------
(***************************************************************************)
(* Durations.                                                              *)
(***************************************************************************)

\* Wrap stays within the integers, and is the identity within its range.
LEMMA WrapInt == ASSUME NEW x \in Int PROVE Wrap(x) \in Int
BY DurationAssumption DEF Wrap

LEMMA WrapInRange ==
    ASSUME NEW x \in Int, -(MaxDuration + 1) <= x, x <= MaxDuration
    PROVE  Wrap(x) = x
BY DurationAssumption DEF Wrap

\* Dropping the fraction of a second loses less than a second.
LEMMA ToSecondBounds ==
    ASSUME NEW t \in Int
    PROVE  ToSecond(t) \in Int /\ ToSecond(t) <= t /\ t < ToSecond(t) + Second
BY DurationAssumption DEF ToSecond

LEMMA DivSecondBounds ==
    ASSUME NEW t \in Nat
    PROVE  /\ t \div Second \in Nat
           /\ (t \div Second) * Second <= t
           /\ t < (t \div Second) * Second + Second
BY DurationAssumption

-----------------------------------------------------------------------------
(***************************************************************************)
(* Headers.                                                                *)
(***************************************************************************)

\* Merging two headers gives a header with the Date of the second one.
LEMMA MergeType ==
    ASSUME NEW h \in Header, NEW g \in Header
    PROVE  LET m == MergeResponseHeaders(h, g)
           IN  /\ m \in Header
               /\ m.date = g.date
               /\ m.age = IF g.age = Absent THEN h.age ELSE g.age
BY SentinelAssumption DEF MergeResponseHeaders, Header

-----------------------------------------------------------------------------
(***************************************************************************)
(* The verdict.  A lifetime is a duration, and staleness is monotone in    *)
(* the age.                                                                *)
(***************************************************************************)
LEMMA WrapBounds ==
    ASSUME NEW x \in Int PROVE Wrap(x) <= MaxDuration
BY DurationAssumption DEF Wrap

LEMMA DeltaBounds ==
    ASSUME NEW d \in Nat
    PROVE  DeltaValue(d) \in Int /\ DeltaValue(d) <= MaxDuration
<1>1. d * Second \in Int
  BY DurationAssumption
<1> QED BY <1>1, WrapInt, WrapBounds DEF DeltaValue

LEMMA HeuristicBounds ==
    ASSUME NEW h \in Header
    PROVE  HeuristicFreshness(h) \in 0 .. MaxDuration
<1> SUFFICES ASSUME h.lastModified # Absent, h.lastModified < h.date
             PROVE  HeuristicFreshness(h) \in 0 .. MaxDuration
  BY DurationAssumption DEF HeuristicFreshness
<1> DEFINE d == Sub(h.date, h.lastModified)
           q == d \div Second
           r == (q + 5) \div 10
<1>1. d \in 0 .. MaxDuration
  BY DurationAssumption DEF Header, OptionalTime, Sub
<1> HIDE DEF d
<1>2. q \in Nat /\ q * Second <= d
  BY <1>1, DivSecondBounds, DurationAssumption
<1> HIDE DEF q
<1>3. r \in Nat /\ 10 * r <= q + 5
  BY <1>2
<1> HIDE DEF r
<1>4. 10 * (r * Second) <= q * Second + 5 * Second
  <2>1. (10 * r) * Second <= (q + 5) * Second
    BY <1>2, <1>3, DurationAssumption
  <2> QED BY <1>2, <1>3, <2>1, DurationAssumption
<1>5. r * Second \in Nat /\ q * Second \in Nat
  BY <1>2, <1>3, DurationAssumption
<1>6. r * Second <= MaxDuration
  <2> DEFINE x == r * Second
             y == q * Second
  <2>1. x \in Nat /\ y \in Nat /\ 10 * x <= y + 5 * Second /\ y <= d
    BY <1>2, <1>4, <1>5
  <2> HIDE DEF x, y
  <2>2. x <= MaxDuration
    BY <1>1, <2>1, DurationAssumption
  <2> QED BY <2>2 DEF x
<1>7. HeuristicFreshness(h) = r * Second
  BY DEF HeuristicFreshness, r, q, d
<1> QED BY <1>5, <1>6, <1>7, DurationAssumption

LEMMA LifeBounds ==
    ASSUME NEW e, e.hdr \in Header, NEW rq \in ReqCC, NEW cc \in RespCC
    PROVE  UsefulLife(e, rq, cc) \in 0 .. MaxDuration
<1>1. MaxAgeLifetime(cc) \in 0 .. MaxDuration
  <2>1. CASE IsDelta(cc.maxAge)
    <3>1. cc.maxAge \in Nat
      BY <2>1 DEF IsDelta, RespCC, Delta
    <3> QED BY <3>1, DeltaBounds, DurationAssumption DEF MaxAgeLifetime
  <2>2. CASE ~ IsDelta(cc.maxAge)
    BY <2>2, DurationAssumption DEF MaxAgeLifetime
  <2> QED BY <2>1, <2>2
<1>2. FallbackLifetime(e, cc) \in 0 .. MaxDuration
  <2>1. HeuristicFreshness(e.hdr) \in 0 .. MaxDuration
    BY HeuristicBounds
  <2>2. e.hdr.expires \notin {Absent, Bare} /\ e.hdr.expires > e.hdr.date
        => Sub(e.hdr.expires, e.hdr.date) \in 0 .. MaxDuration
    BY DurationAssumption DEF Header, Sub
  <2> QED BY <2>1, <2>2, DurationAssumption DEF FallbackLifetime
<1>3. ResponseLifetime(e, cc) \in 0 .. MaxDuration
  BY <1>1, <1>2 DEF ResponseLifetime
<1>4. CASE IsDelta(rq.maxAge)
  <2>1. rq.maxAge \in Nat
    BY <1>4 DEF IsDelta, ReqCC, Delta
  <2>2. DeltaValue(rq.maxAge) \in Int
    BY <2>1, DeltaBounds
  <2> QED BY <1>3, <2>2, DurationAssumption DEF UsefulLife, Smaller
<1>5. CASE ~ IsDelta(rq.maxAge)
  BY <1>3, <1>5 DEF UsefulLife
<1> QED BY <1>4, <1>5

LEMMA AllowanceType ==
    ASSUME NEW rq \in ReqCC PROVE MaxStaleAllowance(rq) \in Int
<1>1. CASE rq.maxStale \in Nat
  <2>1. DeltaValue(rq.maxStale) \in Int
    BY <1>1, DeltaBounds
  <2> QED BY <2>1, DurationAssumption DEF MaxStaleAllowance
<1>2. CASE rq.maxStale \notin Nat
  BY <1>2, DurationAssumption DEF MaxStaleAllowance, ReqCC, Delta
<1> QED BY <1>1, <1>2

LEMMA StalenessMonotone ==
    ASSUME NEW rq \in ReqCC, NEW life \in 0 .. MaxDuration,
           NEW a \in 0 .. MaxDuration, NEW b \in 0 .. MaxDuration, a <= b
    PROVE  /\ MinFreshUnmet(rq, a, life) => MinFreshUnmet(rq, b, life)
           /\ StaleBeyondAllowance(rq, a, life) => StaleBeyondAllowance(rq, b, life)
<1>1. Wrap(life - a) = life - a /\ Wrap(life - b) = life - b
  BY WrapInRange, DurationAssumption
<1>2. MinFreshUnmet(rq, a, life) => MinFreshUnmet(rq, b, life)
  <2> SUFFICES ASSUME MinFreshUnmet(rq, a, life) PROVE MinFreshUnmet(rq, b, life)
    OBVIOUS
  <2>1. rq.minFresh \in Nat
    BY DEF MinFreshUnmet, IsDelta, ReqCC, Delta
  <2>2. DeltaValue(rq.minFresh) \in Int
    BY <2>1, DeltaBounds
  <2> QED BY <1>1, <2>2, DurationAssumption DEF MinFreshUnmet
<1>3. StaleBeyondAllowance(rq, a, life) => StaleBeyondAllowance(rq, b, life)
  <2>1. MaxStaleAllowance(rq) \in Int
    BY AllowanceType
  <2>2. Wrap(life + MaxStaleAllowance(rq)) \in Int
    BY <2>1, WrapInt, DurationAssumption
  <2> QED BY <2>1, <2>2, DurationAssumption DEF StaleBeyondAllowance, Larger
<1> QED BY <1>2, <1>3

LEMMA DirectivesType ==
    ASSUME NEW h \in Header PROVE ResponseDirectives(h) \in RespCC
BY DEF ResponseDirectives, Header, NoRespCC, RespCC, Delta

LEMMA AgeType ==
    ASSUME NEW e, e.hdr \in Header, e.reqAt \in Nat, e.respAt \in Nat, NEW t \in Int
    PROVE  CalculateCurrentAge(e, t) \in Int
BY DurationAssumption, WrapInt
   DEF CalculateCurrentAge, Header, OptionalTime, Larger, Sub

\* The freshness calculator returns a verdict on every entry and request.
LEMMA VerdictType ==
    ASSUME NEW e, e.hdr \in Header, e.reqAt \in Nat, e.respAt \in Nat,
           NEW rq \in ReqCC, NEW t \in Int
    PROVE  CalculateFreshness(e, rq, t) \in FreshnessVerdict
<1> DEFINE age  == CalculateCurrentAge(e, t)
           life == UsefulLife(e, rq, ResponseDirectives(e.hdr))
<1>1. age \in Int
  BY AgeType
<1>2. life \in Int
  BY DirectivesType, LifeBounds, DurationAssumption
<1>3. CalculateFreshness(e, rq, t)
        \in { [isStale |-> TRUE, age |-> 0, ts |-> t, life |-> 0],
              [isStale |-> \/ MinFreshUnmet(rq, age, life)
                           \/ StaleBeyondAllowance(rq, age, life),
               age |-> age, ts |-> t, life |-> life] }
  BY DEF CalculateFreshness
<1>4. (MinFreshUnmet(rq, age, life) \/ StaleBeyondAllowance(rq, age, life)) \in BOOLEAN
  BY DEF MinFreshUnmet, StaleBeyondAllowance
<1>5. ASSUME NEW st \in BOOLEAN, NEW a \in Int, NEW l \in Int
      PROVE  [isStale |-> st, age |-> a, ts |-> t, life |-> l] \in FreshnessVerdict
  BY DEF FreshnessVerdict
<1>6. [isStale |-> TRUE, age |-> 0, ts |-> t, life |-> 0] \in FreshnessVerdict
  BY DEF FreshnessVerdict
<1> HIDE DEF age, life
<1>7. [isStale |-> \/ MinFreshUnmet(rq, age, life)
                  \/ StaleBeyondAllowance(rq, age, life),
       age |-> age, ts |-> t, life |-> life] \in FreshnessVerdict
  BY <1>1, <1>2, <1>4, <1>5
<1> QED BY <1>3, <1>6, <1>7

-----------------------------------------------------------------------------
(***************************************************************************)
(* The age.  Where nothing saturates or overflows, calculateCurrentAge is  *)
(* the formula of RFC 9111, 4.2.3.                                         *)
(***************************************************************************)
AgeOf(hdr) == IF hdr.age = Absent THEN 0 ELSE hdr.age

FirstAge(e) ==
    Larger(Larger(e.respAt - e.hdr.date, 0),
           AgeOf(e.hdr) * Second + (e.respAt - e.reqAt))

LEMMA AgeExact ==
    ASSUME NEW e, e.hdr \in Header, AgeOf(e.hdr) \in Nat,
           e.reqAt \in Nat, e.respAt \in Nat, NEW t \in Nat,
           e.reqAt <= e.respAt, e.respAt <= t,
           t - e.hdr.date <= MaxDuration,
           AgeOf(e.hdr) * Second + (t - e.reqAt) <= MaxDuration
    PROVE  /\ CalculateCurrentAge(e, t) = FirstAge(e) + (t - e.respAt)
           /\ FirstAge(e) \in Nat
           /\ FirstAge(e) + (t - e.respAt) <= MaxDuration
<1> DEFINE apparent == e.respAt - e.hdr.date
           delay    == e.respAt - e.reqAt
           product  == AgeOf(e.hdr) * Second
           resident == t - e.respAt
<1>1. e.hdr.date \in Int
  BY DEF Header
<1>2. product \in Nat /\ product + (t - e.reqAt) <= MaxDuration
  BY DurationAssumption
<1>3. CalculateCurrentAge(e, t)
        = Wrap(Larger(Larger(Sub(e.respAt, e.hdr.date), 0),
                      Wrap(Wrap(product) + Larger(Sub(e.respAt, e.reqAt), 0)))
               + Larger(Sub(t, e.respAt), 0))
  BY DEF CalculateCurrentAge, AgeOf, product
<1>4. FirstAge(e) = Larger(Larger(apparent, 0), product + delay)
  BY DEF FirstAge, product
<1> HIDE DEF product
<1>5. /\ apparent \in Int /\ apparent + resident <= MaxDuration
      /\ delay \in Nat /\ resident \in Nat /\ product + delay + resident <= MaxDuration
  BY <1>1, <1>2
<1>6. /\ Larger(Sub(e.respAt, e.hdr.date), 0) = Larger(apparent, 0)
      /\ Larger(Sub(e.respAt, e.reqAt), 0) = delay
      /\ Larger(Sub(t, e.respAt), 0) = resident
  BY <1>1, <1>2, <1>5, DurationAssumption DEF Sub, Larger
<1>7. Wrap(product) = product /\ Wrap(product + delay) = product + delay
  BY <1>2, <1>5, WrapInRange, DurationAssumption
<1>8. FirstAge(e) \in Nat /\ FirstAge(e) + resident <= MaxDuration
  BY <1>2, <1>4, <1>5, DurationAssumption DEF Larger
<1>9. Wrap(FirstAge(e) + resident) = FirstAge(e) + resident
  BY <1>5, <1>8, WrapInRange, DurationAssumption
<1> QED BY <1>3, <1>4, <1>6, <1>7, <1>8, <1>9

(***************************************************************************)
(* The Age field accounts for the time between the request and what the    *)
(* response shows, to within a second; so does the computed age.           *)
(***************************************************************************)
LEMMA AgeCovers ==
    ASSUME NEW e, e.hdr \in Header, AgeOf(e.hdr) \in Nat,
           e.reqAt \in Nat, e.respAt \in Nat, NEW t \in Nat,
           e.reqAt <= e.respAt, e.respAt <= t,
           t - e.hdr.date <= MaxDuration,
           AgeOf(e.hdr) * Second + (t - e.reqAt) <= MaxDuration,
           NEW b \in Int, e.reqAt - b < AgeOf(e.hdr) * Second + Second
    PROVE  CalculateCurrentAge(e, t) + Second > t - b
<1> DEFINE product == AgeOf(e.hdr) * Second
<1>1. product \in Nat /\ e.reqAt - b < product + Second
  BY DurationAssumption
<1>2. CalculateCurrentAge(e, t) = FirstAge(e) + (t - e.respAt) /\ FirstAge(e) \in Nat
  BY AgeExact
<1>3. FirstAge(e) = Larger(Larger(e.respAt - e.hdr.date, 0), product + (e.respAt - e.reqAt))
  BY DEF FirstAge
<1> HIDE DEF product
<1>4. FirstAge(e) >= product + (e.respAt - e.reqAt)
  BY <1>1, <1>2, <1>3 DEF Larger, Header
<1> QED BY <1>1, <1>2, <1>4, DurationAssumption

-----------------------------------------------------------------------------
(***************************************************************************)
(* What a verdict of freshness means, where delta-seconds may overflow.    *)
(***************************************************************************)

\* Overflow never makes a duration longer.
LEMMA WrapShrinks == ASSUME NEW x \in Nat PROVE Wrap(x) <= x
BY DurationAssumption DEF Wrap

LEMMA DeltaShrinks ==
    ASSUME NEW d \in Nat
    PROVE  /\ DeltaValue(d) \in Int /\ DeltaValue(d) <= d * Second
           /\ d # 0 /\ DeltaValue(d) <= 0 => d * Second > MaxDuration
<1> DEFINE x == d * Second
<1>1. x \in Nat /\ (d # 0 => x > 0)
  BY DurationAssumption
<1>2. DeltaValue(d) = Wrap(x)
  BY DEF DeltaValue
<1> HIDE DEF x
<1>3. x <= MaxDuration => Wrap(x) = x
  BY <1>1, WrapInRange, DurationAssumption
<1>4. Wrap(x) \in Int /\ Wrap(x) <= x
  BY <1>1, WrapInt, WrapShrinks
<1>5. d # 0 /\ Wrap(x) <= 0 => x > MaxDuration
  BY <1>1, <1>3, <1>4, DurationAssumption
<1> QED BY <1>2, <1>4, <1>5 DEF x

\* The staleness that a request accepts, without regard to overflow.
LEMMA AllowanceShrinks ==
    ASSUME NEW rq \in ReqCC
    PROVE  /\ MaxStaleAllowance(rq) \in Int
           /\ MaxStaleAllowance(rq) <= MaxDuration
           /\ rq.maxStale \in Nat => MaxStaleAllowance(rq) <= rq.maxStale * Second
           /\ rq.maxStale = Absent => MaxStaleAllowance(rq) = 0
<1>1. rq.maxStale = Absent => MaxStaleAllowance(rq) = 0
  BY SentinelAssumption DEF MaxStaleAllowance
<1>2. ASSUME rq.maxStale \in Nat
      PROVE  /\ MaxStaleAllowance(rq) \in Int /\ MaxStaleAllowance(rq) <= MaxDuration
             /\ MaxStaleAllowance(rq) <= rq.maxStale * Second
  <2> DEFINE x == rq.maxStale * Second
             d == DeltaValue(rq.maxStale)
  <2>1. x \in Nat /\ d \in Int /\ d <= x /\ d <= MaxDuration
    BY <1>2, DeltaShrinks, DeltaBounds, DurationAssumption
  <2>2. MaxStaleAllowance(rq) = IF d >= 0 THEN d ELSE 0
    BY <1>2, SentinelAssumption DEF MaxStaleAllowance
  <2> HIDE DEF x, d
  <2>3. MaxStaleAllowance(rq) \in Int /\ MaxStaleAllowance(rq) <= MaxDuration
        /\ MaxStaleAllowance(rq) <= x
    BY <2>1, <2>2, DurationAssumption
  <2> QED BY <2>3 DEF x
<1>3. rq.maxStale = Bare => MaxStaleAllowance(rq) = MaxDuration
  BY DEF MaxStaleAllowance
<1>4. rq.maxStale \in Nat \cup {Absent, Bare}
  BY DEF ReqCC, Delta
<1>5. ASSUME rq.maxStale \in {Absent, Bare}
      PROVE  MaxStaleAllowance(rq) \in Int /\ MaxStaleAllowance(rq) <= MaxDuration
             /\ rq.maxStale \notin Nat
  BY <1>1, <1>3, <1>5, SentinelAssumption, DurationAssumption
<1> QED BY <1>1, <1>2, <1>4, <1>5

\* A response that is called fresh is within its lifetime and that staleness.
LEMMA FreshMeansYoung ==
    ASSUME NEW e, e.hdr \in Header, e.reqAt \in Nat, e.respAt \in Nat,
           NEW rq \in ReqCC, NEW t \in Int, ~ CalculateFreshness(e, rq, t).isStale
    PROVE  LET life == UsefulLife(e, rq, ResponseDirectives(e.hdr))
               age  == CalculateCurrentAge(e, t)
           IN  age < life \/ age < life + MaxStaleAllowance(rq)
<1> DEFINE life == UsefulLife(e, rq, ResponseDirectives(e.hdr))
           age  == CalculateCurrentAge(e, t)
           allowed == MaxStaleAllowance(rq)
<1>1. age \in Int /\ life \in 0 .. MaxDuration
  BY AgeType, DirectivesType, LifeBounds
<1>2. allowed \in Int
  BY AllowanceShrinks
<1>3. ~ StaleBeyondAllowance(rq, age, life)
  BY DEF CalculateFreshness
<1>4. age < life \/ (allowed > 0 /\ age < Larger(Wrap(life + allowed), allowed))
  BY <1>1, <1>2, <1>3, DurationAssumption DEF StaleBeyondAllowance
<1> HIDE DEF life, age, allowed
<1>5. allowed > 0 => Wrap(life + allowed) <= life + allowed /\ Wrap(life + allowed) \in Int
  BY <1>1, <1>2, WrapShrinks, WrapInt, DurationAssumption
<1>6. age < life \/ age < life + allowed
  BY <1>1, <1>2, <1>4, <1>5, DurationAssumption DEF Larger
<1> QED BY <1>6 DEF life, age, allowed

\* The request never makes the lifetime longer.
LEMMA UsefulLifeShrinks ==
    ASSUME NEW e, e.hdr \in Header, NEW rq \in ReqCC, NEW cc \in RespCC
    PROVE  UsefulLife(e, rq, cc) <= ResponseLifetime(e, cc)
<1>1. ResponseLifetime(e, cc) \in Int
  <2>1. UsefulLife(e, NoReqCC, cc) = ResponseLifetime(e, cc)
    BY DEF UsefulLife, NoReqCC, IsDelta
  <2>2. NoReqCC \in ReqCC
    BY DEF NoReqCC, ReqCC, Delta
  <2> QED BY <2>1, <2>2, LifeBounds
<1>2. CASE IsDelta(rq.maxAge)
  <2>1. DeltaValue(rq.maxAge) \in Int
    BY <1>2, DeltaBounds DEF IsDelta, ReqCC, Delta
  <2> QED BY <1>1, <2>1 DEF UsefulLife, Smaller
<1>3. CASE ~ IsDelta(rq.maxAge)
  BY <1>1, <1>3 DEF UsefulLife
<1> QED BY <1>2, <1>3
=============================================================================
