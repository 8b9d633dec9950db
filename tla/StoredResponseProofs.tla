------------------------ MODULE StoredResponseProofs ------------------------
(***************************************************************************)
(* Proofs about StoredResponse, for every value of its constants.          *)
(***************************************************************************)
EXTENDS StoredResponse, FreshnessProofs

-----------------------------------------------------------------------------
\* The Age field accounts for the time upstream to within a second.
LEMMA UpstreamAge ==
    ASSUME NEW start \in Nat, NEW gen \in Nat, NEW up \in Nat,
           start <= gen, up <= MaxTransit
    PROVE  /\ up \div Second \in Nat
           /\ (up \div Second) * Second <= MaxTransit
           /\ start - (gen - up) < (up \div Second) * Second + Second
<1> DEFINE q == up \div Second
           s == q * Second
<1>1. q \in Nat /\ s <= up /\ up < s + Second
  BY DivSecondBounds
<1>2. s \in Int
  BY <1>1, DurationAssumption
<1> HIDE DEF s
<1>3. s <= MaxTransit /\ start - (gen - up) < s + Second
  BY <1>1, <1>2, BoundsAssumption, DurationAssumption
<1> QED BY <1>1, <1>3 DEF s

-----------------------------------------------------------------------------
(***************************************************************************)
(* Headers.                                                                *)
(***************************************************************************)

\* What the origin sends, once its Date is fixed, is a header.
LEMMA OriginHeaderType ==
    ASSUME NEW tpl \in Template, NEW gen \in Nat, NEW up \in Nat,
           NEW t \in Nat, up <= MaxTransit, gen <= t
    PROVE  LET h == FixDateHeader(OriginHeader(tpl, gen, up), t)
           IN  /\ h \in Header
               /\ h.date >= -(MaxTransit + MaxSkew + Second)
               /\ h.age = IF up = 0 THEN Absent ELSE up \div Second
<1> DEFINE o == OriginHeader(tpl, gen, up)
           h == FixDateHeader(o, t)
           b == ToSecond(gen - up)
<1>1. b \in Int /\ b > gen - up - Second
  BY ToSecondBounds, DurationAssumption
<1>2. ToSecond(t) \in Int /\ ToSecond(t) > t - Second
  BY ToSecondBounds, DurationAssumption
<1>3. up \div Second \in Nat
  BY DivSecondBounds
<1>4. o = [cc |-> tpl.cc, expires |-> o.expires, lastModified |-> o.lastModified,
           date |-> o.date, age |-> o.age, vary |-> tpl.vary,
           tagged |-> tpl.tagged, listed |-> tpl.listed]
  BY DEF OriginHeader
<1>5. o.expires \in Int \cup {Absent, Bare} /\ o.lastModified \in OptionalTime
  BY <1>1, SentinelAssumption DEF OriginHeader, Template, OptionalTime
<1>6. o.date = IF tpl.skew = Absent THEN Absent ELSE b + tpl.skew
  BY SentinelAssumption DEF OriginHeader, Template
<1>7. o.age = (IF up = 0 THEN Absent ELSE up \div Second) /\ o.age \in OptionalTime
  BY <1>3 DEF OriginHeader, OptionalTime
<1>8. tpl.cc \in RespCC \cup {Absent} /\ tpl.vary \in SUBSET Fields
      /\ tpl.tagged \in BOOLEAN /\ tpl.listed \in BOOLEAN
  BY DEF Template
<1>9. h.date \in Int /\ h.date >= -(MaxTransit + MaxSkew + Second)
  <2>1. CASE tpl.skew = Absent
    <3>1. o.date = Absent
      BY <1>6, <2>1
    <3>2. h.date = ToSecond(t)
      BY <1>4, <3>1 DEF FixDateHeader
    <3> QED BY <3>2, <1>2, BoundsAssumption, DurationAssumption
  <2>2. CASE tpl.skew # Absent
    <3>1. tpl.skew \in -MaxSkew .. MaxSkew
      BY <2>2 DEF Template
    <3>2. o.date = b + tpl.skew /\ o.date \in Int
      BY <1>6, <2>2, <3>1, <1>1, BoundsAssumption
    <3>3. h.date = o.date
      BY <3>2, SentinelAssumption DEF FixDateHeader
    <3> QED BY <3>1, <3>2, <3>3, <1>1, BoundsAssumption, DurationAssumption
  <2> QED BY <2>1, <2>2
<1>10. h = [o EXCEPT !.date = h.date]
  BY <1>4 DEF FixDateHeader
<1>11. h \in Header /\ h.age = o.age
  BY <1>4, <1>5, <1>7, <1>8, <1>9, <1>10 DEF Header
<1> QED BY <1>7, <1>9, <1>11


-----------------------------------------------------------------------------
(***************************************************************************)
(* The inductive invariant.  Besides the types it says how the times of an *)
(* entry are related: the origin generated or confirmed the content after  *)
(* the request was sent, less the time that the Age field accounts for to  *)
(* within a second; and that nothing is out of the range of a duration.    *)
(***************************************************************************)
AgeField == AgeOf(entry.hdr)

Timely ==
    /\ entry.reqAt <= entry.respAt
    /\ entry.respAt <= now
    /\ now <= MaxTime

Accounted ==
    IsStored => /\ entry.hdr.date >= -(MaxTransit + MaxSkew + Second)
                /\ AgeField >= 0
                /\ AgeField * Second <= MaxTransit
                /\ entry.reqAt - born < AgeField * Second + Second

IInv == TypeOK /\ Timely /\ Accounted

LEMMA InitIInv == Init => IInv
BY BoundsAssumption, DurationAssumption, SentinelAssumption
   DEF Init, IInv, TypeOK, Timely, Accounted, IsStored, NoHeader, Header, OptionalTime

LEMMA StepIInv == IInv /\ [Next]_vars => IInv'
<1> SUFFICES ASSUME IInv, [Next]_vars PROVE IInv'
  OBVIOUS
<1> USE DEF IInv
<1>1. CASE Tick
  BY <1>1, BoundsAssumption
     DEF Tick, TypeOK, Timely, Accounted, IsStored, AgeField, AgeOf
<1>2. CASE Receive
  <2>1. PICK code \in Codes, tpl \in Templates,
             start \in (now - MaxTransit) .. now, up \in 0 .. MaxTransit :
          \E gen \in start .. now :
             /\ ~ IsStored
             /\ start >= 0
             /\ born' = gen - up
             /\ entry' = [code |-> code,
                          hdr |-> FixDateHeader(OriginHeader(tpl, gen, up), now),
                          reqAt |-> start, respAt |-> now]
             /\ UNCHANGED now
    BY <1>2 DEF Receive
  <2>2. PICK gen \in start .. now :
             /\ start >= 0
             /\ born' = gen - up
             /\ entry' = [code |-> code,
                          hdr |-> FixDateHeader(OriginHeader(tpl, gen, up), now),
                          reqAt |-> start, respAt |-> now]
             /\ UNCHANGED now
    BY <2>1
  <2>3. /\ now \in Nat /\ start \in Nat /\ gen \in Nat /\ up \in Nat
        /\ up <= MaxTransit /\ start <= gen /\ gen <= now
    BY <2>1, <2>2, BoundsAssumption DEF TypeOK
  <2> DEFINE h == FixDateHeader(OriginHeader(tpl, gen, up), now)
  <2>4. /\ h \in Header
        /\ h.date >= -(MaxTransit + MaxSkew + Second)
        /\ h.age = IF up = 0 THEN Absent ELSE up \div Second
    <3>1. tpl \in Template
      BY TemplatesAssumption
    <3> QED BY <2>3, <3>1, OriginHeaderType
  <2> HIDE DEF h
  <2>5. entry' = [code |-> code, hdr |-> h, reqAt |-> start, respAt |-> now]
    BY <2>2 DEF h
  <2>6. TypeOK' /\ Timely'
    BY <2>2, <2>3, <2>4, <2>5 DEF TypeOK, Timely
  <2>7. AgeField' = up \div Second
    <3>1. CASE up = 0
      <4>1. h.age = Absent
        BY <2>4, <3>1
      <4> QED BY <4>1, <2>5, <3>1, DurationAssumption DEF AgeField, AgeOf
    <3>2. CASE up # 0
      <4>1. h.age = up \div Second /\ up \div Second \in Nat
        BY <2>3, <2>4, <3>2, DivSecondBounds
      <4> QED BY <4>1, <2>5, SentinelAssumption DEF AgeField, AgeOf
    <3> QED BY <3>1, <3>2
  <2>8. entry'.hdr.date = h.date /\ entry'.reqAt = start /\ born' = gen - up
    BY <2>2, <2>5
  <2>9. /\ up \div Second \in Nat
        /\ (up \div Second) * Second <= MaxTransit
        /\ start - (gen - up) < (up \div Second) * Second + Second
    BY <2>3, UpstreamAge
  <2>10. Accounted'
    BY <2>4, <2>7, <2>8, <2>9 DEF Accounted
  <2> QED BY <2>6, <2>10
<1>3. CASE Freshen
  <2>1. PICK tpl \in Freshenings, start \in (now - MaxTransit) .. now :
          \E gen \in start .. now :
             /\ IsStored
             /\ start >= entry.respAt
             /\ born' = gen
             /\ entry' = [entry EXCEPT
                    !.hdr = MergeResponseHeaders(entry.hdr,
                              FixDateHeader(OriginHeader(tpl, gen, 0), now)),
                    !.reqAt = start, !.respAt = now]
             /\ UNCHANGED now
    BY <1>3 DEF Freshen
  <2>2. PICK gen \in start .. now :
             /\ IsStored
             /\ start >= entry.respAt
             /\ born' = gen
             /\ entry' = [entry EXCEPT
                    !.hdr = MergeResponseHeaders(entry.hdr,
                              FixDateHeader(OriginHeader(tpl, gen, 0), now)),
                    !.reqAt = start, !.respAt = now]
             /\ UNCHANGED now
    BY <2>1
  <2>3. /\ now \in Nat /\ start \in Nat /\ gen \in Nat
        /\ start <= gen /\ gen <= now /\ entry.respAt \in Nat
    BY <2>1, <2>2, BoundsAssumption DEF TypeOK
  <2> DEFINE g == FixDateHeader(OriginHeader(tpl, gen, 0), now)
             m == MergeResponseHeaders(entry.hdr, g)
  <2>4. /\ g \in Header
        /\ g.date >= -(MaxTransit + MaxSkew + Second)
        /\ g.age = Absent
    <3>1. tpl \in Template
      BY TemplatesAssumption
    <3> QED BY <2>3, <3>1, OriginHeaderType, BoundsAssumption
  <2> HIDE DEF g
  <2>5. m \in Header /\ m.date = g.date /\ m.age = entry.hdr.age
    BY <2>4, MergeType DEF TypeOK
  <2> HIDE DEF m
  <2>6. entry' = [code |-> entry.code, hdr |-> m, reqAt |-> start, respAt |-> now]
    BY <2>2 DEF m, g, TypeOK
  <2>7. TypeOK' /\ Timely'
    BY <2>2, <2>3, <2>5, <2>6 DEF TypeOK, Timely
  <2>8. AgeField' = AgeField /\ entry'.hdr.date = g.date
        /\ entry'.reqAt = start /\ AgeField \in Int
    BY <2>5, <2>6 DEF AgeField, AgeOf, TypeOK, Header, OptionalTime
  <2>9. Accounted'
    BY <2>2, <2>3, <2>4, <2>8, DurationAssumption DEF Accounted
  <2> QED BY <2>7, <2>9
<1>4. CASE UNCHANGED vars
  BY <1>4 DEF vars, TypeOK, Timely, Accounted, IsStored, AgeField, AgeOf
<1> QED BY <1>1, <1>2, <1>3, <1>4 DEF Next

\* IInv is an invariant.
LEMMA Invariant == Spec => []IInv
BY InitIInv, StepIInv, PTL DEF Spec

(***************************************************************************)
(* Types are right: in particular a stored response always has a Date.     *)
(***************************************************************************)
THEOREM TypeCorrect == Spec => []TypeOK
BY Invariant, PTL DEF IInv

-----------------------------------------------------------------------------
(***************************************************************************)
(* The age.  Within the bounds nothing saturates or overflows.             *)
(***************************************************************************)
InitialAge == FirstAge(entry)

LEMMA InRange ==
    ASSUME IInv, IsStored, NEW t \in Nat, now <= t, t <= MaxTime
    PROVE  /\ entry.hdr \in Header /\ entry.reqAt \in Nat /\ entry.respAt \in Nat
           /\ entry.reqAt <= entry.respAt /\ entry.respAt <= t
           /\ AgeOf(entry.hdr) \in Nat
           /\ t - entry.hdr.date <= MaxDuration
           /\ AgeOf(entry.hdr) * Second + (t - entry.reqAt) <= MaxDuration
<1>1. /\ entry.hdr \in Header /\ entry.reqAt \in Nat /\ entry.respAt \in Nat
      /\ entry.reqAt <= entry.respAt /\ entry.respAt <= now /\ now \in Nat
  BY DEF IInv, TypeOK, Timely
<1>2. AgeOf(entry.hdr) \in Nat /\ AgeOf(entry.hdr) * Second <= MaxTransit
  BY <1>1 DEF IInv, Accounted, AgeField, AgeOf, Header, OptionalTime
<1>3. t - entry.hdr.date <= MaxDuration
  BY <1>1, BoundsAssumption, DurationAssumption, RangeAssumption DEF IInv, Accounted, Header
<1> DEFINE product == AgeOf(entry.hdr) * Second
<1>4. product \in Nat /\ product <= MaxTransit
  BY <1>2, DurationAssumption
<1> HIDE DEF product
<1>5. product + (t - entry.reqAt) <= MaxDuration
  BY <1>1, <1>4, BoundsAssumption, DurationAssumption, RangeAssumption
<1> QED BY <1>1, <1>2, <1>3, <1>5 DEF product

LEMMA AgeFormula ==
    ASSUME IInv, IsStored, NEW t \in Nat, now <= t, t <= MaxTime
    PROVE  /\ CalculateCurrentAge(entry, t) = InitialAge + (t - entry.respAt)
           /\ InitialAge \in Nat
           /\ InitialAge + (t - entry.respAt) <= MaxDuration
BY InRange, AgeExact DEF InitialAge

LEMMA RealAgeCovered == IInv => AgeNeverUnderestimated
<1> SUFFICES ASSUME IInv, IsStored
             PROVE  CalculateCurrentAge(entry, now) + Second > now - born
  BY DEF AgeNeverUnderestimated
<1>1. now \in Nat /\ now <= MaxTime /\ born \in Int
  BY DEF IInv, TypeOK, Timely
<1>2. entry.reqAt - born < AgeOf(entry.hdr) * Second + Second
  BY DEF IInv, Accounted, AgeField
<1> QED BY <1>1, <1>2, InRange, AgeCovers

(***************************************************************************)
(* The age that the cache computes is never less than the real age by a    *)
(* second or more.                                                         *)
(***************************************************************************)
THEOREM AgeSound == Spec => []AgeNeverUnderestimated
BY RealAgeCovered, Invariant, PTL

-----------------------------------------------------------------------------
(***************************************************************************)
(* The lifetime that the code computes is never longer than the one the    *)
(* header gives, however far its numbers overflow or saturate: where they  *)
(* do, the lifetime of the header is beyond the range of a duration.       *)
(***************************************************************************)
LEMMA HeuristicWithin ==
    ASSUME NEW h \in Header, h.lastModified # Absent
    PROVE  HeuristicFreshness(h) <= Larger(h.date - h.lastModified, 0) \div 10 + Second
<1> DEFINE full == Larger(h.date - h.lastModified, 0)
           z == full \div 10
           d == Sub(h.date, h.lastModified)
           q == d \div Second
           r == (q + 5) \div 10
<1>1. h.date \in Int /\ h.lastModified \in Int
  BY DEF Header, OptionalTime
<1>2. full \in Nat
  BY <1>1 DEF Larger
<1>3. z \in Nat /\ full <= 10 * z + 9
  BY <1>2
<1>4. CASE ~ (h.lastModified < h.date)
  BY <1>3, <1>4, DurationAssumption DEF HeuristicFreshness
<1>5. CASE h.lastModified < h.date
  <2>1. d \in Nat /\ d <= full
    BY <1>1, <1>5, DurationAssumption DEF Sub, Larger
  <2> HIDE DEF d, full
  <2>2. q \in Nat /\ q * Second <= d
    BY <2>1, DivSecondBounds
  <2> HIDE DEF q
  <2>3. r \in Nat /\ 10 * r <= q + 5
    BY <2>2
  <2> HIDE DEF r, z
  <2>4. 10 * (r * Second) <= q * Second + 5 * Second
    <3>1. (10 * r) * Second <= (q + 5) * Second
      BY <2>2, <2>3, DurationAssumption
    <3> QED BY <2>2, <2>3, <3>1, DurationAssumption
  <2> DEFINE x == r * Second
             y == q * Second
  <2>5. x \in Nat /\ y \in Nat /\ y <= d /\ 10 * x <= y + 5 * Second
    BY <2>2, <2>3, <2>4, DurationAssumption
  <2> HIDE DEF x, y
  <2>6. x <= z + Second
    BY <1>2, <1>3, <2>1, <2>5, DurationAssumption
  <2>7. HeuristicFreshness(h) = x
    BY <1>5 DEF HeuristicFreshness, x, r, q, d
  <2> QED BY <2>6, <2>7 DEF z, full
<1> QED BY <1>4, <1>5

LEMMA LifetimeWithin ==
    ASSUME entry.hdr \in Header, ResponseDirectives(entry.hdr).maxAge # 0
    PROVE  /\ ResponseLifetime(entry, ResponseDirectives(entry.hdr)) <= ExplicitLifetime
           /\ ExplicitLifetime \in Int
<1> DEFINE cc == ResponseDirectives(entry.hdr)
           h == entry.hdr
<1>1. cc \in RespCC /\ cc.maxAge # 0
  BY DirectivesType
<1>2. FallbackLifetime(entry, cc) \in 0 .. MaxDuration
  <2>1. HeuristicFreshness(h) \in 0 .. MaxDuration
    BY HeuristicBounds
  <2>2. h.expires \notin {Absent, Bare} /\ h.expires > h.date
        => Sub(h.expires, h.date) \in 0 .. MaxDuration
    BY DurationAssumption DEF Header, Sub
  <2> QED BY <2>1, <2>2, DurationAssumption DEF FallbackLifetime
<1> HIDE DEF cc
<1>3. CASE IsDelta(cc.maxAge)
  <2> DEFINE x == cc.maxAge * Second
             d == DeltaValue(cc.maxAge)
  <2>1. cc.maxAge \in Nat /\ x \in Nat
    BY <1>1, <1>3, DurationAssumption DEF IsDelta, RespCC, Delta
  <2>2. d \in Int /\ d <= x /\ (d <= 0 => x > MaxDuration)
    BY <1>1, <2>1, DeltaShrinks
  <2>3. ExplicitLifetime = x
    BY <1>3 DEF ExplicitLifetime, cc
  <2>4. ResponseLifetime(entry, cc) = IF d > 0 THEN d ELSE FallbackLifetime(entry, cc)
    BY <1>3, <2>2 DEF ResponseLifetime, MaxAgeLifetime
  <2> HIDE DEF x, d
  <2> QED BY <1>2, <2>1, <2>2, <2>3, <2>4, DurationAssumption DEF cc
<1>4. CASE ~ IsDelta(cc.maxAge)
  <2>1. ResponseLifetime(entry, cc) = FallbackLifetime(entry, cc)
    BY <1>4 DEF ResponseLifetime, MaxAgeLifetime
  <2>2. CASE h.expires = Bare
    BY <1>4, <2>1, <2>2, SentinelAssumption DEF FallbackLifetime, ExplicitLifetime, cc
  <2>3. CASE h.expires \in Int
    BY <1>4, <2>1, <2>3, SentinelAssumption, DurationAssumption
       DEF FallbackLifetime, ExplicitLifetime, Header, Sub, Larger, cc
  <2>4. CASE h.expires = Absent /\ h.lastModified = Absent
    BY <1>4, <2>1, <2>4, SentinelAssumption
       DEF FallbackLifetime, ExplicitLifetime, HeuristicFreshness, cc
  <2>5. CASE h.expires = Absent /\ h.lastModified # Absent
    <3> DEFINE z == Larger(h.date - h.lastModified, 0) \div 10 + Second
    <3>1. ExplicitLifetime = z
      BY <1>4, <2>5 DEF ExplicitLifetime, cc
    <3>2. HeuristicFreshness(h) <= z
      BY <2>5, HeuristicWithin
    <3>3. z \in Nat
      BY <2>5, DurationAssumption DEF Header, OptionalTime, Larger
    <3>4. FallbackLifetime(entry, cc) \in {HeuristicFreshness(h), 0}
      BY <2>5 DEF FallbackLifetime
    <3> HIDE DEF z
    <3> QED BY <2>1, <3>1, <3>2, <3>3, <3>4 DEF cc
  <2> QED BY <2>2, <2>3, <2>4, <2>5 DEF Header
<1> QED BY <1>3, <1>4

(***************************************************************************)
(* What CalculateFreshness calls fresh is really younger than the lifetime *)
(* in its header and the staleness that the request accepts together, up   *)
(* to a second, for all headers and requests, with numbers of any size.    *)
(***************************************************************************)
THEOREM FreshSound == Spec => []FreshOnlyWithinAllowance
<1>1. IInv => FreshOnlyWithinAllowance
  <2> SUFFICES ASSUME IInv, NEW rq \in ReqCCs, IsStored,
                      ResponseDirectives(entry.hdr).maxAge # 0, ~ Verdict(rq).isStale
               PROVE  now - born < ExplicitLifetime + AcceptedStaleness(rq) + Second
    BY DEF FreshOnlyWithinAllowance
  <2> DEFINE cc == ResponseDirectives(entry.hdr)
             age == CalculateCurrentAge(entry, now)
             life == UsefulLife(entry, rq, cc)
             allowed == MaxStaleAllowance(rq)
             accepted == AcceptedStaleness(rq)
  <2>1. /\ rq \in ReqCC /\ entry.hdr \in Header /\ entry.reqAt \in Nat
        /\ entry.respAt \in Nat /\ now \in Nat /\ born \in Int
    BY TemplatesAssumption DEF IInv, TypeOK
  <2>2. age < life \/ age < life + allowed
    BY <2>1, FreshMeansYoung DEF Verdict
  <2>3. age \in Int /\ now - born < age + Second
    BY <2>1, RealAgeCovered, AgeType DEF AgeNeverUnderestimated
  <2>4. /\ life \in Int /\ life <= ResponseLifetime(entry, cc)
        /\ ResponseLifetime(entry, cc) \in Int
    <3>1. cc \in RespCC /\ NoReqCC \in ReqCC
      BY <2>1, DirectivesType DEF NoReqCC, ReqCC, Delta
    <3>2. UsefulLife(entry, NoReqCC, cc) = ResponseLifetime(entry, cc)
      BY DEF UsefulLife, NoReqCC, IsDelta
    <3> QED BY <2>1, <3>1, <3>2, LifeBounds, UsefulLifeShrinks
  <2>5. ResponseLifetime(entry, cc) <= ExplicitLifetime /\ ExplicitLifetime \in Int
    BY <2>1, LifetimeWithin
  <2>6. allowed \in Int /\ accepted \in Nat /\ allowed <= accepted
    <3>1. CASE rq.maxStale \in Nat
      <4>1. accepted = rq.maxStale * Second /\ rq.maxStale * Second \in Nat
        BY <3>1, SentinelAssumption, DurationAssumption DEF AcceptedStaleness
      <4> QED BY <2>1, <3>1, <4>1, AllowanceShrinks
    <3>2. CASE rq.maxStale = Bare
      BY <2>1, <3>2, AllowanceShrinks, SentinelAssumption, DurationAssumption
         DEF AcceptedStaleness
    <3>3. CASE rq.maxStale = Absent
      BY <2>1, <3>3, AllowanceShrinks DEF AcceptedStaleness
    <3> QED BY <2>1, <3>1, <3>2, <3>3 DEF ReqCC, Delta
  <2> HIDE DEF cc, age, life, allowed, accepted
  <2>7. now - born < ExplicitLifetime + accepted + Second
    BY <2>1, <2>2, <2>3, <2>4, <2>5, <2>6, DurationAssumption
  <2> QED BY <2>7 DEF accepted
<1> QED BY <1>1, Invariant, PTL

-----------------------------------------------------------------------------
(***************************************************************************)
(* Time alone never makes a stale response fresh.                          *)
(***************************************************************************)
THEOREM StaleSticks == Spec => StaleStaysStale
<1>1. IInv /\ IInv' /\ [Next]_vars => [StaleStepStaysStale]_vars
  <2> SUFFICES ASSUME IInv, IInv', [Next]_vars, NEW rq \in ReqCCs, IsStored,
                      entry' = entry, CalculateFreshness(entry, rq, now).isStale
               PROVE  CalculateFreshness(entry, rq, now').isStale
    BY DEF StaleStepStaysStale
  <2> DEFINE cc   == ResponseDirectives(entry.hdr)
             a    == CalculateCurrentAge(entry, now)
             b    == CalculateCurrentAge(entry, now')
             life == UsefulLife(entry, rq, cc)
  <2>1. now \in Nat /\ now' \in Nat /\ now <= now' /\ now <= MaxTime /\ now' <= MaxTime
        /\ entry.respAt \in Nat /\ entry.respAt <= now
    <3>1. now' = now \/ now' = now + 1
      BY DEF Next, Tick, Receive, Freshen, vars
    <3> QED BY <3>1 DEF IInv, TypeOK, Timely
  <2>2. rq \in ReqCC /\ entry.hdr \in Header
    BY TemplatesAssumption DEF IInv, TypeOK
  <2>3. life \in 0 .. MaxDuration
    BY <2>2, LifeBounds, DirectivesType
  <2>4. a \in 0 .. MaxDuration /\ b \in 0 .. MaxDuration /\ a <= b
    <3>1. /\ a = InitialAge + (now - entry.respAt)
          /\ InitialAge \in Nat
          /\ InitialAge + (now - entry.respAt) <= MaxDuration
      BY <2>1, AgeFormula
    <3>2. /\ b = InitialAge + (now' - entry.respAt)
          /\ InitialAge + (now' - entry.respAt) <= MaxDuration
      BY <2>1, AgeFormula
    <3> QED BY <2>1, <3>1, <3>2, DurationAssumption
  <2> HIDE DEF cc, a, b, life
  <2>5. CASE IsDelta(rq.maxAge) /\ DeltaValue(rq.maxAge) = 0
    BY <2>5 DEF CalculateFreshness
  <2>6. CASE ~ (IsDelta(rq.maxAge) /\ DeltaValue(rq.maxAge) = 0)
    <3>1. MinFreshUnmet(rq, a, life) \/ StaleBeyondAllowance(rq, a, life)
      BY <2>6 DEF CalculateFreshness, cc, a, life
    <3>2. MinFreshUnmet(rq, b, life) \/ StaleBeyondAllowance(rq, b, life)
      BY <2>2, <2>3, <2>4, <3>1, StalenessMonotone
    <3> QED BY <2>6, <3>2 DEF CalculateFreshness, cc, b, life
  <2> QED BY <2>5, <2>6
<1>2. Spec => [][StaleStepStaysStale]_vars
  BY <1>1, Invariant, PTL DEF Spec
<1> QED BY <1>2 DEF StaleStaysStale
=============================================================================
