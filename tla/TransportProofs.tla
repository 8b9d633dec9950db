--------------------------- MODULE TransportProofs ---------------------------
(***************************************************************************)
(* Proofs about Transport, for every value of its constants: that it is    *)
(* type correct, on which the proofs of ServingProofs build, and that      *)
(* invalidation is effective, whatever fails.                              *)
(***************************************************************************)
EXTENDS Transport, FreshnessProofs

-----------------------------------------------------------------------------
(***************************************************************************)
(* Types of the operators that the actions are built from.                 *)
(***************************************************************************)

LEMMA ResponseIsRaw == Response \subseteq RawResponse
BY DEF Response, RawResponse, ResponseWith, Header, RawHeader, OptionalTime

\* FixDateHeader makes a header complete.
LEMMA FixDateType ==
    ASSUME NEW h \in RawHeader, NEW t \in Nat
    PROVE  FixDateHeader(h, t) \in Header
BY ToSecondBounds DEF FixDateHeader, RawHeader, Header, OptionalTime

\* Only the ages and the dates of a response are touched when it is served.
LEMMA StripType ==
    ASSUME NEW h \in Header PROVE StripListedFields(h) \in Header
BY DEF StripListedFields, Header

LEMMA OriginHeaderRaw ==
    ASSUME NEW reply \in Replies, NEW gen \in Nat
    PROVE  OriginHeader(reply, gen, reply.up) \in RawHeader
<1> DEFINE o == OriginHeader(reply, gen, reply.up)
           b == ToSecond(gen - reply.up)
<1>1. reply.up \in Nat
  BY RepliesAssumption
<1>2. b \in Int /\ reply.up \div Second \in Nat
  BY <1>1, ToSecondBounds, DivSecondBounds
<1>3. o = [cc |-> reply.cc, expires |-> o.expires, lastModified |-> o.lastModified,
           date |-> o.date, age |-> o.age, vary |-> reply.vary,
           tagged |-> reply.tagged, listed |-> reply.listed]
  BY DEF OriginHeader
<1>4. o.expires \in Int \cup {Absent, Bare}
  BY <1>2, RepliesAssumption, SentinelAssumption DEF OriginHeader
<1>5. o.lastModified \in OptionalTime /\ o.date \in OptionalTime
  BY <1>2, RepliesAssumption, SentinelAssumption DEF OriginHeader, OptionalTime
<1>6. o.age \in OptionalTime
  BY <1>2 DEF OriginHeader, OptionalTime
<1>7. reply.cc \in RespCC \cup {Absent} /\ reply.vary \in SUBSET Fields
      /\ reply.tagged \in BOOLEAN /\ reply.listed \in BOOLEAN
  BY RepliesAssumption
<1> HIDE DEF o
<1>8. o \in RawHeader
  BY <1>3, <1>4, <1>5, <1>6, <1>7 DEF RawHeader
<1> QED BY <1>8 DEF o

\* A reference is made of a response and the request it answers.
LEMMA MakeRefType ==
    ASSUME NEW u \in Urls, NEW h \in Header, NEW r \in RequestHeader
    PROVE  MakeRef(u, h, r) \in Ref /\ MakeRef(u, h, r).id \in Ids
           /\ MakeRef(u, h, r).id.url = u
<1> DEFINE res == NormalizeVaryHeader(h.vary, r)
<1>1. h.vary \in SUBSET Fields /\ h.date \in Int
  BY DEF Header
<1>2. res \in [h.vary -> Values]
  BY <1>1, ValueAssumption, NormalizeAssumption
     DEF NormalizeVaryHeader, FieldValue, RequestHeader
<1>3. res \in Resolved
  BY <1>1, <1>2 DEF Resolved
<1> HIDE DEF res
<1>4. VaryKey(u, res) \in Ids /\ VaryKey(u, res).url = u
  BY <1>3 DEF VaryKey, Ids
<1>5. MakeRef(u, h, r) = [id |-> VaryKey(u, res), vary |-> h.vary,
                          resolved |-> res, received |-> h.date]
  BY DEF MakeRef, res
<1> QED BY <1>1, <1>3, <1>4, <1>5 DEF Ref

\* VaryHeadersMatch permutes the index.
LEMMA SortedRefsType ==
    ASSUME NEW s \in Seq(Ref), NEW t \in SortedRefs(s)
    PROVE  /\ t \in Seq(Ref)
           /\ Len(t) = Len(s)
           /\ \A i \in 1 .. Len(t) : \E j \in 1 .. Len(s) : t[i] = s[j]
<1>1. PICK f \in [1 .. Len(s) -> 1 .. Len(s)] : t = [i \in 1 .. Len(s) |-> s[f[i]]]
  BY DEF SortedRefs, Reorderings
<1>2. Len(s) \in Nat /\ \A i \in 1 .. Len(s) : s[f[i]] \in Ref
  OBVIOUS
<1> QED BY <1>1, <1>2

LEMMA UpdateRefsType ==
    ASSUME NEW s \in Seq(Ref), NEW k \in Nat, NEW r \in Ref
    PROVE  /\ UpdateRefs(s, k, r) \in Seq(Ref)
           /\ \A i \in 1 .. Len(UpdateRefs(s, k, r)) :
                 \/ UpdateRefs(s, k, r)[i] = r
                 \/ \E j \in 1 .. Len(s) : UpdateRefs(s, k, r)[i] = s[j]
BY DEF UpdateRefs

-----------------------------------------------------------------------------
(***************************************************************************)
(* The inductive type invariant.  TypeOK alone is not inductive: an action *)
(* relies on what its goroutine has put into its local variables on the    *)
(* way there.  LocalsOK(p, where, c) says what c, the local variables of   *)
(* p, hold when p is at where.                                             *)
(***************************************************************************)
LocalsOK(p, where, c) ==
    /\ where \in Locations
    /\ c \in Call
    /\ where # "idle" => c.req \in Requests
    /\ where \in {"launched", "lookup", "set", "setrefs"}
         => IsRequestMethodUnderstood(c.req)
    /\ where = "lookup" => c.idx \in 1 .. Len(c.refs) /\ c.stored = Absent
    /\ where \in {"upstream", "reply"} => c.start \in Nat
    /\ where = "reply" => c.resp \in RawResponse
    /\ where \in {"set", "setrefs"} => c.resp \in Response
    /\ where # "idle" /\ c.stored # Absent
         => IsRequestMethodUnderstood(c.req) /\ c.fresh \in FreshnessVerdict
    /\ p \in Workers => where \in {"idle", "launched", "upstream", "reply", "set", "setrefs"}
    /\ p \in Workers /\ where # "idle" => c.stored # Absent

ProcsOK ==
    /\ pc \in [Procs -> Locations]
    /\ call \in [Procs -> Call]
    /\ \A p \in Procs : LocalsOK(p, pc[p], call[p])

StateOK ==
    /\ now \in Nat
    /\ ver \in [Urls -> Nat]
    /\ refs \in [Urls -> Seq(Ref)]
    /\ entries \in [Ids -> Response \cup {Absent}]
    /\ ctx \in [Workers -> {"live", "done"}]
    /\ body \in [Workers -> {"unread", "read", "closed"}]
    /\ calls \in Nat
    /\ done \in [Urls -> Nat]
    /\ raced \in [Urls -> BOOLEAN]
    /\ failed \in [Urls -> BOOLEAN]

TypeInv == ProcsOK /\ StateOK

LEMMA TypeInvTypeOK == TypeInv => TypeOK
BY DEF TypeInv, ProcsOK, StateOK, TypeOK, LocalsOK

LEMMA NoCallOK == \A p \in Procs : LocalsOK(p, "idle", NoCall)
BY DEF LocalsOK, NoCall, Call, Locations, Statuses

LEMMA TypeInit == Init => TypeInv
BY NoCallOK DEF Init, TypeInv, ProcsOK, StateOK, LocalsOK

\* A goroutine whose new local variables are right leaves all of them right.
LEMMA GotoOK ==
    ASSUME ProcsOK, NEW p \in Procs, NEW where, NEW locals,
           LocalsOK(p, where, locals), Goto(p, where, locals)
    PROVE  ProcsOK'
<1>1. where \in Locations /\ locals \in Call
  BY DEF LocalsOK
<1>2. pc' \in [Procs -> Locations] /\ call' \in [Procs -> Call]
  BY <1>1 DEF Goto, ProcsOK
<1>3. \A q \in Procs : LocalsOK(q, pc'[q], call'[q])
  BY DEF Goto, ProcsOK
<1> QED BY <1>2, <1>3 DEF ProcsOK

LEMMA FinishOK ==
    ASSUME ProcsOK, NEW p \in Procs, NEW locals, Finish(p, locals),
           p \notin Workers => LocalsOK(p, "done", locals)
    PROVE  ProcsOK'
BY GotoOK, NoCallOK DEF Finish

\* The rest of the state, when an action leaves it alone or changes one part.
LEMMA SameState ==
    ASSUME StateOK, UNCHANGED <<environment, cache, sharing, calls, ghosts>>
    PROVE  StateOK'
BY DEF StateOK, environment, cache, sharing, ghosts

-----------------------------------------------------------------------------
(***************************************************************************)
(* Every action preserves the type invariant.                              *)
(***************************************************************************)
LEMMA RequestType ==
    ASSUME NEW req \in Requests
    PROVE  /\ req.url \in Urls /\ req.hdr \in RequestHeader /\ req.cc \in ReqCC
           /\ OwnPrecondition(req) \in Nat \cup {Absent}
           /\ req.inm \in Nat \cup {Absent} /\ req.ims \in Nat \cup {Absent}
BY RequestsAssumption DEF OwnPrecondition, Precondition

LEMMA MissOK ==
    ASSUME TypeInv, NEW c \in Clients, NEW locals, HandleCacheMiss(c, locals),
           locals \in Call, locals.req \in Requests, locals.stored = Absent
    PROVE  ProcsOK'
<1>1. c \in Procs /\ c \notin Workers
  BY ProcsAssumption DEF Procs
<1>2. LocalsOK(c, "done", [locals EXCEPT !.status = "TIMEOUT504"])
  BY <1>1 DEF LocalsOK, Call, Locations, Statuses
<1>3. LocalsOK(c, "upstream", [locals EXCEPT !.start = now, !.cond = OwnPrecondition(locals.req)])
  <2>1. now \in Nat /\ OwnPrecondition(locals.req) \in Nat \cup {Absent}
    BY RequestType DEF TypeInv, StateOK
  <2> QED BY <1>1, <2>1 DEF LocalsOK, Call, Locations
<1> QED BY <1>1, <1>2, <1>3, GotoOK, FinishOK DEF HandleCacheMiss, TypeInv

LEMMA StartOK ==
    ASSUME TypeInv, NEW c \in Clients, Start(c) PROVE TypeInv'
<1>1. c \in Procs /\ c \notin Workers
  BY ProcsAssumption DEF Procs
<1>2. PICK req \in Requests : StartBypass(c, req) \/ StartNoRefs(c, req) \/ StartMatch(c, req)
  BY DEF Start
<1>3. NoCall \in Call /\ NoCall.stored = Absent
  BY DEF NoCall, Call, Statuses
<1>4. now \in Nat /\ OwnPrecondition(req) \in Nat \cup {Absent} /\ req.url \in Urls
  BY RequestType DEF TypeInv, StateOK
<1>5. ASSUME StartBypass(c, req) PROVE ProcsOK'
  <2>1. LocalsOK(c, "upstream", [NoCall EXCEPT !.req = req, !.start = now, !.cond = OwnPrecondition(req)])
    BY <1>1, <1>3, <1>4 DEF LocalsOK, Call, Locations
  <2> QED BY <1>1, <1>5, <2>1, GotoOK DEF StartBypass, TypeInv
<1>6. ASSUME StartNoRefs(c, req) PROVE ProcsOK'
  <2> DEFINE l == [NoCall EXCEPT !.req = req]
  <2>1. l \in Call /\ l.req = req /\ l.stored = Absent
    BY <1>3 DEF Call
  <2>2. HandleCacheMiss(c, l)
    BY <1>6 DEF StartNoRefs
  <2> HIDE DEF l
  <2> QED BY <2>1, <2>2, MissOK
<1>7. ASSUME StartMatch(c, req) PROVE ProcsOK'
  <2>1. PICK sorted \in SortedRefs(refs[req.url]), k \in 0 .. Len(refs[req.url]) :
          LET locals == [NoCall EXCEPT !.req = req, !.refs = sorted, !.idx = k]
          IN  /\ IsFirstMatch(sorted, req.hdr, k)
              /\ IF k = 0 THEN HandleCacheMiss(c, locals) ELSE Goto(c, "lookup", locals)
    BY <1>7 DEF StartMatch
  <2> DEFINE l == [NoCall EXCEPT !.req = req, !.refs = sorted, !.idx = k]
  <2>2. refs[req.url] \in Seq(Ref)
    BY <1>4 DEF TypeInv, StateOK
  <2>3. sorted \in Seq(Ref) /\ Len(sorted) = Len(refs[req.url]) /\ k \in Nat
    BY <2>2, SortedRefsType
  <2>4. /\ l \in Call /\ l.req = req /\ l.stored = Absent
        /\ l.refs = sorted /\ l.idx = k
    BY <1>3, <2>3 DEF Call
  <2>5. IF k = 0 THEN HandleCacheMiss(c, l) ELSE Goto(c, "lookup", l)
    BY <2>1
  <2>6. IsRequestMethodUnderstood(req)
    BY <1>7 DEF StartMatch
  <2> HIDE DEF l
  <2>7. CASE k = 0
    BY <2>4, <2>5, <2>7, MissOK
  <2>8. CASE k # 0
    <3>1. LocalsOK(c, "lookup", l)
      BY <1>1, <2>3, <2>4, <2>6, <2>8 DEF LocalsOK, Locations
    <3> QED BY <1>1, <2>5, <2>8, <3>1, GotoOK DEF TypeInv
  <2> QED BY <2>7, <2>8
<1>8. StateOK'
  BY DEF Start, TypeInv, StateOK, environment, cache, sharing, ghosts
<1> QED BY <1>2, <1>5, <1>6, <1>7, <1>8 DEF TypeInv

\* What a client that looks an entry up has in its hands.
LEMMA LookupType ==
    ASSUME TypeInv, NEW c \in Clients, pc[c] = "lookup"
    PROVE  /\ call[c] \in Call /\ call[c].req \in Requests
           /\ IsRequestMethodUnderstood(call[c].req)
           /\ call[c].refs[call[c].idx] \in Ref
           /\ call[c].refs[call[c].idx].id \in Ids
           /\ Selected(c) \in Response \cup {Absent}
<1>1. LocalsOK(c, "lookup", call[c])
  BY DEF TypeInv, ProcsOK, Procs
<1>2. call[c] \in Call /\ call[c].req \in Requests /\ IsRequestMethodUnderstood(call[c].req)
      /\ call[c].idx \in 1 .. Len(call[c].refs)
  BY <1>1 DEF LocalsOK
<1>3. call[c].refs \in Seq(Ref)
  BY <1>2 DEF Call
<1>4. call[c].refs[call[c].idx] \in Ref
  BY <1>2, <1>3
<1>5. call[c].refs[call[c].idx].id \in Ids
  BY <1>4 DEF Ref
<1> QED BY <1>2, <1>4, <1>5 DEF Selected, TypeInv, StateOK

LEMMA HitType ==
    ASSUME TypeInv, NEW c \in Clients, IsHit(c)
    PROVE  /\ Selected(c) \in Response
           /\ Verdict(c) \in FreshnessVerdict
           /\ WithStored(c) \in Call
           /\ WithStored(c).stored = Selected(c) /\ WithStored(c).fresh = Verdict(c)
           /\ WithStored(c).req = call[c].req
           /\ Validator(call[c].req, Selected(c)) \in Nat \cup {Absent}
<1>1. pc[c] = "lookup" /\ Selected(c) # Absent
  BY DEF IsHit
<1>2. /\ call[c] \in Call /\ call[c].req \in Requests
      /\ Selected(c) \in Response
  BY <1>1, LookupType
<1>3. /\ now \in Int /\ call[c].req.cc \in ReqCC
      /\ call[c].req.inm \in Nat \cup {Absent} /\ call[c].req.ims \in Nat \cup {Absent}
  BY <1>2, RequestType DEF TypeInv, StateOK
<1>4. /\ Selected(c).hdr \in Header /\ Selected(c).reqAt \in Nat
      /\ Selected(c).respAt \in Nat
      /\ Selected(c).tagOf \in Nat /\ Selected(c).dateOf \in Nat
  BY <1>2 DEF Response, ResponseWith
<1>5. Verdict(c) \in FreshnessVerdict
  BY <1>3, <1>4, VerdictType DEF Verdict
<1>6. WithStored(c) \in Call /\ WithStored(c).stored = Selected(c)
      /\ WithStored(c).fresh = Verdict(c) /\ WithStored(c).req = call[c].req
  BY <1>2, <1>5 DEF WithStored, Call
<1>7. Validator(call[c].req, Selected(c)) \in Nat \cup {Absent}
  BY <1>3, <1>4 DEF Validator, Precondition
<1> QED BY <1>2, <1>5, <1>6, <1>7

LEMMA SetAgeType ==
    ASSUME TypeInv, NEW r \in Response, NEW f \in FreshnessVerdict
    PROVE  SetAgeHeader(r, f) \in Response
<1> DEFINE a == Larger(AgeAt(f, now), 0)
<1>1. a \in Nat
  <2>1. now \in Nat /\ f.age \in Int /\ f.ts \in Int
    BY DEF TypeInv, StateOK, FreshnessVerdict
  <2>2. Sub(now, f.ts) \in Int
    BY <2>1, DurationAssumption DEF Sub
  <2>3. AgeAt(f, now) \in Int
    BY <2>1, <2>2, WrapInt DEF AgeAt
  <2> QED BY <2>3 DEF Larger
<1> HIDE DEF a
<1>2. a \div Second \in Int
  BY <1>1, DivSecondBounds
<1> DEFINE h == [r.hdr EXCEPT !.age = a \div Second]
<1>3. r.hdr \in Header
  BY DEF Response, ResponseWith
<1>4. h \in Header
  BY <1>2, <1>3 DEF Header, OptionalTime
<1>5. SetAgeHeader(r, f) = [r EXCEPT !.hdr = h]
  BY DEF SetAgeHeader, a
<1> HIDE DEF h
<1> QED BY <1>4, <1>5 DEF Response, ResponseWith

LEMMA FromCacheType ==
    ASSUME TypeInv, NEW r \in Response, NEW f \in FreshnessVerdict
    PROVE  FromCache(r, f) \in Response
<1>1. [r EXCEPT !.hdr = StripListedFields(r.hdr)] \in Response
  BY StripType DEF Response, ResponseWith
<1> QED BY <1>1, SetAgeType DEF FromCache

LEMMA LookupMissOK ==
    ASSUME TypeInv, NEW c \in Clients, LookupMiss(c) PROVE TypeInv'
<1>1. pc[c] = "lookup" /\ HandleCacheMiss(c, call[c]) /\ c \in Procs
  BY DEF LookupMiss, Procs
<1>2. call[c].stored = Absent
  BY <1>1 DEF TypeInv, ProcsOK, LocalsOK
<1>3. ProcsOK'
  BY <1>1, <1>2, LookupType, MissOK
<1> QED BY <1>3, SameState DEF LookupMiss, TypeInv

LEMMA LookupServeOK ==
    ASSUME TypeInv, NEW c \in Clients, LookupServe(c) PROVE TypeInv'
<1> DEFINE l == [WithStored(c) EXCEPT !.resp = FromCache(Selected(c), Verdict(c)),
                                      !.status = "HIT"]
<1>1. c \in Procs /\ c \notin Workers /\ IsHit(c) /\ pc[c] = "lookup"
  BY ProcsAssumption DEF Procs, LookupServe, IsHit
<1>2. FromCache(Selected(c), Verdict(c)) \in RawResponse
  BY <1>1, HitType, FromCacheType, ResponseIsRaw
<1>3. l \in Call /\ l.req = call[c].req /\ l.fresh = Verdict(c)
  BY ZenonT(60), <1>1, <1>2, HitType DEF Call, Statuses
<1>4. Finish(c, l)
  BY DEF LookupServe
<1> HIDE DEF l
<1>5. LocalsOK(c, "done", l)
  BY <1>1, <1>3, HitType, LookupType DEF LocalsOK, Locations
<1>6. ProcsOK'
  BY <1>1, <1>4, <1>5, FinishOK DEF TypeInv
<1> QED BY <1>6, SameState DEF LookupServe, TypeInv

LEMMA LookupValidateOK ==
    ASSUME TypeInv, NEW c \in Clients, LookupValidate(c) PROVE TypeInv'
<1> DEFINE l == [WithStored(c) EXCEPT !.start = now,
                                      !.cond = Validator(call[c].req, Selected(c))]
<1>1. c \in Procs /\ c \notin Workers /\ IsHit(c) /\ pc[c] = "lookup" /\ now \in Nat
  BY ProcsAssumption DEF Procs, LookupValidate, IsHit, TypeInv, StateOK
<1>2. l \in Call /\ l.req = call[c].req /\ l.fresh = Verdict(c) /\ l.start = now
  BY ZenonT(60), <1>1, HitType DEF Call
<1>3. Goto(c, "upstream", l)
  BY DEF LookupValidate
<1> HIDE DEF l
<1>4. LocalsOK(c, "upstream", l)
  BY <1>1, <1>2, HitType, LookupType DEF LocalsOK, Locations
<1>5. ProcsOK'
  BY <1>1, <1>3, <1>4, GotoOK DEF TypeInv
<1> QED BY <1>5, SameState DEF LookupValidate, TypeInv

LEMMA LookupStaleOK ==
    ASSUME TypeInv, NEW c \in Clients, LookupStale(c) PROVE TypeInv'
<1>1. PICK w \in Workers :
        /\ IsHit(c)
        /\ pc' = [pc EXCEPT ![c] = "done", ![w] = "launched"]
        /\ call' = [call EXCEPT ![c] = [WithStored(c) EXCEPT !.resp = Selected(c),
                                                             !.status = "STALE"],
                                ![w] = BackgroundCall(c)]
        /\ ctx' = [ctx EXCEPT ![w] = "live"]
        /\ body' = [body EXCEPT ![w] = "unread"]
        /\ UNCHANGED <<environment, cache, calls, ghosts>>
  BY DEF LookupStale
<1> DEFINE l == [WithStored(c) EXCEPT !.resp = Selected(c), !.status = "STALE"]
<1>2. c \in Procs /\ w \in Procs /\ c \notin Workers /\ c # w /\ pc[c] = "lookup"
  BY <1>1, ProcsAssumption DEF Procs, IsHit
<1>3. LocalsOK(c, "done", l)
  BY ZenonT(60), <1>1, <1>2, HitType, LookupType, ResponseIsRaw
     DEF LocalsOK, Call, Locations, Statuses
<1>4. NoCall \in Call
  BY DEF NoCall, Call, Statuses
<1>5. LocalsOK(w, "launched", BackgroundCall(c))
  <2>1. Selected(c) # Absent
    BY <1>1 DEF IsHit
  <2> QED BY <1>1, <1>2, <1>4, <2>1, HitType, LookupType
             DEF LocalsOK, Call, Locations, BackgroundCall
<1>6. l \in Call /\ BackgroundCall(c) \in Call
  BY <1>3, <1>5 DEF LocalsOK
<1> HIDE DEF l
<1>7. pc' \in [Procs -> Locations] /\ call' \in [Procs -> Call]
  BY <1>1, <1>2, <1>6 DEF TypeInv, ProcsOK, l, Locations
<1>8. \A q \in Procs : LocalsOK(q, pc'[q], call'[q])
  BY <1>1, <1>2, <1>3, <1>5 DEF TypeInv, ProcsOK, l
<1>9. StateOK'
  BY <1>1 DEF TypeInv, StateOK, environment, cache, ghosts
<1> QED BY <1>7, <1>8, <1>9 DEF TypeInv, ProcsOK

LEMMA BackgroundSendOK ==
    ASSUME TypeInv, NEW w \in Workers, BackgroundSend(w) PROVE TypeInv'
<1>1. w \in Procs /\ pc[w] = "launched" /\ now \in Nat
  BY DEF Procs, BackgroundSend, TypeInv, StateOK
<1>2. LocalsOK(w, "launched", call[w])
  BY <1>1 DEF TypeInv, ProcsOK
<1>3. LocalsOK(w, "upstream", [call[w] EXCEPT !.start = now])
  BY <1>1, <1>2 DEF LocalsOK, Call, Locations
<1>4. ProcsOK'
  BY <1>1, <1>3, GotoOK DEF BackgroundSend, TypeInv
<1> QED BY <1>4, SameState DEF BackgroundSend, TypeInv

LEMMA BumpedType ==
    ASSUME StateOK, NEW us PROVE Bumped(us) \in [Urls -> Nat]
BY DEF StateOK, Bumped

LEMMA OriginResponseType ==
    ASSUME StateOK, NEW req \in Requests, NEW reply \in Replies, NEW t \in Nat
    PROVE  OriginResponse(req, reply, t) \in RawResponse
<1>1. OriginHeader(reply, now, reply.up) \in RawHeader
  BY OriginHeaderRaw DEF StateOK
<1>2. Bumped(Changed(req, reply))[req.url] \in Nat /\ req.hdr \in RequestHeader
  BY BumpedType, RequestType
<1>3. /\ reply.code \in Nat /\ reply.up \in Nat /\ reply.sized \in BOOLEAN
      /\ reply.locs \in Seq(Urls)
  BY RepliesAssumption
<1>4. now - reply.up \in Int /\ (reply.code # 304) \in BOOLEAN
  BY <1>3 DEF StateOK
<1> QED BY <1>1, <1>2, <1>3, <1>4 DEF OriginResponse, RawResponse, ResponseWith

LEMMA OriginReplyOK ==
    ASSUME TypeInv, NEW p \in Procs, OriginReply(p) PROVE TypeInv'
<1>1. PICK reply \in Replies :
        /\ ver' = Bumped(Changed(call[p].req, reply))
        /\ Goto(p, "reply", [call[p] EXCEPT
                               !.resp = OriginResponse(call[p].req, reply, call[p].start),
                               !.effect = Bumped(Changed(call[p].req, reply))])
  BY DEF OriginReply
<1> DEFINE r == OriginResponse(call[p].req, reply, call[p].start)
           e == Bumped(Changed(call[p].req, reply))
<1>2. LocalsOK(p, "upstream", call[p])
  BY DEF OriginReply, TypeInv, ProcsOK
<1>3. r \in RawResponse
  BY <1>2, OriginResponseType DEF LocalsOK, TypeInv
<1>4. e \in [Urls -> Nat]
  BY BumpedType DEF TypeInv
<1> HIDE DEF r, e
<1>5. LocalsOK(p, "reply", [call[p] EXCEPT !.resp = r, !.effect = e])
  BY <1>2, <1>3, <1>4 DEF LocalsOK, Call, Locations
<1>6. ProcsOK'
  BY <1>1, <1>5, GotoOK DEF r, e, TypeInv
<1>7. StateOK'
  BY <1>1, <1>4 DEF OriginReply, TypeInv, StateOK, e, cache, sharing, ghosts
<1> QED BY <1>6, <1>7 DEF TypeInv

LEMMA UpstreamFailOK ==
    ASSUME TypeInv, NEW p \in Procs, UpstreamFail(p) PROVE TypeInv'
<1>1. LocalsOK(p, pc[p], call[p]) /\ pc[p] \in {"upstream", "reply"}
  BY DEF UpstreamFail, TypeInv, ProcsOK
<1>2. p \notin Workers
        => LocalsOK(p, "done", [call[p] EXCEPT !.status = "ERROR", !.resp = Absent])
  BY <1>1 DEF LocalsOK, Call, Locations, Statuses
<1>3. ProcsOK'
  BY <1>2, FinishOK DEF UpstreamFail, TypeInv
<1> QED BY <1>3, SameState DEF UpstreamFail, TypeInv

LEMMA ReplyType ==
    ASSUME TypeInv, NEW p \in Procs, pc[p] = "reply"
    PROVE  /\ LocalsOK(p, "reply", call[p])
           /\ call[p] \in Call /\ call[p].req \in Requests
           /\ call[p].resp \in RawResponse
           /\ Received(p) \in Response
           /\ [call[p].resp EXCEPT !.respAt = now] \in RawResponse
           /\ [call[p].resp EXCEPT !.respAt = now].locs \in Seq(Urls)
<1>1. LocalsOK(p, "reply", call[p]) /\ now \in Nat
  BY DEF TypeInv, ProcsOK, StateOK
<1>2. call[p].resp \in RawResponse /\ call[p] \in Call /\ call[p].req \in Requests
  BY <1>1 DEF LocalsOK
<1>3. call[p].resp.hdr \in RawHeader
  BY <1>2 DEF RawResponse, ResponseWith
<1>4. FixDateHeader(call[p].resp.hdr, now) \in Header
  BY <1>1, <1>3, FixDateType
<1>5. Received(p) \in Response
  BY <1>1, <1>2, <1>4 DEF Received, Response, RawResponse, ResponseWith
<1>6. /\ [call[p].resp EXCEPT !.respAt = now] \in RawResponse
      /\ [call[p].resp EXCEPT !.respAt = now].locs \in Seq(Urls)
  BY <1>1, <1>2 DEF RawResponse, ResponseWith
<1> QED BY <1>1, <1>2, <1>5, <1>6

LEMMA PlanType ==
    ASSUME NEW req \in Requests, NEW resp, resp.locs \in Seq(Urls)
    PROVE  InvalidationPlan(req, resp) \in Seq(CacheOp)
<1> DEFINE idx(u) == << [op |-> "refs", id |-> Absent, url |-> u] >>
           key(u) == << [op |-> "key", id |-> Absent, url |-> u] >>
           loc(i) == IF Len(resp.locs) >= i /\ Origin[resp.locs[i]] = Origin[req.url]
                     THEN idx(resp.locs[i]) \o key(resp.locs[i])
                     ELSE <<>>
<1>1. \A u \in Urls : idx(u) \in Seq(CacheOp) /\ key(u) \in Seq(CacheOp)
  BY DEF CacheOp
<1>2. \A s, t \in Seq(CacheOp) : s \o t \in Seq(CacheOp)
  OBVIOUS
<1>3. InvalidationPlan(req, resp) = idx(req.url) \o loc(1) \o loc(2) \o key(req.url)
  BY DEF InvalidationPlan
<1> HIDE DEF idx, key
<1>4. \A i \in {1, 2} : loc(i) \in Seq(CacheOp)
  <2> SUFFICES ASSUME NEW i \in {1, 2}, Len(resp.locs) >= i
               PROVE  idx(resp.locs[i]) \o key(resp.locs[i]) \in Seq(CacheOp)
    OBVIOUS
  <2>1. resp.locs[i] \in Urls
    OBVIOUS
  <2> QED BY <2>1, <1>1, <1>2
<1> HIDE DEF loc
<1> QED BY <1>1, <1>2, <1>3, <1>4, RequestType

LEMMA ReceiveBypassOK ==
    ASSUME TypeInv, NEW c \in Clients, ReceiveBypass(c) PROVE TypeInv'
<1> DEFINE r == [call[c].resp EXCEPT !.respAt = now]
           l == [call[c] EXCEPT !.resp = r, !.status = "BYPASS"]
           m == [l EXCEPT !.plan = InvalidationPlan(call[c].req, r)]
<1>1. c \in Procs /\ c \notin Workers /\ pc[c] = "reply"
  BY ProcsAssumption DEF Procs, ReceiveBypass
<1>2. /\ LocalsOK(c, "reply", call[c]) /\ call[c] \in Call /\ call[c].req \in Requests
      /\ r \in RawResponse /\ r.locs \in Seq(Urls)
  BY <1>1, ReplyType
<1>3. InvalidationPlan(call[c].req, r) \in Seq(CacheOp)
  BY <1>2, PlanType
<1>4. Goto(c, "invalidate", m) \/ Finish(c, l)
  BY DEF ReceiveBypass
<1> HIDE DEF r
<1>5. LocalsOK(c, "done", l)
  BY <1>1, <1>2 DEF LocalsOK, Call, Locations, Statuses
<1>6. LocalsOK(c, "invalidate", m)
  BY <1>1, <1>2, <1>3 DEF LocalsOK, Call, Locations, Statuses
<1> HIDE DEF l, m
<1>7. ProcsOK'
  BY <1>1, <1>4, <1>5, <1>6, GotoOK, FinishOK DEF TypeInv
<1> QED BY <1>7, SameState DEF ReceiveBypass, TypeInv

LEMMA ReceiveMissOK ==
    ASSUME TypeInv, NEW c \in Clients, ReceiveMiss(c) PROVE TypeInv'
<1> DEFINE l == [call[c] EXCEPT !.resp = Received(c), !.status = "MISS"]
<1>1. /\ c \in Procs /\ c \notin Workers /\ pc[c] = "reply"
      /\ IsRequestMethodUnderstood(call[c].req)
  BY ProcsAssumption DEF Procs, ReceiveMiss
<1>2. LocalsOK(c, "reply", call[c]) /\ Received(c) \in Response /\ Received(c) \in RawResponse
  BY <1>1, ReplyType, ResponseIsRaw
<1>3. LocalsOK(c, "done", l) /\ LocalsOK(c, "set", l)
  BY <1>1, <1>2 DEF LocalsOK, Call, Locations, Statuses
<1>4. Goto(c, "set", l) \/ Finish(c, l)
  BY DEF ReceiveMiss
<1> HIDE DEF l
<1>5. ProcsOK'
  BY <1>1, <1>3, <1>4, GotoOK, FinishOK DEF TypeInv
<1> QED BY <1>5, SameState DEF ReceiveMiss, TypeInv

\* What a goroutine that has its validation answered has in its hands.
LEMMA ValidationType ==
    ASSUME TypeInv, NEW p \in Procs, IsValidation(p)
    PROVE  /\ LocalsOK(p, "reply", call[p]) /\ call[p] \in Call
           /\ call[p].req \in Requests /\ IsRequestMethodUnderstood(call[p].req)
           /\ call[p].stored \in Response /\ call[p].fresh \in FreshnessVerdict
           /\ call[p].resp \in RawResponse
           /\ Received(p) \in Response /\ Received(p) \in RawResponse
           /\ Freshened(p) \in Response /\ Freshened(p) \in RawResponse
           /\ Freshened(p).ver = call[p].stored.ver
<1>1. pc[p] = "reply" /\ call[p].stored # Absent
  BY DEF IsValidation
<1>2. /\ LocalsOK(p, "reply", call[p]) /\ call[p] \in Call
      /\ call[p].req \in Requests /\ Received(p) \in Response
      /\ call[p].resp \in RawResponse
  BY <1>1, ReplyType
<1>3. /\ call[p].stored \in Response /\ call[p].fresh \in FreshnessVerdict
      /\ IsRequestMethodUnderstood(call[p].req) /\ call[p].start \in Nat /\ now \in Nat
  BY <1>1, <1>2 DEF LocalsOK, Call, TypeInv, StateOK
<1>4. call[p].stored.hdr \in Header /\ Received(p).hdr \in Header
      /\ Received(p).for \in RequestHeader /\ Received(p).born \in Int
      /\ Received(p).tagOf \in Nat /\ Received(p).dateOf \in Nat
  BY <1>2, <1>3 DEF Response, ResponseWith
<1>5. MergeResponseHeaders(call[p].stored.hdr, Received(p).hdr) \in Header
  BY <1>4, MergeType
<1>6. Freshened(p) \in Response /\ Freshened(p).ver = call[p].stored.ver
  BY <1>3, <1>4, <1>5 DEF Freshened, Response, ResponseWith
<1> QED BY <1>2, <1>3, <1>6, ResponseIsRaw

LEMMA ReceiveNotModifiedOK ==
    ASSUME TypeInv, NEW p \in Procs, ReceiveNotModified(p) PROVE TypeInv'
<1> DEFINE l == [call[p] EXCEPT !.resp = Freshened(p), !.status = "REVALIDATED"]
<1>1. IsValidation(p) /\ Goto(p, "set", l)
  BY DEF ReceiveNotModified
<1>2. LocalsOK(p, "set", l)
  BY ZenonT(60), <1>1, ValidationType DEF LocalsOK, Call, Locations, Statuses
<1> HIDE DEF l
<1>3. ProcsOK'
  BY <1>1, <1>2, GotoOK DEF TypeInv
<1> QED BY <1>3, SameState DEF ReceiveNotModified, TypeInv

LEMMA ReceiveErrorOK ==
    ASSUME TypeInv, NEW p \in Procs, ReceiveError(p) PROVE TypeInv'
<1> DEFINE r == SetAgeHeader(call[p].stored, call[p].fresh)
           l == [call[p] EXCEPT !.resp = r, !.status = "STALE"]
<1>1. IsValidation(p) /\ Finish(p, l)
  BY DEF ReceiveError
<1>2. r \in RawResponse
  BY <1>1, ValidationType, SetAgeType, ResponseIsRaw
<1> HIDE DEF r
<1>3. p \notin Workers => LocalsOK(p, "done", l)
  BY ZenonT(60), <1>1, <1>2, ValidationType DEF LocalsOK, Call, Locations, Statuses
<1> HIDE DEF l
<1>4. ProcsOK'
  BY <1>1, <1>3, FinishOK DEF TypeInv
<1> QED BY <1>4, SameState DEF ReceiveError, TypeInv

LEMMA ReceiveFullOK ==
    ASSUME TypeInv, NEW p \in Procs, ReceiveFull(p) PROVE TypeInv'
<1> DEFINE l == [call[p] EXCEPT !.resp = Received(p), !.status = "MISS"]
           m == [call[p] EXCEPT !.resp = Received(p), !.status = "BYPASS"]
<1>1. IsValidation(p) /\ (Goto(p, "set", l) \/ Finish(p, m))
  BY DEF ReceiveFull
<1>2. LocalsOK(p, "set", l)
  BY ZenonT(60), <1>1, ValidationType DEF LocalsOK, Call, Locations, Statuses
<1>3. p \notin Workers => LocalsOK(p, "done", m)
  BY ZenonT(60), <1>1, ValidationType DEF LocalsOK, Call, Locations, Statuses
<1> HIDE DEF l, m
<1>4. ProcsOK'
  BY <1>1, <1>2, <1>3, GotoOK, FinishOK DEF TypeInv
<1> QED BY <1>4, SameState DEF ReceiveFull, TypeInv

LEMMA ReceiveLateOK ==
    ASSUME TypeInv, NEW w \in Workers, ReceiveLate(w) PROVE TypeInv'
<1>1. ProcsOK'
  BY FinishOK DEF ReceiveLate, TypeInv, Procs
<1> QED BY <1>1, SameState DEF ReceiveLate, TypeInv

\* What StoreResponse works on.
LEMMA StoreType ==
    ASSUME TypeInv, NEW p \in Procs, pc[p] \in {"set", "setrefs"}
    PROVE  /\ LocalsOK(p, pc[p], call[p]) /\ call[p] \in Call
           /\ call[p].req \in Requests /\ call[p].req.url \in Urls
           /\ IsRequestMethodUnderstood(call[p].req)
           /\ call[p].resp \in Response
           /\ NewRef(p) \in Ref /\ NewRef(p).id \in Ids
           /\ NewRef(p).id.url = call[p].req.url
           /\ Marshalled(p) \in Response /\ Marshalled(p).ver = call[p].resp.ver
<1>1. LocalsOK(p, pc[p], call[p])
  BY DEF TypeInv, ProcsOK
<1>2. /\ call[p] \in Call /\ call[p].req \in Requests /\ call[p].resp \in Response
      /\ IsRequestMethodUnderstood(call[p].req)
  BY <1>1 DEF LocalsOK
<1>3. call[p].resp.hdr \in Header /\ call[p].resp.whole \in BOOLEAN
  BY <1>2 DEF Response, ResponseWith
<1>4. /\ NewRef(p) \in Ref /\ NewRef(p).id \in Ids
      /\ NewRef(p).id.url = call[p].req.url /\ call[p].req.url \in Urls
  BY <1>2, <1>3, RequestType, MakeRefType DEF NewRef
<1>5. Marshalled(p) \in Response /\ Marshalled(p).ver = call[p].resp.ver
  BY <1>2, <1>3 DEF Marshalled, Response, ResponseWith
<1> QED BY <1>1, <1>2, <1>4, <1>5

LEMMA SetEntryOK ==
    ASSUME TypeInv, NEW p \in Procs, SetEntry(p) \/ SetEntryFails(p) PROVE TypeInv'
<1>1. pc[p] = "set" /\ Goto(p, "setrefs", call[p])
  BY DEF SetEntry, SetEntryFails
<1>2. LocalsOK(p, "setrefs", call[p])
  BY <1>1, StoreType DEF LocalsOK, Locations
<1>3. ProcsOK'
  BY <1>1, <1>2, GotoOK DEF TypeInv
<1>4. CASE SetEntry(p)
  <2>1. entries' \in [Ids -> Response \cup {Absent}]
    BY <1>1, <1>4, StoreType DEF SetEntry, TypeInv, StateOK
  <2>2. StateOK'
    BY <1>4, <2>1 DEF SetEntry, TypeInv, StateOK, environment, sharing, ghosts
  <2> QED BY <1>3, <2>2 DEF TypeInv
<1>5. CASE SetEntryFails(p)
  <2>1. StateOK'
    BY <1>5 DEF SetEntryFails, TypeInv, StateOK, environment, cache, sharing
  <2> QED BY <1>3, <2>1 DEF TypeInv
<1> QED BY <1>4, <1>5

LEMMA SetRefsOK ==
    ASSUME TypeInv, NEW p \in Procs, SetRefs(p) PROVE TypeInv'
<1>1. pc[p] = "setrefs" /\ Finish(p, call[p])
  BY DEF SetRefs
<1>2. p \notin Workers => LocalsOK(p, "done", call[p])
  BY <1>1, StoreType DEF LocalsOK, Locations
<1>3. ProcsOK'
  BY <1>1, <1>2, FinishOK DEF TypeInv
<1>4. call[p].refs \in Seq(Ref) /\ call[p].idx \in Nat /\ NewRef(p) \in Ref
  BY <1>1, StoreType DEF Call
<1>5. UpdateRefs(call[p].refs, call[p].idx, NewRef(p)) \in Seq(Ref)
  BY <1>4, UpdateRefsType
<1>6. refs' \in [Urls -> Seq(Ref)]
  BY <1>5 DEF SetRefs, TypeInv, StateOK
<1>7. StateOK'
  BY <1>6 DEF SetRefs, TypeInv, StateOK, environment, sharing, ghosts
<1> QED BY <1>3, <1>7 DEF TypeInv

\* The next operation of an invalidation and what remains after it.
LEMMA PlanStep ==
    ASSUME TypeInv, NEW c \in Clients, NEW op, IsInvalidating(c, op)
    PROVE  /\ c \in Procs /\ c \notin Workers /\ pc[c] = "invalidate"
           /\ LocalsOK(c, "invalidate", call[c]) /\ call[c] \in Call
           /\ NextOp(c) \in CacheOp /\ NextOp(c).url \in Urls
           /\ NextOp(c).id \in Ids \cup {Absent}
           /\ Tail(call[c].plan) \in Seq(CacheOp)
<1>1. c \in Procs /\ c \notin Workers /\ pc[c] = "invalidate" /\ call[c].plan # <<>>
  BY ProcsAssumption DEF IsInvalidating, Procs
<1>2. LocalsOK(c, "invalidate", call[c])
  BY <1>1 DEF TypeInv, ProcsOK
<1>3. call[c] \in Call /\ call[c].plan \in Seq(CacheOp)
  BY <1>2 DEF LocalsOK, Call
<1>4. NextOp(c) \in CacheOp /\ Tail(call[c].plan) \in Seq(CacheOp)
  BY <1>1, <1>3 DEF NextOp
<1> QED BY <1>1, <1>2, <1>3, <1>4 DEF CacheOp

LEMMA AdvanceOK ==
    ASSUME TypeInv, NEW c \in Clients, NEW op, IsInvalidating(c, op), Advance(c)
    PROVE  ProcsOK'
<1> DEFINE l == [call[c] EXCEPT !.plan = Tail(@), !.gone = @ \cup {NextOp(c)}]
<1>1. /\ c \in Procs /\ c \notin Workers /\ LocalsOK(c, "invalidate", call[c])
      /\ call[c] \in Call /\ NextOp(c) \in CacheOp
      /\ Tail(call[c].plan) \in Seq(CacheOp)
  BY PlanStep
<1>2. l \in Call /\ l.req = call[c].req /\ l.stored = call[c].stored /\ l.fresh = call[c].fresh
  BY <1>1 DEF Call
<1>3. Finish(c, l) \/ Goto(c, "invalidate", l)
  BY DEF Advance
<1> HIDE DEF l
<1>4. LocalsOK(c, "done", l) /\ LocalsOK(c, "invalidate", l)
  BY <1>1, <1>2 DEF LocalsOK, Locations
<1> QED BY <1>1, <1>3, <1>4, GotoOK, FinishOK DEF TypeInv

LEMMA InvalidateGetRefsOK ==
    ASSUME TypeInv, NEW c \in Clients, InvalidateGetRefs(c) PROVE TypeInv'
<1>1. IsInvalidating(c, "refs")
  BY DEF InvalidateGetRefs
<1>2. PICK index \in {refs[NextOp(c).url]} \cup {<<>>} :
        Goto(c, "invalidate",
             [call[c] EXCEPT !.plan =
                [i \in 1 .. Len(index) |->
                   [op |-> "id", id |-> index[i].id, url |-> NextOp(c).url]] \o Tail(@)])
  BY DEF InvalidateGetRefs
<1> DEFINE ops == [i \in 1 .. Len(index) |->
                     [op |-> "id", id |-> index[i].id, url |-> NextOp(c).url]]
           l == [call[c] EXCEPT !.plan = ops \o Tail(@)]
<1>3. index \in Seq(Ref)
  <2>1. NextOp(c).url \in Urls
    BY <1>1, PlanStep
  <2>2. refs[NextOp(c).url] \in Seq(Ref) /\ <<>> \in Seq(Ref)
    BY <2>1 DEF TypeInv, StateOK
  <2> QED BY <2>2
<1>4. ops \in Seq(CacheOp)
  <2>1. \A i \in 1 .. Len(index) : index[i] \in Ref
    BY <1>3
  <2>2. \A i \in 1 .. Len(index) :
          [op |-> "id", id |-> index[i].id, url |-> NextOp(c).url] \in CacheOp
    BY <1>1, <2>1, PlanStep DEF CacheOp, Ref
  <2>3. Len(index) \in Nat
    BY <1>3
  <2> QED BY <2>2, <2>3
<1> HIDE DEF ops
<1>5. ops \o Tail(call[c].plan) \in Seq(CacheOp)
  BY <1>1, <1>4, PlanStep
<1>6. LocalsOK(c, "invalidate", l)
  BY ZenonT(60), <1>1, <1>5, PlanStep DEF LocalsOK, Call, Locations
<1>7. Goto(c, "invalidate", l)
  BY <1>2 DEF ops
<1> HIDE DEF l
<1>8. ProcsOK'
  BY <1>1, <1>6, <1>7, PlanStep, GotoOK DEF TypeInv
<1> QED BY <1>8, SameState DEF InvalidateGetRefs, TypeInv

LEMMA InvalidateOK ==
    ASSUME TypeInv, NEW c \in Clients,
           InvalidateSkip(c) \/ InvalidateEntry(c) \/ InvalidateKey(c)
    PROVE  TypeInv'
<1>1. PICK op : IsInvalidating(c, op)
  BY DEF InvalidateSkip, InvalidateEntry, InvalidateKey
<1>2. ProcsOK'
  BY <1>1, AdvanceOK DEF InvalidateSkip, InvalidateEntry, InvalidateKey
<1>3. ASSUME InvalidateSkip(c) PROVE StateOK'
  BY <1>3, SameState DEF InvalidateSkip, TypeInv
<1>4. ASSUME InvalidateEntry(c) PROVE StateOK'
  <2>1. entries' \in [Ids -> Response \cup {Absent}]
    BY <1>4 DEF InvalidateEntry, TypeInv, StateOK
  <2> QED BY <1>4, <2>1 DEF InvalidateEntry, TypeInv, StateOK, environment, sharing, ghosts
<1>5. ASSUME InvalidateKey(c) PROVE StateOK'
  <2> DEFINE u == NextOp(c).url
             n == Larger(done[u], call[c].effect[u])
             g == \E q \in Procs : GetUnderWay(q, u)
  <2>1. u \in Urls /\ call[c].effect[u] \in Nat
    BY <1>1, PlanStep DEF Call
  <2>2. n \in Nat /\ g \in BOOLEAN
    BY <2>1 DEF Larger, TypeInv, StateOK
  <2>3. /\ refs' = [refs EXCEPT ![u] = <<>>]
        /\ done' = [done EXCEPT ![u] = n]
        /\ raced' = [raced EXCEPT ![u] = g]
        /\ failed' = [failed EXCEPT ![u] = FALSE]
        /\ UNCHANGED <<environment, entries, sharing, calls>>
    BY <1>5 DEF InvalidateKey
  <2> HIDE DEF n, g, u
  <2>4. refs' \in [Urls -> Seq(Ref)] /\ done' \in [Urls -> Nat]
    <3>1. refs \in [Urls -> Seq(Ref)] /\ done \in [Urls -> Nat] /\ <<>> \in Seq(Ref)
      BY DEF TypeInv, StateOK
    <3>2. refs' \in [Urls -> Seq(Ref)]
      BY <2>3, <3>1, Zenon
    <3> QED BY <2>2, <2>3, <3>1, <3>2
  <2>5. raced \in [Urls -> BOOLEAN] /\ failed \in [Urls -> BOOLEAN]
    BY DEF TypeInv, StateOK
  <2>6. failed' \in [Urls -> BOOLEAN]
    BY <2>3, <2>5
  <2>7. raced' \in [Urls -> BOOLEAN]
    BY <2>2, <2>3, <2>5, Zenon
  <2> QED BY <2>3, <2>4, <2>6, <2>7 DEF TypeInv, StateOK, environment, sharing
<1> QED BY <1>2, <1>3, <1>4, <1>5 DEF TypeInv

LEMMA TypeStep == TypeInv /\ [Next]_vars => TypeInv'
<1> SUFFICES ASSUME TypeInv, [Next]_vars PROVE TypeInv'
  OBVIOUS
<1>1. ASSUME NEW p \in Procs, ProcStep(p) PROVE TypeInv'
  BY <1>1, OriginReplyOK, UpstreamFailOK, ReceiveNotModifiedOK, ReceiveErrorOK,
     ReceiveFullOK, SetEntryOK, SetRefsOK DEF ProcStep
<1>2. ASSUME NEW c \in Clients, ClientStep(c) PROVE TypeInv'
  BY <1>1, <1>2, LookupMissOK, LookupServeOK, LookupValidateOK, LookupStaleOK,
     ReceiveBypassOK, ReceiveMissOK, InvalidateGetRefsOK, InvalidateOK
     DEF ClientStep, Procs
<1>3. ASSUME NEW c \in Clients, Return(c) PROVE TypeInv'
  <2>1. ProcsOK'
    BY <1>3, GotoOK, NoCallOK DEF Return, TypeInv, Procs
  <2> QED BY <1>3, <2>1, SameState DEF Return, TypeInv
<1>4. ASSUME NEW w \in Workers, WorkerStep(w) PROVE TypeInv'
  BY <1>1, <1>4, BackgroundSendOK, ReceiveLateOK DEF WorkerStep, Procs
<1>5. ASSUME NEW w \in Workers, ContextDone(w) \/ ReadBody(w) \/ CloseBody(w)
      PROVE  TypeInv'
  BY <1>5 DEF ContextDone, ReadBody, CloseBody, TypeInv, ProcsOK, StateOK,
              environment, cache, ghosts
<1>6. ASSUME NEW u \in Urls, OriginUpdate(u) PROVE TypeInv'
  BY <1>6 DEF OriginUpdate, TypeInv, ProcsOK, StateOK, cache, sharing, ghosts
<1>7. ASSUME Tick PROVE TypeInv'
  BY <1>7 DEF Tick, TypeInv, ProcsOK, StateOK, cache, sharing, ghosts
<1>8. ASSUME UNCHANGED vars PROVE TypeInv'
  BY <1>8 DEF vars, TypeInv, ProcsOK, StateOK
<1> QED BY <1>2, <1>3, <1>4, <1>5, <1>6, <1>7, <1>8, StartOK DEF Next, Quiescent

(***************************************************************************)
(* Every goroutine finds in its local variables and in the cache what the  *)
(* code expects there: a Date in every stored response, an entry and its   *)
(* freshness in every validation, a reference in every lookup.             *)
(***************************************************************************)
THEOREM TransportTypeCorrect == Spec => []TypeOK
<1>1. Spec => []TypeInv
  BY TypeInit, TypeStep, PTL DEF Spec
<1> QED BY <1>1, TypeInvTypeOK, PTL

-----------------------------------------------------------------------------
(***************************************************************************)
(* Invalidation is effective.  That the index leads to nothing older than  *)
(* the last invalidation (InvalidationEffective) is not inductive: what    *)
(* goroutines have already read comes back into the index later.  So it    *)
(* also speaks of the goroutines that are under way: the index each has    *)
(* read, the response it validates, the one it received, and the entry     *)
(* behind the reference it is about to write.                              *)
(*                                                                         *)
(* The operators take the parts of the state they speak of as arguments.   *)
(***************************************************************************)

\* What the cache has under id is no older than version n.
Newer(ents, n, id) == ents[id] # Absent => ents[id].ver >= n

IndexNewer(ents, n, index) ==
    \A i \in 1 .. Len(index) : Newer(ents, n, index[i].id)

\* The index of u has response IDs of u only.
OwnIds(u, index) == \A i \in 1 .. Len(index) : index[i].id.url = u

Own(where, c) == where \notin {"idle", "done"} => OwnIds(c.req.url, c.refs)

\* An invalidation acts for a version that the origin has reached.
Past(where, c, v) ==
    where \in {"reply", "invalidate"} => \A u \in Urls : c.effect[u] <= v[u]

\* A GET for u that may still write to the cache.
Underway(where, c, u) ==
    /\ where \notin {"idle", "done"}
    /\ IsRequestMethodUnderstood(c.req)
    /\ c.req.url = u

CarriesNewer(ents, n, where, c) ==
    /\ IndexNewer(ents, n, c.refs)
    /\ c.stored # Absent => c.stored.ver >= n
    /\ where \in {"reply", "set", "setrefs"} => c.resp.ver >= n
    /\ where = "setrefs"
         => Newer(ents, n, MakeRef(c.req.url, c.resp.hdr, c.req.hdr).id)

\* No GET was under way at the last invalidation, and no write has failed since.
Settled(u) == ~ raced[u] /\ ~ failed[u]

OwnInv == /\ \A u \in Urls : OwnIds(u, refs[u])
          /\ \A p \in Procs : Own(pc[p], call[p])
PastInv == /\ \A u \in Urls : done[u] <= ver[u]
           /\ \A p \in Procs : Past(pc[p], call[p], ver)
IndexInv == \A u \in Urls : Settled(u) => IndexNewer(entries, done[u], refs[u])
CarryInv == \A u \in Urls, p \in Procs :
              Settled(u) /\ Underway(pc[p], call[p], u)
                => CarriesNewer(entries, done[u], pc[p], call[p])

InvalInv == OwnInv /\ PastInv /\ IndexInv /\ CarryInv

LEMMA InvalInit == Init => InvalInv
BY DEF Init, InvalInv, OwnInv, PastInv, IndexInv, CarryInv, OwnIds, Own, Past,
       Underway, IndexNewer

LEMMA InvalImplies == InvalInv => InvalidationEffective
BY DEF InvalInv, IndexInv, IndexNewer, Newer, Settled,
       InvalidationEffective, ReachableSince

-----------------------------------------------------------------------------
(***************************************************************************)
(* A goroutine moves on and leaves the cache and the ghosts alone.  Fine   *)
(* says what is to be shown of the local variables it moves on with.       *)
(***************************************************************************)
Fine(where, c, v) ==
    /\ Own(where, c)
    /\ Past(where, c, v)
    /\ \A u \in Urls : Settled(u) /\ Underway(where, c, u)
         => CarriesNewer(entries, done[u], where, c)

Grows == ver' \in [Urls -> Nat] /\ \A u \in Urls : ver[u] <= ver'[u]

LEMMA MoveOK ==
    ASSUME TypeInv, InvalInv, Grows, NEW p \in Procs, NEW where, NEW c,
           Goto(p, where, c), Fine(where, c, ver'),
           UNCHANGED <<refs, entries, done, raced, failed>>
    PROVE  InvalInv'
<1>1. \A q \in Procs : \/ q = p /\ pc'[q] = where /\ call'[q] = c
                       \/ pc'[q] = pc[q] /\ call'[q] = call[q]
  BY DEF Goto, TypeInv, ProcsOK
<1>2. \A q \in Procs : Past(pc[q], call[q], ver) => Past(pc[q], call[q], ver')
  <2> SUFFICES ASSUME NEW q \in Procs, NEW u \in Urls, call[q].effect[u] <= ver[u]
               PROVE  call[q].effect[u] <= ver'[u]
    BY DEF Past
  <2>1. call[q].effect[u] \in Nat
    BY DEF TypeInv, ProcsOK, Call
  <2> QED BY <2>1 DEF Grows, TypeInv, StateOK
<1>3. OwnInv'
  BY <1>1 DEF InvalInv, OwnInv, Fine
<1>4. PastInv'
  <2>1. \A u \in Urls : done'[u] <= ver'[u]
    BY DEF InvalInv, PastInv, Grows, TypeInv, StateOK
  <2>2. \A q \in Procs : Past(pc'[q], call'[q], ver')
    BY <1>1, <1>2 DEF InvalInv, PastInv, Fine
  <2> QED BY <2>1, <2>2 DEF PastInv
<1>5. IndexInv'
  BY DEF InvalInv, IndexInv, Settled
<1>6. CarryInv'
  BY <1>1 DEF InvalInv, CarryInv, Fine, Settled
<1> QED BY <1>3, <1>4, <1>5, <1>6 DEF InvalInv

\* Nothing is to be shown of a goroutine that ends.
LEMMA EndFine == \A c, v : Fine("done", c, v) /\ Fine("idle", c, v)
BY DEF Fine, Own, Past, Underway

LEMMA EndOK ==
    ASSUME TypeInv, InvalInv, NEW p \in Procs, NEW c, Finish(p, c),
           UNCHANGED <<ver, refs, entries, done, raced, failed>>
    PROVE  InvalInv'
<1>1. Grows
  BY DEF Grows, TypeInv, StateOK
<1>2. CASE p \in Workers
  <2>1. Goto(p, "idle", NoCall)
    BY <1>2 DEF Finish
  <2> QED BY <1>1, <2>1, EndFine, MoveOK
<1>3. CASE p \notin Workers
  <2>1. Goto(p, "done", c)
    BY <1>3 DEF Finish
  <2> QED BY <1>1, <2>1, EndFine, MoveOK
<1> QED BY <1>2, <1>3

-----------------------------------------------------------------------------
(***************************************************************************)
(* RoundTrip up to the origin.                                             *)
(***************************************************************************)

\* HandleCacheMiss keeps what its caller has read.
LEMMA MissFine ==
    ASSUME TypeInv, InvalInv, NEW c \in Clients, NEW l \in Call,
           HandleCacheMiss(c, l), l.stored = Absent, OwnIds(l.req.url, l.refs),
           \A u \in Urls : Settled(u) /\ l.req.url = u => IndexNewer(entries, done[u], l.refs),
           UNCHANGED <<ver, refs, entries, done, raced, failed>>
    PROVE  InvalInv'
<1> DEFINE m == [l EXCEPT !.start = now, !.cond = OwnPrecondition(l.req)]
<1>1. c \in Procs /\ Grows
  BY DEF Procs, Grows, TypeInv, StateOK
<1>2. Finish(c, [l EXCEPT !.status = "TIMEOUT504"]) \/ Goto(c, "upstream", m)
  BY DEF HandleCacheMiss
<1>3. m.req = l.req /\ m.refs = l.refs /\ m.stored = l.stored
  BY DEF Call
<1> HIDE DEF m
<1>4. Fine("upstream", m, ver')
  BY <1>3 DEF Fine, Own, Past, CarriesNewer, Underway
<1> QED BY <1>1, <1>2, <1>4, MoveOK, EndOK

LEMMA StartInval ==
    ASSUME TypeInv, InvalInv, NEW c \in Clients, Start(c) PROVE InvalInv'
<1>1. c \in Procs /\ Grows
  BY DEF Start, Procs, Grows, TypeInv, StateOK, environment
<1>2. PICK req \in Requests : StartBypass(c, req) \/ StartNoRefs(c, req) \/ StartMatch(c, req)
  BY DEF Start
<1>3. UNCHANGED <<ver, refs, entries, done, raced, failed>>
  BY DEF Start, environment, cache, ghosts
<1>4. NoCall \in Call /\ NoCall.stored = Absent /\ NoCall.refs = <<>>
  BY DEF NoCall, Call, Statuses
<1>5. ASSUME StartBypass(c, req) PROVE InvalInv'
  <2> DEFINE l == [NoCall EXCEPT !.req = req, !.start = now, !.cond = OwnPrecondition(req)]
  <2>1. l.req = req /\ l.refs = <<>>
    BY <1>4 DEF Call
  <2>2. Goto(c, "upstream", l) /\ ~ IsRequestMethodUnderstood(req)
    BY <1>5 DEF StartBypass
  <2> HIDE DEF l
  <2>3. Fine("upstream", l, ver')
    BY <2>1, <2>2 DEF Fine, Own, OwnIds, Past, Underway
  <2> QED BY <1>1, <1>3, <2>2, <2>3, MoveOK
<1>6. ASSUME StartNoRefs(c, req) PROVE InvalInv'
  <2> DEFINE l == [NoCall EXCEPT !.req = req]
  <2>1. l \in Call /\ l.refs = <<>> /\ l.stored = Absent
    BY <1>4 DEF Call
  <2>2. HandleCacheMiss(c, l)
    BY <1>6 DEF StartNoRefs
  <2> HIDE DEF l
  <2>3. OwnIds(l.req.url, l.refs) /\ \A u \in Urls : IndexNewer(entries, done[u], l.refs)
    BY <2>1 DEF OwnIds, IndexNewer
  <2> QED BY <1>3, <2>1, <2>2, <2>3, MissFine
<1>7. ASSUME StartMatch(c, req) PROVE InvalInv'
  <2>1. PICK sorted \in SortedRefs(refs[req.url]), k \in 0 .. Len(refs[req.url]) :
          LET locals == [NoCall EXCEPT !.req = req, !.refs = sorted, !.idx = k]
          IN  IF k = 0 THEN HandleCacheMiss(c, locals) ELSE Goto(c, "lookup", locals)
    BY <1>7 DEF StartMatch
  <2> DEFINE l == [NoCall EXCEPT !.req = req, !.refs = sorted, !.idx = k]
  <2>2. req.url \in Urls /\ refs[req.url] \in Seq(Ref)
    BY RequestType DEF TypeInv, StateOK
  <2>3. /\ sorted \in Seq(Ref) /\ k \in Nat
        /\ \A i \in 1 .. Len(sorted) : \E j \in 1 .. Len(refs[req.url]) :
             sorted[i] = refs[req.url][j]
    <3>1. k \in Nat
      BY <2>2
    <3> DEFINE s == refs[req.url]
    <3>2. s \in Seq(Ref) /\ sorted \in SortedRefs(s)
      BY <2>2
    <3> HIDE DEF s
    <3>3. /\ sorted \in Seq(Ref)
          /\ \A i \in 1 .. Len(sorted) : \E j \in 1 .. Len(s) : sorted[i] = s[j]
      BY <3>2, SortedRefsType
    <3> QED BY <3>1, <3>3 DEF s
  <2>4. l \in Call /\ l.req = req /\ l.refs = sorted /\ l.stored = Absent
    BY <1>4, <2>3 DEF Call
  <2>5. IF k = 0 THEN HandleCacheMiss(c, l) ELSE Goto(c, "lookup", l)
    BY <2>1
  <2> HIDE DEF l
  <2>6. OwnIds(l.req.url, l.refs)
    BY <2>2, <2>3, <2>4 DEF OwnIds, InvalInv, OwnInv
  <2>7. \A u \in Urls : Settled(u) /\ l.req.url = u => IndexNewer(entries, done[u], l.refs)
    BY <2>2, <2>3, <2>4 DEF InvalInv, IndexInv, IndexNewer
  <2>8. CASE k = 0
    BY <1>3, <2>4, <2>5, <2>6, <2>7, <2>8, MissFine
  <2>9. CASE k # 0
    <3>1. Fine("lookup", l, ver')
      BY <2>4, <2>6, <2>7 DEF Fine, Own, Past, CarriesNewer, Underway
    <3> QED BY <1>1, <1>3, <2>5, <2>9, <3>1, MoveOK
  <2> QED BY <2>8, <2>9
<1> QED BY <1>2, <1>5, <1>6, <1>7

\* The index that a client has read, and the entry that it selects with it.
LEMMA LookupCarries ==
    ASSUME TypeInv, InvalInv, NEW c \in Clients, pc[c] = "lookup"
    PROVE  /\ call[c].stored = Absent
           /\ OwnIds(call[c].req.url, call[c].refs)
           /\ call[c].req.url \in Urls
           /\ \A u \in Urls : Settled(u) /\ call[c].req.url = u
                => /\ IndexNewer(entries, done[u], call[c].refs)
                   /\ Selected(c) # Absent => Selected(c).ver >= done[u]
<1>1. c \in Procs /\ LocalsOK(c, "lookup", call[c])
  BY DEF Procs, TypeInv, ProcsOK
<1>2. /\ call[c].stored = Absent /\ IsRequestMethodUnderstood(call[c].req)
      /\ call[c].idx \in 1 .. Len(call[c].refs) /\ call[c].req.url \in Urls
  BY <1>1, RequestType DEF LocalsOK
<1>3. OwnIds(call[c].req.url, call[c].refs)
  BY <1>1 DEF InvalInv, OwnInv, Own
<1>4. \A u \in Urls : Settled(u) /\ call[c].req.url = u
        => IndexNewer(entries, done[u], call[c].refs)
  BY <1>1, <1>2 DEF InvalInv, CarryInv, CarriesNewer, Underway
<1> QED BY <1>2, <1>3, <1>4 DEF IndexNewer, Newer, Selected

LEMMA LookupInval ==
    ASSUME TypeInv, InvalInv, NEW c \in Clients,
           LookupMiss(c) \/ LookupServe(c) \/ LookupValidate(c)
    PROVE  InvalInv'
<1>1. /\ pc[c] = "lookup" /\ c \in Procs /\ Grows
      /\ UNCHANGED <<ver, refs, entries, done, raced, failed>>
  BY DEF LookupMiss, LookupServe, LookupValidate, IsHit, Procs, Grows,
         TypeInv, StateOK, environment, cache, ghosts
<1>2. ASSUME LookupMiss(c) PROVE InvalInv'
  BY <1>1, <1>2, LookupType, LookupCarries, MissFine DEF LookupMiss
<1>3. ASSUME LookupServe(c) PROVE InvalInv'
  BY <1>1, <1>3, EndOK DEF LookupServe
<1>4. ASSUME LookupValidate(c) PROVE InvalInv'
  <2> DEFINE l == [WithStored(c) EXCEPT !.start = now,
                                        !.cond = Validator(call[c].req, Selected(c))]
  <2>1. IsHit(c) /\ Goto(c, "upstream", l)
    BY <1>4 DEF LookupValidate
  <2>2. l.req = call[c].req /\ l.stored = Selected(c) /\ l.refs = call[c].refs
    BY <1>1, <2>1, HitType, LookupType DEF WithStored, Call
  <2> HIDE DEF l
  <2>3. Fine("upstream", l, ver')
    BY <1>1, <2>2, LookupCarries DEF Fine, Own, Past, CarriesNewer, Underway
  <2> QED BY <1>1, <2>1, <2>3, MoveOK
<1> QED BY <1>2, <1>3, <1>4

\* The background goroutine starts with no index and with the entry served.
LEMMA LookupStaleInval ==
    ASSUME TypeInv, InvalInv, NEW c \in Clients, LookupStale(c) PROVE InvalInv'
<1>1. PICK w \in Workers :
        /\ IsHit(c)
        /\ pc' = [pc EXCEPT ![c] = "done", ![w] = "launched"]
        /\ call' = [call EXCEPT ![c] = [WithStored(c) EXCEPT !.resp = Selected(c),
                                                             !.status = "STALE"],
                                ![w] = BackgroundCall(c)]
        /\ UNCHANGED <<environment, cache, calls, ghosts>>
  BY DEF LookupStale
<1> DEFINE l == BackgroundCall(c)
           m == [WithStored(c) EXCEPT !.resp = Selected(c), !.status = "STALE"]
<1>2. c \in Procs /\ w \in Procs /\ c # w /\ pc[c] = "lookup"
  BY <1>1, ProcsAssumption DEF Procs, IsHit
<1>3. UNCHANGED <<ver, refs, entries, done, raced, failed>>
  BY <1>1 DEF environment, cache, ghosts
<1>4. NoCall \in Call /\ NoCall.refs = <<>>
  BY DEF NoCall, Call, Statuses
<1>5. l.req = call[c].req /\ l.refs = <<>> /\ l.stored = Selected(c)
  BY <1>4 DEF BackgroundCall, Call
<1> HIDE DEF l, m
<1>6. Fine("launched", l, ver) /\ Fine("done", m, ver)
  BY <1>2, <1>5, LookupCarries, EndFine
     DEF Fine, Own, OwnIds, Past, CarriesNewer, IndexNewer, Underway
<1>7. \A q \in Procs : \/ pc'[q] = "launched" /\ call'[q] = l
                       \/ pc'[q] = "done" /\ call'[q] = m
                       \/ pc'[q] = pc[q] /\ call'[q] = call[q]
  BY <1>1, <1>2 DEF l, m, TypeInv, ProcsOK
<1>8. OwnInv'
  BY <1>3, <1>6, <1>7 DEF InvalInv, OwnInv, Fine
<1>9. PastInv'
  BY <1>3, <1>6, <1>7 DEF InvalInv, PastInv, Fine
<1>10. IndexInv'
  BY <1>3 DEF InvalInv, IndexInv, Settled
<1>11. CarryInv'
  BY <1>3, <1>6, <1>7 DEF InvalInv, CarryInv, Fine, Settled
<1> QED BY <1>8, <1>9, <1>10, <1>11 DEF InvalInv

\* What a goroutine that moves on keeps of its local variables.
LEMMA KeepsFine ==
    ASSUME TypeInv, InvalInv, NEW p \in Procs, NEW where, NEW c,
           pc[p] \notin {"idle", "done"},
           where \notin {"reply", "invalidate", "set", "setrefs"},
           c.req = call[p].req, c.refs = call[p].refs, c.stored = call[p].stored
    PROVE  Fine(where, c, ver)
BY DEF InvalInv, OwnInv, CarryInv, Fine, Own, Past, CarriesNewer, Underway

LEMMA BackgroundSendInval ==
    ASSUME TypeInv, InvalInv, NEW w \in Workers, BackgroundSend(w) PROVE InvalInv'
<1> DEFINE l == [call[w] EXCEPT !.start = now]
<1>1. /\ w \in Procs /\ pc[w] = "launched" /\ Goto(w, "upstream", l)
      /\ UNCHANGED <<ver, refs, entries, done, raced, failed>>
  BY DEF BackgroundSend, Procs, environment, cache, ghosts
<1>2. Grows
  BY <1>1 DEF Grows, TypeInv, StateOK
<1>3. l.req = call[w].req /\ l.refs = call[w].refs /\ l.stored = call[w].stored
  BY <1>1 DEF TypeInv, ProcsOK, Call
<1> HIDE DEF l
<1>4. Fine("upstream", l, ver)
  BY <1>1, <1>3, KeepsFine
<1> QED BY <1>1, <1>2, <1>4, MoveOK

-----------------------------------------------------------------------------
(***************************************************************************)
(* The origin.                                                             *)
(***************************************************************************)
LEMMA BumpedGrows ==
    ASSUME StateOK, NEW us
    PROVE  /\ \A u \in Urls : Bumped(us)[u] \in Nat /\ ver[u] <= Bumped(us)[u]
           /\ us = {} => \A u \in Urls : Bumped(us)[u] = ver[u]
BY DEF StateOK, Bumped

LEMMA OriginReplyInval ==
    ASSUME TypeInv, InvalInv, NEW p \in Procs, OriginReply(p) PROVE InvalInv'
<1>1. PICK reply \in Replies :
        /\ ver' = Bumped(Changed(call[p].req, reply))
        /\ Goto(p, "reply", [call[p] EXCEPT
                               !.resp = OriginResponse(call[p].req, reply, call[p].start),
                               !.effect = Bumped(Changed(call[p].req, reply))])
  BY DEF OriginReply
<1> DEFINE r == OriginResponse(call[p].req, reply, call[p].start)
           e == Bumped(Changed(call[p].req, reply))
           l == [call[p] EXCEPT !.resp = r, !.effect = e]
<1>2. /\ pc[p] = "upstream" /\ Goto(p, "reply", l) /\ ver' = e
      /\ UNCHANGED <<refs, entries, done, raced, failed>>
  BY <1>1 DEF OriginReply, cache, ghosts
<1>3. call[p].req \in Requests /\ call[p].req.url \in Urls
  BY <1>2, RequestType DEF TypeInv, ProcsOK, LocalsOK
<1>4. Grows
  BY <1>2, BumpedType, BumpedGrows DEF Grows, TypeInv
<1>5. r.ver = e[call[p].req.url]
  BY DEF OriginResponse
<1>6. IsRequestMethodUnderstood(call[p].req) => r.ver = ver[call[p].req.url]
  <2> SUFFICES ASSUME IsRequestMethodUnderstood(call[p].req)
               PROVE  e[call[p].req.url] = ver[call[p].req.url]
    BY <1>5
  <2>1. Changed(call[p].req, reply) = {}
    BY DEF IsRequestMethodUnderstood, IsUnsafeMethod, Changed
  <2> QED BY <1>3, <2>1, BumpedGrows DEF TypeInv
<1> HIDE DEF r, e
<1>7. /\ l.req = call[p].req /\ l.refs = call[p].refs /\ l.stored = call[p].stored
      /\ l.resp = r /\ l.effect = e
  BY DEF TypeInv, ProcsOK, Call
<1> HIDE DEF l
<1>8. Own("reply", l) /\ Past("reply", l, ver')
  <2>1. \A u \in Urls : e[u] <= e[u]
    BY BumpedGrows DEF e, TypeInv
  <2> QED BY <1>2, <1>7, <2>1 DEF InvalInv, OwnInv, Own, Past
<1>9. ASSUME NEW u \in Urls, Settled(u), Underway("reply", l, u)
      PROVE  CarriesNewer(entries, done[u], "reply", l)
  <2>1. CarriesNewer(entries, done[u], "upstream", call[p])
    BY <1>2, <1>7, <1>9 DEF InvalInv, CarryInv, Underway
  <2>2. l.resp.ver >= done[u]
    BY <1>6, <1>7, <1>9 DEF Underway, InvalInv, PastInv, TypeInv, StateOK
  <2> QED BY <1>7, <2>1, <2>2 DEF CarriesNewer
<1>10. Fine("reply", l, ver')
  BY <1>8, <1>9 DEF Fine
<1> QED BY <1>2, <1>4, <1>10, MoveOK

-----------------------------------------------------------------------------
(***************************************************************************)
(* The answer.                                                             *)
(***************************************************************************)

\* A goroutine goes on to store a response no older than what it carries.
LEMMA SetFine ==
    ASSUME TypeInv, InvalInv, NEW p \in Procs, pc[p] = "reply", NEW c,
           c.req = call[p].req, c.refs = call[p].refs, c.stored = call[p].stored,
           \/ c.resp.ver = call[p].resp.ver
           \/ call[p].stored # Absent /\ c.resp.ver = call[p].stored.ver
    PROVE  Fine("set", c, ver)
BY DEF InvalInv, OwnInv, CarryInv, Fine, Own, Past, CarriesNewer, Underway

LEMMA ReceiveInval ==
    ASSUME TypeInv, InvalInv, NEW p \in Procs,
           \/ p \in Clients /\ ReceiveMiss(p)
           \/ ReceiveNotModified(p) \/ ReceiveError(p) \/ ReceiveFull(p)
    PROVE  InvalInv'
<1>1. /\ pc[p] = "reply" /\ Grows
      /\ UNCHANGED <<ver, refs, entries, done, raced, failed>>
  BY DEF ReceiveMiss, ReceiveNotModified, ReceiveError, ReceiveFull, IsValidation,
         Grows, TypeInv, StateOK, environment, cache, ghosts
<1>2. call[p] \in Call /\ call[p].resp \in RawResponse
  BY <1>1, ReplyType
<1>3. Received(p).ver = call[p].resp.ver
  BY <1>2 DEF Received, RawResponse, ResponseWith
<1>4. ASSUME NEW st PROVE Fine("set", [call[p] EXCEPT !.resp = Received(p), !.status = st], ver)
  <2> DEFINE l == [call[p] EXCEPT !.resp = Received(p), !.status = st]
  <2>1. /\ l.req = call[p].req /\ l.refs = call[p].refs /\ l.stored = call[p].stored
        /\ l.resp = Received(p)
    BY <1>2 DEF Call
  <2> HIDE DEF l
  <2>2. Fine("set", l, ver)
    BY <1>1, <1>3, <2>1, SetFine
  <2> QED BY <2>2 DEF l
<1>5. ASSUME p \in Clients, ReceiveMiss(p) PROVE InvalInv'
  <2>1. \/ Goto(p, "set", [call[p] EXCEPT !.resp = Received(p), !.status = "MISS"])
        \/ Finish(p, [call[p] EXCEPT !.resp = Received(p), !.status = "MISS"])
    BY <1>5 DEF ReceiveMiss
  <2> QED BY <1>1, <1>4, <2>1, MoveOK, EndOK
<1>6. ASSUME ReceiveNotModified(p) PROVE InvalInv'
  <2> DEFINE l == [call[p] EXCEPT !.resp = Freshened(p), !.status = "REVALIDATED"]
  <2>1. Goto(p, "set", l) /\ IsValidation(p)
    BY <1>6 DEF ReceiveNotModified
  <2>2. /\ l.req = call[p].req /\ l.refs = call[p].refs /\ l.stored = call[p].stored
        /\ l.resp = Freshened(p)
    BY <1>2 DEF Call
  <2>3. call[p].stored # Absent /\ l.resp.ver = call[p].stored.ver
    BY <2>1, <2>2, ValidationType DEF IsValidation
  <2> HIDE DEF l
  <2>4. Fine("set", l, ver)
    BY <1>1, <2>2, <2>3, SetFine
  <2> QED BY <1>1, <2>1, <2>4, MoveOK
<1>7. ASSUME ReceiveError(p) PROVE InvalInv'
  BY <1>1, <1>7, EndOK DEF ReceiveError
<1>8. ASSUME ReceiveFull(p) PROVE InvalInv'
  <2>1. \/ Goto(p, "set", [call[p] EXCEPT !.resp = Received(p), !.status = "MISS"])
        \/ Finish(p, [call[p] EXCEPT !.resp = Received(p), !.status = "BYPASS"])
    BY <1>8 DEF ReceiveFull
  <2> QED BY <1>1, <1>4, <2>1, MoveOK, EndOK
<1> QED BY <1>5, <1>6, <1>7, <1>8

\* A request that the cache does not understand is never a GET under way.
LEMMA ReceiveBypassInval ==
    ASSUME TypeInv, InvalInv, NEW c \in Clients, ReceiveBypass(c) PROVE InvalInv'
<1> DEFINE r == [call[c].resp EXCEPT !.respAt = now]
           l == [call[c] EXCEPT !.resp = r, !.status = "BYPASS"]
           m == [l EXCEPT !.plan = InvalidationPlan(call[c].req, r)]
<1>1. /\ c \in Procs /\ pc[c] = "reply" /\ Grows
      /\ ~ IsRequestMethodUnderstood(call[c].req)
      /\ Goto(c, "invalidate", m) \/ Finish(c, l)
      /\ UNCHANGED <<ver, refs, entries, done, raced, failed>>
  BY DEF ReceiveBypass, Procs, Grows, TypeInv, StateOK, environment, cache, ghosts
<1>2. m.req = call[c].req /\ m.refs = call[c].refs /\ m.effect = call[c].effect
  BY <1>1, ReplyType DEF Call
<1> HIDE DEF l, m
<1>3. Fine("invalidate", m, ver')
  BY <1>1, <1>2 DEF InvalInv, OwnInv, PastInv, Fine, Own, Past, Underway
<1> QED BY <1>1, <1>3, MoveOK, EndOK

LEMMA EndInval ==
    ASSUME TypeInv, InvalInv, NEW p \in Procs,
           \/ UpstreamFail(p)
           \/ p \in Workers /\ ReceiveLate(p)
           \/ p \in Clients /\ Return(p)
    PROVE  InvalInv'
<1>1. UNCHANGED <<ver, refs, entries, done, raced, failed>> /\ Grows
  BY DEF UpstreamFail, ReceiveLate, Return, Grows, TypeInv, StateOK,
         environment, cache, ghosts
<1>2. ASSUME UpstreamFail(p) PROVE InvalInv'
  BY <1>1, <1>2, EndOK DEF UpstreamFail
<1>3. ASSUME ReceiveLate(p) PROVE InvalInv'
  BY <1>1, <1>3, EndOK DEF ReceiveLate
<1>4. ASSUME Return(p) PROVE InvalInv'
  BY <1>1, <1>4, EndFine, MoveOK DEF Return
<1> QED BY <1>2, <1>3, <1>4

-----------------------------------------------------------------------------
(***************************************************************************)
(* StoreResponse.                                                          *)
(***************************************************************************)

\* What a goroutine that stores carries, in terms of the reference it makes.
LEMMA StoreCarries ==
    ASSUME TypeInv, InvalInv, NEW p \in Procs, pc[p] \in {"set", "setrefs"},
           NEW u \in Urls, Settled(u), call[p].req.url = u
    PROVE  /\ IndexNewer(entries, done[u], call[p].refs)
           /\ call[p].resp.ver >= done[u]
           /\ pc[p] = "setrefs" => Newer(entries, done[u], NewRef(p).id)
           /\ CarriesNewer(entries, done[u], pc[p], call[p])
<1>1. Underway(pc[p], call[p], u)
  BY StoreType DEF Underway
<1>2. CarriesNewer(entries, done[u], pc[p], call[p])
  BY <1>1 DEF InvalInv, CarryInv
<1> QED BY <1>2 DEF CarriesNewer, NewRef

(***************************************************************************)
(* When one entry changes, and whatever was new enough under its URL stays *)
(* so, then so does all that hangs on it.                                  *)
(***************************************************************************)
StillNewer ==
    \A u \in Urls, id \in Ids :
        Settled(u) /\ id.url = u /\ Newer(entries, done[u], id)
          => Newer(entries', done[u], id)

LEMMA IndexStays ==
    ASSUME StillNewer, NEW u \in Urls, Settled(u), NEW index \in Seq(Ref),
           OwnIds(u, index), IndexNewer(entries, done[u], index)
    PROVE  IndexNewer(entries', done[u], index)
<1> SUFFICES ASSUME NEW i \in 1 .. Len(index)
             PROVE  Newer(entries', done[u], index[i].id)
  BY DEF IndexNewer
<1>1. index[i] \in Ref
  OBVIOUS
<1>2. index[i].id \in Ids /\ index[i].id.url = u /\ Newer(entries, done[u], index[i].id)
  BY <1>1 DEF Ref, OwnIds, IndexNewer
<1> QED BY <1>2 DEF StillNewer

LEMMA CarriesStays ==
    ASSUME TypeInv, InvalInv, StillNewer, NEW u \in Urls, NEW q \in Procs,
           Settled(u), Underway(pc[q], call[q], u)
    PROVE  CarriesNewer(entries', done[u], pc[q], call[q])
<1>1. CarriesNewer(entries, done[u], pc[q], call[q])
  BY DEF InvalInv, CarryInv
<1>2. call[q].refs \in Seq(Ref) /\ OwnIds(u, call[q].refs)
  BY DEF TypeInv, ProcsOK, Call, InvalInv, OwnInv, Own, Underway
<1>3. IndexNewer(entries', done[u], call[q].refs)
  BY <1>1, <1>2, IndexStays DEF CarriesNewer
<1>4. ASSUME pc[q] = "setrefs"
      PROVE  Newer(entries', done[u], NewRef(q).id)
  BY <1>1, <1>4, StoreType DEF CarriesNewer, NewRef, StillNewer, Underway
<1> QED BY <1>1, <1>3, <1>4 DEF CarriesNewer, NewRef

LEMMA SetEntryInval ==
    ASSUME TypeInv, InvalInv, NEW p \in Procs, SetEntry(p) PROVE InvalInv'
<1>1. /\ pc[p] = "set" /\ Goto(p, "setrefs", call[p])
      /\ entries' = [entries EXCEPT ![NewRef(p).id] = Marshalled(p)]
      /\ UNCHANGED <<ver, refs, done, raced, failed>>
  BY DEF SetEntry, environment, ghosts
<1>2. /\ NewRef(p).id \in Ids /\ NewRef(p).id.url = call[p].req.url
      /\ Marshalled(p).ver = call[p].resp.ver
      /\ call[p].req.url \in Urls
  BY <1>1, StoreType
<1>3. /\ entries'[NewRef(p).id] = Marshalled(p)
      /\ \A id \in Ids : id # NewRef(p).id => entries'[id] = entries[id]
  BY <1>1, <1>2 DEF TypeInv, StateOK
<1>4. ASSUME NEW u \in Urls, Settled(u), call[p].req.url = u
      PROVE  Newer(entries', done[u], NewRef(p).id)
  BY <1>1, <1>2, <1>3, <1>4, StoreCarries DEF Newer
<1>5. StillNewer
  BY <1>2, <1>3, <1>4 DEF StillNewer, Newer
<1>6. \A q \in Procs : \/ q = p /\ pc'[q] = "setrefs" /\ call'[q] = call[q]
                       \/ pc'[q] = pc[q] /\ call'[q] = call[q]
  BY <1>1 DEF Goto, TypeInv, ProcsOK
<1>7. OwnInv'
  BY <1>1, <1>6 DEF InvalInv, OwnInv, Own
<1>8. PastInv'
  BY <1>1, <1>6 DEF InvalInv, PastInv, Past
<1>9. IndexInv'
  <2> SUFFICES ASSUME NEW u \in Urls, Settled(u)
               PROVE  IndexNewer(entries', done[u], refs[u])
    BY <1>1 DEF IndexInv, Settled
  <2>1. refs[u] \in Seq(Ref) /\ OwnIds(u, refs[u]) /\ IndexNewer(entries, done[u], refs[u])
    BY DEF TypeInv, StateOK, InvalInv, OwnInv, IndexInv
  <2> QED BY <1>5, <2>1, IndexStays
<1>10. CarryInv'
  <2> SUFFICES ASSUME NEW u \in Urls, NEW q \in Procs, Settled(u),
                      Underway(pc'[q], call'[q], u)
               PROVE  CarriesNewer(entries', done[u], pc'[q], call'[q])
    BY <1>1 DEF CarryInv, Settled
  <2>1. Underway(pc[q], call[q], u) /\ call'[q] = call[q]
    BY <1>1, <1>6 DEF Underway
  <2>2. CarriesNewer(entries', done[u], pc[q], call[q])
    BY <1>5, <2>1, CarriesStays
  <2>3. CASE pc'[q] = pc[q]
    BY <2>1, <2>2, <2>3
  <2>4. CASE q = p /\ pc'[q] = "setrefs"
    <3>1. call[p].req.url = u
      BY <2>1, <2>4 DEF Underway
    <3>2. Newer(entries', done[u], NewRef(p).id)
      BY <1>4, <3>1
    <3> QED BY <1>1, <2>1, <2>2, <2>4, <3>2 DEF CarriesNewer, NewRef
  <2> QED BY <1>6, <2>3, <2>4
<1> QED BY <1>7, <1>8, <1>9, <1>10 DEF InvalInv

\* A write that fails unsettles its URL.
LEMMA SetEntryFailsInval ==
    ASSUME TypeInv, InvalInv, NEW p \in Procs, SetEntryFails(p) PROVE InvalInv'
<1> DEFINE v == call[p].req.url
<1>1. /\ pc[p] = "set" /\ Goto(p, "setrefs", call[p])
      /\ failed' = [failed EXCEPT ![v] = TRUE]
      /\ UNCHANGED <<ver, refs, entries, done, raced>>
  BY DEF SetEntryFails, environment, cache
<1>2. v \in Urls
  BY <1>1, StoreType
<1>3. failed'[v] /\ \A u \in Urls : u # v => failed'[u] = failed[u]
  BY <1>1, <1>2 DEF TypeInv, StateOK
<1>4. \A u \in Urls : Settled(u)' => Settled(u) /\ u # v
  BY <1>1, <1>3 DEF Settled
<1>5. \A q \in Procs : \/ q = p /\ pc'[q] = "setrefs" /\ call'[q] = call[q]
                       \/ pc'[q] = pc[q] /\ call'[q] = call[q]
  BY <1>1 DEF Goto, TypeInv, ProcsOK
<1>6. OwnInv'
  BY <1>1, <1>5 DEF InvalInv, OwnInv, Own
<1>7. PastInv'
  BY <1>1, <1>5 DEF InvalInv, PastInv, Past
<1>8. IndexInv'
  BY <1>1, <1>4 DEF InvalInv, IndexInv
<1>9. CarryInv'
  <2> SUFFICES ASSUME NEW u \in Urls, NEW q \in Procs, Settled(u)',
                      Underway(pc'[q], call'[q], u)
               PROVE  CarriesNewer(entries', done'[u], pc'[q], call'[q])
    BY DEF CarryInv
  <2>1. q # p
    BY <1>4, <1>5 DEF Underway
  <2> QED BY <1>1, <1>4, <1>5, <2>1 DEF InvalInv, CarryInv
<1> QED BY <1>6, <1>7, <1>8, <1>9 DEF InvalInv

LEMMA SetRefsInval ==
    ASSUME TypeInv, InvalInv, NEW p \in Procs, SetRefs(p) PROVE InvalInv'
<1> DEFINE v == call[p].req.url
           s == UpdateRefs(call[p].refs, call[p].idx, NewRef(p))
<1>1. /\ pc[p] = "setrefs" /\ Finish(p, call[p])
      /\ refs' = [refs EXCEPT ![v] = s] \/ UNCHANGED refs
      /\ UNCHANGED <<ver, entries, done, raced, failed>>
  BY DEF SetRefs, environment, ghosts
<1>2. CASE UNCHANGED refs
  BY <1>1, <1>2, EndOK
<1>3. CASE refs' = [refs EXCEPT ![v] = s]
  <2>1. /\ call[p].refs \in Seq(Ref) /\ call[p].idx \in Nat
        /\ NewRef(p) \in Ref /\ NewRef(p).id.url = v /\ v \in Urls
    BY <1>1, StoreType DEF Call
  <2>2. \A i \in 1 .. Len(s) : \/ s[i] = NewRef(p)
                               \/ \E j \in 1 .. Len(call[p].refs) : s[i] = call[p].refs[j]
    BY <2>1, UpdateRefsType
  <2> HIDE DEF s
  <2>3. refs'[v] = s /\ \A u \in Urls : u # v => refs'[u] = refs[u]
    BY <1>3, <2>1 DEF TypeInv, StateOK
  <2>4. \A q \in Procs : \/ pc'[q] \in {"idle", "done"}
                         \/ pc'[q] = pc[q] /\ call'[q] = call[q]
    BY <1>1 DEF Finish, Goto, TypeInv, ProcsOK
  <2>5. OwnIds(v, s)
    <3>1. OwnIds(v, call[p].refs)
      BY <1>1 DEF InvalInv, OwnInv, Own
    <3> QED BY <2>1, <2>2, <3>1 DEF OwnIds
  <2>6. ASSUME Settled(v) PROVE IndexNewer(entries, done[v], s)
    <3>1. IndexNewer(entries, done[v], call[p].refs) /\ Newer(entries, done[v], NewRef(p).id)
      BY <1>1, <2>1, <2>6, StoreCarries
    <3> QED BY <2>2, <3>1 DEF IndexNewer
  <2>7. OwnInv'
    BY <2>3, <2>4, <2>5 DEF InvalInv, OwnInv, Own
  <2>8. PastInv'
    BY <1>1, <2>4 DEF InvalInv, PastInv, Past
  <2>9. IndexInv'
    BY <1>1, <2>3, <2>6 DEF InvalInv, IndexInv, Settled
  <2>10. CarryInv'
    BY <1>1, <2>4 DEF InvalInv, CarryInv, Settled, Underway
  <2> QED BY <2>7, <2>8, <2>9, <2>10 DEF InvalInv
<1> QED BY <1>1, <1>2, <1>3

-----------------------------------------------------------------------------
(***************************************************************************)
(* InvalidateCache.                                                        *)
(***************************************************************************)

\* An invalidating client stays at it or ends, and is no GET under way.
LEMMA InvalidatingMoves ==
    ASSUME TypeInv, InvalInv, NEW c \in Clients, NEW op, IsInvalidating(c, op),
           \/ Advance(c)
           \/ \E ops : Goto(c, "invalidate", [call[c] EXCEPT !.plan = ops])
    PROVE  \A q \in Procs :
             \/ pc'[q] \in {"idle", "done"}
             \/ /\ pc'[q] = pc[q] /\ call'[q].req = call[q].req
                /\ call'[q].refs = call[q].refs /\ call'[q].effect = call[q].effect
                /\ call'[q].stored = call[q].stored /\ call'[q].resp = call[q].resp
<1>1. c \in Procs /\ c \notin Workers /\ pc[c] = "invalidate" /\ call[c] \in Call
  BY PlanStep
<1> DEFINE l == [call[c] EXCEPT !.plan = Tail(@), !.gone = @ \cup {NextOp(c)}]
<1>2. /\ l.req = call[c].req /\ l.refs = call[c].refs /\ l.effect = call[c].effect
      /\ l.stored = call[c].stored /\ l.resp = call[c].resp
  BY <1>1 DEF Call
<1>3. ASSUME NEW ops
      PROVE  LET m == [call[c] EXCEPT !.plan = ops]
             IN  /\ m.req = call[c].req /\ m.refs = call[c].refs
                 /\ m.effect = call[c].effect
                 /\ m.stored = call[c].stored /\ m.resp = call[c].resp
  BY <1>1 DEF Call
<1>4. ASSUME Advance(c)
      PROVE  Goto(c, "done", l) \/ Goto(c, "invalidate", l)
  BY <1>1, <1>4 DEF Advance, Finish
<1> HIDE DEF l
<1>5. PICK w, m :
        /\ w \in {"done", "invalidate"}
        /\ Goto(c, w, m)
        /\ m.req = call[c].req /\ m.refs = call[c].refs /\ m.effect = call[c].effect
        /\ m.stored = call[c].stored /\ m.resp = call[c].resp
  <2>1. CASE Advance(c)
    BY <1>2, <1>4, <2>1
  <2>2. CASE ~ Advance(c)
    <3>1. PICK ops : Goto(c, "invalidate", [call[c] EXCEPT !.plan = ops])
      BY <2>2
    <3> DEFINE n == [call[c] EXCEPT !.plan = ops]
    <3>2. /\ n.req = call[c].req /\ n.refs = call[c].refs /\ n.effect = call[c].effect
          /\ n.stored = call[c].stored /\ n.resp = call[c].resp
      BY <1>3
    <3>3. Goto(c, "invalidate", n)
      BY <3>1
    <3> HIDE DEF n
    <3> QED BY <3>2, <3>3
  <2> QED BY <2>1, <2>2
<1>6. pc'[c] = w /\ call'[c] = m /\ \A q \in Procs : q # c => pc'[q] = pc[q] /\ call'[q] = call[q]
  BY <1>1, <1>5 DEF Goto, TypeInv, ProcsOK
<1> QED BY <1>1, <1>5, <1>6

LEMMA InvalidateInval ==
    ASSUME TypeInv, InvalInv, NEW c \in Clients,
           \/ InvalidateGetRefs(c) \/ InvalidateSkip(c)
           \/ InvalidateEntry(c) \/ InvalidateKey(c)
    PROVE  InvalInv'
<1>1. PICK op : IsInvalidating(c, op)
  BY DEF InvalidateGetRefs, InvalidateSkip, InvalidateEntry, InvalidateKey
<1>2. Advance(c) \/ \E ops : Goto(c, "invalidate", [call[c] EXCEPT !.plan = ops])
  BY DEF InvalidateGetRefs, InvalidateSkip, InvalidateEntry, InvalidateKey
<1>3. \A q \in Procs :
        \/ pc'[q] \in {"idle", "done"}
        \/ /\ pc'[q] = pc[q] /\ call'[q].req = call[q].req
           /\ call'[q].refs = call[q].refs /\ call'[q].effect = call[q].effect
           /\ call'[q].stored = call[q].stored /\ call'[q].resp = call[q].resp
  BY <1>1, <1>2, InvalidatingMoves
<1>4. ver' = ver
  BY DEF InvalidateGetRefs, InvalidateSkip, InvalidateEntry, InvalidateKey, environment
<1>5. (\A p \in Procs : Own(pc[p], call[p]))'
  BY <1>3 DEF InvalInv, OwnInv, Own
<1>6. (\A p \in Procs : Past(pc[p], call[p], ver))'
  BY <1>3, <1>4 DEF InvalInv, PastInv, Past
<1>7. ASSUME NEW q \in Procs, NEW u \in Urls, Underway(pc'[q], call'[q], u)
      PROVE  /\ Underway(pc[q], call[q], u)
             /\ \A ents, n : CarriesNewer(ents, n, pc[q], call[q])
                               => CarriesNewer(ents, n, pc'[q], call'[q])
  BY <1>3, <1>7 DEF Underway, CarriesNewer
<1>8. ASSUME InvalidateGetRefs(c) \/ InvalidateSkip(c) \/ InvalidateEntry(c)
      PROVE  InvalInv'
  <2>1. UNCHANGED <<refs, done, raced, failed>>
    BY <1>8 DEF InvalidateGetRefs, InvalidateSkip, InvalidateEntry, cache, ghosts
  <2>2. StillNewer
    <3>1. CASE InvalidateEntry(c)
      <4>1. \A id \in Ids : entries'[id] = Absent \/ entries'[id] = entries[id]
        BY <3>1 DEF InvalidateEntry, TypeInv, StateOK
      <4> QED BY <4>1 DEF StillNewer, Newer
    <3>2. CASE InvalidateGetRefs(c) \/ InvalidateSkip(c)
      BY <3>2 DEF InvalidateGetRefs, InvalidateSkip, cache, StillNewer
    <3> QED BY <1>8, <3>1, <3>2
  <2>3. \A u \in Urls : Settled(u)' = Settled(u)
    BY <2>1 DEF Settled
  <2>4. IndexInv'
    <3> SUFFICES ASSUME NEW u \in Urls, Settled(u)
                 PROVE  IndexNewer(entries', done[u], refs[u])
      BY <2>1, <2>3 DEF IndexInv
    <3>1. refs[u] \in Seq(Ref) /\ OwnIds(u, refs[u]) /\ IndexNewer(entries, done[u], refs[u])
      BY DEF TypeInv, StateOK, InvalInv, OwnInv, IndexInv
    <3> QED BY <2>2, <3>1, IndexStays
  <2>5. CarryInv'
    <3> SUFFICES ASSUME NEW u \in Urls, NEW q \in Procs, Settled(u),
                        Underway(pc'[q], call'[q], u)
                 PROVE  CarriesNewer(entries', done[u], pc'[q], call'[q])
      BY <2>1, <2>3 DEF CarryInv
    <3> QED BY <1>7, <2>2, CarriesStays
  <2> QED BY <1>4, <1>5, <1>6, <2>1, <2>4, <2>5 DEF InvalInv, OwnInv, PastInv
<1>9. ASSUME InvalidateKey(c) PROVE InvalInv'
  <2> DEFINE v == NextOp(c).url
  <2>1. /\ refs' = [refs EXCEPT ![v] = <<>>]
        /\ done' = [done EXCEPT ![v] = Larger(@, call[c].effect[v])]
        /\ raced' = [raced EXCEPT ![v] = \E q \in Procs : GetUnderWay(q, v)]
        /\ failed' = [failed EXCEPT ![v] = FALSE]
        /\ entries' = entries
    BY <1>9 DEF InvalidateKey
  <2>2. c \in Procs /\ v \in Urls /\ pc[c] = "invalidate" /\ call[c] \in Call
    BY <1>1, PlanStep
  <2>3. call[c].effect[v] \in Nat /\ call[c].effect[v] <= ver[v]
    BY <2>2 DEF InvalInv, PastInv, Past, Call
  <2>4. \A u \in Urls : u # v => /\ refs'[u] = refs[u] /\ done'[u] = done[u]
                                 /\ raced'[u] = raced[u] /\ failed'[u] = failed[u]
    BY <2>1 DEF TypeInv, StateOK
  <2>5. refs'[v] = <<>> /\ done'[v] <= ver[v]
    BY <2>1, <2>2, <2>3 DEF TypeInv, StateOK, InvalInv, PastInv, Larger
  <2>6. raced'[v] = \E q \in Procs : GetUnderWay(q, v)
    <3>1. raced \in [Urls -> BOOLEAN]
      BY DEF TypeInv, StateOK
    <3> QED BY <2>1, <2>2, <3>1, Zenon
  <2> HIDE DEF v
  <2>7. OwnInv'
    BY <1>5, <2>4, <2>5 DEF InvalInv, OwnInv, OwnIds
  <2>8. PastInv'
    BY <1>4, <1>6, <2>4, <2>5 DEF InvalInv, PastInv
  <2>9. \A u \in Urls : u # v /\ Settled(u)' => Settled(u)
    BY <2>4 DEF Settled
  <2>10. IndexInv'
    BY <2>1, <2>4, <2>5, <2>9 DEF InvalInv, IndexInv, IndexNewer
  <2>11. CarryInv'
    <3> SUFFICES ASSUME NEW u \in Urls, NEW q \in Procs, Settled(u)',
                        Underway(pc'[q], call'[q], u)
                 PROVE  CarriesNewer(entries, done'[u], pc'[q], call'[q])
      BY <2>1 DEF CarryInv
    <3>1. Underway(pc[q], call[q], u)
      BY <1>7
    <3>2. u # v
      BY <2>6, <3>1 DEF Settled, Underway, GetUnderWay
    <3>3. Settled(u) /\ done'[u] = done[u]
      BY <2>4, <2>9, <3>2
    <3> QED BY <1>7, <3>1, <3>3 DEF InvalInv, CarryInv
  <2> QED BY <2>7, <2>8, <2>10, <2>11 DEF InvalInv
<1> QED BY <1>8, <1>9

-----------------------------------------------------------------------------
LEMMA InvalStep == TypeInv /\ InvalInv /\ [Next]_vars => InvalInv'
<1> SUFFICES ASSUME TypeInv, InvalInv, [Next]_vars PROVE InvalInv'
  OBVIOUS
<1>1. ASSUME NEW p \in Procs, ProcStep(p) PROVE InvalInv'
  BY <1>1, OriginReplyInval, EndInval, ReceiveInval, SetEntryInval,
     SetEntryFailsInval, SetRefsInval DEF ProcStep
<1>2. ASSUME NEW c \in Clients, Return(c) \/ ClientStep(c) PROVE InvalInv'
  BY <1>1, <1>2, EndInval, LookupInval, LookupStaleInval, ReceiveBypassInval,
     ReceiveInval, InvalidateInval DEF ClientStep, Procs
<1>3. ASSUME NEW w \in Workers, WorkerStep(w) PROVE InvalInv'
  BY <1>1, <1>3, BackgroundSendInval, EndInval DEF WorkerStep, Procs
<1>4. ASSUME UNCHANGED <<ver, refs, entries, pc, call, done, raced, failed>>
      PROVE  InvalInv'
  BY <1>4 DEF InvalInv, OwnInv, PastInv, IndexInv, CarryInv, Settled
<1>5. ASSUME NEW w \in Workers, ContextDone(w) \/ ReadBody(w) \/ CloseBody(w)
      PROVE  InvalInv'
  BY <1>4, <1>5 DEF ContextDone, ReadBody, CloseBody, environment, cache, ghosts
<1>6. ASSUME NEW u \in Urls, OriginUpdate(u) PROVE InvalInv'
  <2>1. UNCHANGED <<refs, entries, pc, call, done, raced, failed>>
    BY <1>6 DEF OriginUpdate, cache, ghosts
  <2>2. \A x \in Urls : ver[x] \in Nat /\ ver'[x] \in Nat /\ ver[x] <= ver'[x]
    BY <1>6 DEF OriginUpdate, TypeInv, StateOK
  <2>3. \A p \in Procs, x \in Urls : call[p].effect[x] \in Nat
    BY DEF TypeInv, ProcsOK, Call
  <2>4. PastInv'
    BY <2>1, <2>2, <2>3 DEF InvalInv, PastInv, Past, TypeInv, StateOK
  <2> QED BY <2>1, <2>4 DEF InvalInv, OwnInv, IndexInv, CarryInv, Settled
<1>7. ASSUME Tick PROVE InvalInv'
  BY <1>4, <1>7 DEF Tick, cache, ghosts
<1>8. ASSUME UNCHANGED vars PROVE InvalInv'
  BY <1>4, <1>8 DEF vars
<1> QED BY <1>2, <1>3, <1>5, <1>6, <1>7, <1>8, StartInval DEF Next, Quiescent

(***************************************************************************)
(* Once the invalidation for a URL has ended, with no GET for it under way *)
(* at that moment, the index never again leads to a response that is older *)
(* than the unsafe request, whatever any number of clients and background  *)
(* revalidations do later, in any order, as long as no write of a response *)
(* fails.                                                                  *)
(***************************************************************************)
THEOREM InvalidationSound == Spec => []InvalidationEffective
<1>1. Spec => []TypeInv
  BY TypeInit, TypeStep, PTL DEF Spec
<1>2. Spec => []InvalInv
  BY <1>1, InvalInit, InvalStep, PTL DEF Spec
<1> QED BY <1>2, InvalImplies, PTL
=============================================================================
