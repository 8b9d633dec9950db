---------------------------- MODULE ServingProofs ----------------------------
(***************************************************************************)
(* Proofs about what Transport serves and stores, for any number of        *)
(* clients, background revalidations, URLs, requests and replies: the      *)
(* variant that was asked for, the version that a validation confirmed,    *)
(* whole bodies, and nothing that is too old; then, for a resource that    *)
(* keeps its Vary, that no variant is indexed twice and no stored response *)
(* is lost to the index.                                                   *)
(***************************************************************************)
EXTENDS TransportProofs, FiniteSetTheorems

-----------------------------------------------------------------------------
(***************************************************************************)
(* The inductive invariant.  The properties speak of a call that is over;  *)
(* what makes them true is spread over the index, the entries and the      *)
(* local variables of the goroutines between their steps.  So there is a   *)
(* part for each of the three, and the part for a goroutine says what it   *)
(* relies on at each location.                                             *)
(***************************************************************************)

\* A reference leads to the response ID of the fields that it resolves.
RefSound(ref) == ref.id.hash = VaryHash(ref.resolved)

IndexSound(index) == \A i \in 1 .. Len(index) : RefSound(index[i])

\* A body whose length is known is whole.
WholeIfSized(resp) == resp.code = 200 /\ resp.sized => resp.whole

\* No client brings an If-None-Match or an If-Modified-Since of its own.
NoOwnPrecondition == \A req \in Requests : OwnPrecondition(req) = Absent

\* The ETag and the date of a response are those of the version it shows.
Genuine(resp) == resp.tagOf = resp.ver /\ resp.dateOf = resp.ver

\* A response is kept under the ID of the request it was last confirmed for.
EntrySound(id, resp) ==
    /\ id.hash = VaryHash(NormalizeVaryHeader(resp.hdr.vary, resp.for))
    /\ WholeIfSized(resp)
    /\ NoOwnPrecondition => Genuine(resp)

\* The response is the variant for a request with this header.
ForRequest(resp, reqHdr) == Agree(resp.hdr.vary, resp.for, reqHdr)

StatusLocal(where, c) ==
    /\ where \in {"launched", "lookup", "upstream", "reply"} => c.status = "none"
    /\ where = "invalidate" => c.status = "BYPASS"

VaryLocal(where, c) ==
    /\ where \notin {"idle", "done"} => IndexSound(c.refs)
    /\ where = "lookup" => VaryHeadersMatchOne(c.refs[c.idx], c.req.hdr)
    /\ where \in {"launched", "upstream", "reply"} /\ c.stored # Absent
         => ForRequest(c.stored, c.req.hdr)
    /\ where \in {"reply", "set", "setrefs"} => c.resp.for = c.req.hdr
    /\ where = "done" /\ c.status \in {"HIT", "STALE", "REVALIDATED"}
         => ForRequest(c.resp, c.req.hdr)

CurrentLocal(where, c) ==
    NoOwnPrecondition =>
    /\ where \in {"launched", "upstream", "reply"} /\ c.stored # Absent
         => Genuine(c.stored) /\ c.cond \in {Absent, c.stored.ver}
    /\ where \in {"reply", "set", "setrefs"} => Genuine(c.resp)
    /\ where = "reply" => c.resp.ver = c.effect[c.req.url]
    /\ where = "reply" /\ c.stored # Absent /\ c.resp.code = 304
         => c.stored.ver = c.effect[c.req.url]
    /\ where \in {"set", "setrefs", "done"} /\ c.status = "REVALIDATED"
         => c.resp.ver = c.effect[c.req.url]

WholeLocal(where, c) ==
    /\ where \in {"launched", "upstream", "reply"} /\ c.stored # Absent
         => WholeIfSized(c.stored)
    /\ where \in {"reply", "set", "setrefs"} => WholeIfSized(c.resp)

LocalSound(where, c) ==
    /\ StatusLocal(where, c)
    /\ VaryLocal(where, c)
    /\ CurrentLocal(where, c)
    /\ WholeLocal(where, c)

ServeInv ==
    /\ \A u \in Urls : IndexSound(refs[u])
    /\ \A id \in Ids : entries[id] # Absent => EntrySound(id, entries[id])
    /\ \A p \in Procs : LocalSound(pc[p], call[p])

LEMMA IdleSound == \A c : LocalSound("idle", c)
BY DEF LocalSound, StatusLocal, VaryLocal, CurrentLocal, WholeLocal

LEMMA ServeInit == Init => ServeInv
BY IdleSound DEF Init, ServeInv, IndexSound

LEMMA ServeImplies ==
    ASSUME ServeInv
    PROVE  /\ VarySound
           /\ StoredBodiesWhole
           /\ NoOwnPrecondition => RevalidatedIsCurrent
<1>1. VarySound
  BY DEF ServeInv, LocalSound, VaryLocal, VarySound, ForRequest, Procs
<1>2. StoredBodiesWhole
  BY DEF ServeInv, EntrySound, WholeIfSized, StoredBodiesWhole
<1>3. NoOwnPrecondition => RevalidatedIsCurrent
  BY DEF ServeInv, LocalSound, CurrentLocal, RevalidatedIsCurrent, Procs
<1> QED BY <1>1, <1>2, <1>3

-----------------------------------------------------------------------------
(***************************************************************************)
(* A goroutine moves on, or ends, and leaves the cache alone: what is to   *)
(* be shown is that its new local variables are sound.                     *)
(***************************************************************************)
LEMMA MoveSound ==
    ASSUME TypeInv, ServeInv, NEW p \in Procs, NEW where, NEW c,
           Goto(p, where, c), LocalSound(where, c), UNCHANGED cache
    PROVE  ServeInv'
<1>1. \A q \in Procs : \/ q = p /\ pc'[q] = where /\ call'[q] = c
                       \/ pc'[q] = pc[q] /\ call'[q] = call[q]
  BY DEF Goto, TypeInv, ProcsOK
<1>2. refs' = refs /\ entries' = entries
  BY DEF cache
<1> QED BY <1>1, <1>2 DEF ServeInv

LEMMA EndSound ==
    ASSUME TypeInv, ServeInv, NEW p \in Procs, NEW c, Finish(p, c),
           p \notin Workers => LocalSound("done", c), UNCHANGED cache
    PROVE  ServeInv'
BY MoveSound, IdleSound DEF Finish

\* The local variables of every goroutine, after one of them has moved.
LEMMA OthersSound ==
    ASSUME TypeInv, ServeInv, NEW p \in Procs, NEW where, NEW c,
           Goto(p, where, c), LocalSound(where, c)
    PROVE  \A q \in Procs : LocalSound(pc'[q], call'[q])
<1>1. \A q \in Procs : \/ q = p /\ pc'[q] = where /\ call'[q] = c
                       \/ pc'[q] = pc[q] /\ call'[q] = call[q]
  BY DEF Goto, TypeInv, ProcsOK
<1> QED BY <1>1 DEF ServeInv

-----------------------------------------------------------------------------
(***************************************************************************)
(* The heart of the matter for variants.  A reference that matches the     *)
(* request, and an entry under its ID: the entry's own Vary names just the *)
(* fields that the reference resolves, because the hash has no collisions, *)
(* and the request it is for has the values that this one has.             *)
(***************************************************************************)
LEMMA NormalizedResolved ==
    ASSUME NEW vary \in SUBSET Fields, NEW h \in RequestHeader
    PROVE  NormalizeVaryHeader(vary, h) \in Resolved
<1>1. NormalizeVaryHeader(vary, h) \in [vary -> Values]
  BY ValueAssumption, NormalizeAssumption DEF NormalizeVaryHeader, FieldValue, RequestHeader
<1> QED BY <1>1 DEF Resolved

LEMMA MatchSelectsVariant ==
    ASSUME NEW ref \in Ref, RefSound(ref), NEW resp \in Response,
           EntrySound(ref.id, resp), NEW h \in RequestHeader, VaryHeadersMatchOne(ref, h)
    PROVE  ForRequest(resp, h)
<1> DEFINE norm == NormalizeVaryHeader(resp.hdr.vary, resp.for)
<1>1. resp.hdr.vary \in SUBSET Fields /\ resp.for \in RequestHeader
  BY DEF Response, ResponseWith, Header
<1>2. norm \in Resolved /\ ref.resolved \in Resolved
  BY <1>1, NormalizedResolved DEF Ref
<1>3. VaryHash(norm) = VaryHash(ref.resolved)
  BY DEF EntrySound, RefSound
<1>4. ref.resolved = norm
  BY <1>2, <1>3, HashAssumption
<1>5. DOMAIN norm = resp.hdr.vary /\ \A f \in resp.hdr.vary : norm[f] = FieldValue(resp.for, f)
  BY DEF NormalizeVaryHeader
<1> HIDE DEF norm
<1> QED BY <1>4, <1>5 DEF VaryHeadersMatchOne, ForRequest, Agree

\* What MakeRef makes of a response and the request it is for.
LEMMA NewRefSound ==
    ASSUME NEW u, NEW resp, NEW h, resp.for = h, WholeIfSized(resp),
           NoOwnPrecondition => Genuine(resp)
    PROVE  /\ RefSound(MakeRef(u, resp.hdr, h))
           /\ EntrySound(MakeRef(u, resp.hdr, h).id, resp)
BY DEF MakeRef, VaryKey, RefSound, EntrySound

\* Neither the sort nor an update brings in a reference of another kind.
LEMMA SortSound ==
    ASSUME NEW s \in Seq(Ref), IndexSound(s), NEW t \in SortedRefs(s)
    PROVE  IndexSound(t)
BY SortedRefsType DEF IndexSound

LEMMA UpdateSound ==
    ASSUME NEW s \in Seq(Ref), IndexSound(s), NEW k \in Nat, NEW r \in Ref, RefSound(r)
    PROVE  IndexSound(UpdateRefs(s, k, r))
BY UpdateRefsType DEF IndexSound

-----------------------------------------------------------------------------
(***************************************************************************)
(* RoundTrip up to the origin.                                             *)
(***************************************************************************)
LEMMA MissSound ==
    ASSUME TypeInv, ServeInv, NEW c \in Clients, NEW l \in Call, HandleCacheMiss(c, l),
           l.stored = Absent, l.status = "none", IndexSound(l.refs), UNCHANGED cache
    PROVE  ServeInv'
<1> DEFINE m == [l EXCEPT !.start = now, !.cond = OwnPrecondition(l.req)]
           n == [l EXCEPT !.status = "TIMEOUT504"]
<1>1. c \in Procs
  BY DEF Procs
<1>2. Finish(c, n) \/ Goto(c, "upstream", m)
  BY DEF HandleCacheMiss
<1>3. m.stored = Absent /\ m.status = "none" /\ m.refs = l.refs /\ n.status = "TIMEOUT504"
  BY DEF Call
<1> HIDE DEF m, n
<1>4. LocalSound("upstream", m) /\ LocalSound("done", n)
  BY <1>3 DEF LocalSound, StatusLocal, VaryLocal, CurrentLocal, WholeLocal
<1> QED BY <1>1, <1>2, <1>4, MoveSound, EndSound

LEMMA StartSound ==
    ASSUME TypeInv, ServeInv, NEW c \in Clients, Start(c) PROVE ServeInv'
<1>1. c \in Procs /\ UNCHANGED cache
  BY DEF Start, Procs
<1>2. PICK req \in Requests : StartBypass(c, req) \/ StartNoRefs(c, req) \/ StartMatch(c, req)
  BY DEF Start
<1>3. /\ NoCall \in Call /\ NoCall.stored = Absent /\ NoCall.refs = <<>>
      /\ NoCall.status = "none"
  BY DEF NoCall, Call, Statuses
<1>4. ASSUME StartBypass(c, req) PROVE ServeInv'
  <2> DEFINE l == [NoCall EXCEPT !.req = req, !.start = now, !.cond = OwnPrecondition(req)]
  <2>1. l.stored = Absent /\ l.refs = <<>> /\ l.status = "none"
    BY <1>3 DEF Call
  <2>2. Goto(c, "upstream", l)
    BY <1>4 DEF StartBypass
  <2> HIDE DEF l
  <2>3. LocalSound("upstream", l)
    BY <2>1 DEF LocalSound, StatusLocal, VaryLocal, CurrentLocal, WholeLocal, IndexSound
  <2> QED BY <1>1, <2>2, <2>3, MoveSound
<1>5. ASSUME StartNoRefs(c, req) PROVE ServeInv'
  <2> DEFINE l == [NoCall EXCEPT !.req = req]
  <2>1. l \in Call /\ l.refs = <<>> /\ l.stored = Absent /\ l.status = "none"
    BY <1>3 DEF Call
  <2>2. HandleCacheMiss(c, l)
    BY <1>5 DEF StartNoRefs
  <2> HIDE DEF l
  <2>3. IndexSound(l.refs)
    BY <2>1 DEF IndexSound
  <2> QED BY <1>1, <2>1, <2>2, <2>3, MissSound
<1>6. ASSUME StartMatch(c, req) PROVE ServeInv'
  <2>1. PICK sorted \in SortedRefs(refs[req.url]), k \in 0 .. Len(refs[req.url]) :
          LET locals == [NoCall EXCEPT !.req = req, !.refs = sorted, !.idx = k]
          IN  /\ IsFirstMatch(sorted, req.hdr, k)
              /\ IF k = 0 THEN HandleCacheMiss(c, locals) ELSE Goto(c, "lookup", locals)
    BY <1>6 DEF StartMatch
  <2> DEFINE l == [NoCall EXCEPT !.req = req, !.refs = sorted, !.idx = k]
             s == refs[req.url]
  <2>2. s \in Seq(Ref) /\ IndexSound(s) /\ sorted \in SortedRefs(s) /\ k \in 0 .. Len(s)
    BY RequestType, <2>1 DEF TypeInv, StateOK, ServeInv
  <2> HIDE DEF s
  <2>3. sorted \in Seq(Ref) /\ IndexSound(sorted) /\ k \in Nat
    BY <2>2, SortedRefsType, SortSound
  <2>4. /\ l \in Call /\ l.req = req /\ l.refs = sorted /\ l.idx = k
        /\ l.stored = Absent /\ l.status = "none"
    BY <1>3, <2>3 DEF Call
  <2>5. IF k = 0 THEN HandleCacheMiss(c, l) ELSE Goto(c, "lookup", l)
    BY <2>1
  <2>6. k # 0 => VaryHeadersMatchOne(l.refs[l.idx], l.req.hdr)
    BY <2>1, <2>4 DEF IsFirstMatch
  <2> HIDE DEF l
  <2>7. CASE k = 0
    BY <1>1, <2>3, <2>4, <2>5, <2>7, MissSound
  <2>8. CASE k # 0
    <3>1. LocalSound("lookup", l)
      BY <2>3, <2>4, <2>6, <2>8 DEF LocalSound, StatusLocal, VaryLocal, CurrentLocal, WholeLocal
    <3> QED BY <1>1, <2>5, <2>8, <3>1, MoveSound
  <2> QED BY <2>7, <2>8
<1> QED BY <1>2, <1>4, <1>5, <1>6

\* What a client that looks an entry up relies on.
LEMMA LookupSound ==
    ASSUME TypeInv, ServeInv, NEW c \in Clients, pc[c] = "lookup"
    PROVE  /\ c \in Procs /\ c \notin Workers /\ call[c] \in Call
           /\ IndexSound(call[c].refs)
           /\ call[c].status = "none" /\ call[c].stored = Absent
           /\ Selected(c) # Absent => /\ ForRequest(Selected(c), call[c].req.hdr)
                                      /\ WholeIfSized(Selected(c))
                                      /\ NoOwnPrecondition => Genuine(Selected(c))
<1>1. c \in Procs /\ c \notin Workers
  BY ProcsAssumption DEF Procs
<1>2. LocalSound("lookup", call[c]) /\ LocalsOK(c, "lookup", call[c])
  BY <1>1 DEF ServeInv, TypeInv, ProcsOK
<1>3. /\ IndexSound(call[c].refs) /\ call[c].status = "none"
      /\ VaryHeadersMatchOne(call[c].refs[call[c].idx], call[c].req.hdr)
  BY <1>2 DEF LocalSound, StatusLocal, VaryLocal
<1>4. call[c].stored = Absent /\ call[c] \in Call /\ call[c].idx \in 1 .. Len(call[c].refs)
  BY <1>2 DEF LocalsOK
<1> DEFINE r == call[c].refs[call[c].idx]
<1>5. r \in Ref /\ r.id \in Ids /\ call[c].req.hdr \in RequestHeader
      /\ Selected(c) \in Response \cup {Absent} /\ Selected(c) = entries[r.id]
  BY LookupType, RequestType DEF Selected
<1>6. RefSound(r) /\ VaryHeadersMatchOne(r, call[c].req.hdr)
  BY <1>3, <1>4 DEF IndexSound
<1> HIDE DEF r
<1>7. ASSUME Selected(c) # Absent
      PROVE  /\ ForRequest(Selected(c), call[c].req.hdr) /\ WholeIfSized(Selected(c))
             /\ NoOwnPrecondition => Genuine(Selected(c))
  <2>1. EntrySound(r.id, Selected(c)) /\ Selected(c) \in Response
    BY <1>5, <1>7 DEF ServeInv
  <2> QED BY <1>5, <1>6, <2>1, MatchSelectsVariant DEF EntrySound
<1> QED BY <1>1, <1>3, <1>4, <1>7

LEMMA LookupMissSound ==
    ASSUME TypeInv, ServeInv, NEW c \in Clients, LookupMiss(c) PROVE ServeInv'
<1>1. pc[c] = "lookup" /\ HandleCacheMiss(c, call[c]) /\ UNCHANGED cache
  BY DEF LookupMiss
<1> QED BY <1>1, LookupSound, MissSound

\* Serving touches the ages and the listed fields, and nothing else.
LEMMA ServedSame ==
    ASSUME NEW r \in Response, NEW f
    PROVE  /\ FromCache(r, f).hdr.vary = r.hdr.vary /\ FromCache(r, f).for = r.for
           /\ SetAgeHeader(r, f).hdr.vary = r.hdr.vary /\ SetAgeHeader(r, f).for = r.for
BY DEF FromCache, SetAgeHeader, StripListedFields, Response, ResponseWith, Header

LEMMA LookupServeSound ==
    ASSUME TypeInv, ServeInv, NEW c \in Clients, LookupServe(c) PROVE ServeInv'
<1> DEFINE r == FromCache(Selected(c), Verdict(c))
           l == [WithStored(c) EXCEPT !.resp = r, !.status = "HIT"]
<1>1. IsHit(c) /\ pc[c] = "lookup" /\ Selected(c) # Absent /\ UNCHANGED cache /\ Finish(c, l)
  BY DEF LookupServe, IsHit
<1>2. c \in Procs /\ ForRequest(Selected(c), call[c].req.hdr)
  BY <1>1, LookupSound
<1>3. ForRequest(r, call[c].req.hdr)
  BY <1>1, <1>2, HitType, ServedSame DEF ForRequest
<1> HIDE DEF r
<1>4. l.req = call[c].req /\ l.resp = r /\ l.status = "HIT"
  BY <1>1, HitType DEF Call
<1> HIDE DEF l
<1>5. LocalSound("done", l)
  BY <1>3, <1>4 DEF LocalSound, StatusLocal, VaryLocal, CurrentLocal, WholeLocal
<1> QED BY <1>1, <1>2, <1>5, EndSound

\* Without a precondition of the client's, the stored version is asked about.
LEMMA ValidatorSound ==
    ASSUME NEW req, NEW stored, OwnPrecondition(req) = Absent, Genuine(stored)
    PROVE  Validator(req, stored) \in {Absent, stored.ver}
BY DEF Validator, OwnPrecondition, Precondition, Genuine

LEMMA LookupValidateSound ==
    ASSUME TypeInv, ServeInv, NEW c \in Clients, LookupValidate(c) PROVE ServeInv'
<1> DEFINE v == Validator(call[c].req, Selected(c))
           l == [WithStored(c) EXCEPT !.start = now, !.cond = v]
<1>1. IsHit(c) /\ pc[c] = "lookup" /\ Selected(c) # Absent /\ UNCHANGED cache
      /\ Goto(c, "upstream", l)
  BY DEF LookupValidate, IsHit
<1>2. /\ c \in Procs /\ ForRequest(Selected(c), call[c].req.hdr)
      /\ WholeIfSized(Selected(c)) /\ call[c].status = "none" /\ IndexSound(call[c].refs)
      /\ call[c] \in Call
  BY <1>1, LookupSound
<1>3. NoOwnPrecondition => Genuine(Selected(c)) /\ v \in {Absent, Selected(c).ver}
  <2>1. call[c].req \in Requests
    BY <1>1, LookupType
  <2>2. NoOwnPrecondition => Genuine(Selected(c)) /\ OwnPrecondition(call[c].req) = Absent
    BY <1>1, <2>1, LookupSound DEF NoOwnPrecondition
  <2> QED BY <2>2, ValidatorSound
<1> HIDE DEF v
<1>4. /\ l.req = call[c].req /\ l.refs = call[c].refs /\ l.status = "none"
      /\ l.stored = Selected(c) /\ l.cond = v
  BY <1>1, <1>2, HitType DEF WithStored, Call
<1> HIDE DEF l
<1>5. LocalSound("upstream", l)
  BY <1>2, <1>3, <1>4
     DEF LocalSound, StatusLocal, VaryLocal, CurrentLocal, WholeLocal
<1> QED BY <1>1, <1>2, <1>5, MoveSound

LEMMA LookupStaleSound ==
    ASSUME TypeInv, ServeInv, NEW c \in Clients, LookupStale(c) PROVE ServeInv'
<1> DEFINE l == [WithStored(c) EXCEPT !.resp = Selected(c), !.status = "STALE"]
           b == BackgroundCall(c)
<1>1. PICK w \in Workers :
        /\ IsHit(c)
        /\ pc' = [pc EXCEPT ![c] = "done", ![w] = "launched"]
        /\ call' = [call EXCEPT ![c] = l, ![w] = b]
        /\ UNCHANGED cache
  BY DEF LookupStale
<1>2. pc[c] = "lookup" /\ Selected(c) # Absent
  BY <1>1 DEF IsHit
<1>3. /\ c \in Procs /\ c \notin Workers /\ ForRequest(Selected(c), call[c].req.hdr)
      /\ WholeIfSized(Selected(c))
  BY <1>2, LookupSound
<1>4. l.req = call[c].req /\ l.resp = Selected(c) /\ l.status = "STALE"
  BY <1>1, HitType DEF Call
<1>5. /\ b.req = call[c].req /\ b.stored = Selected(c) /\ b.status = "none"
      /\ b.cond = Validator(call[c].req, Selected(c)) /\ b.refs = <<>>
  BY DEF BackgroundCall, NoCall
<1>6. NoOwnPrecondition => Genuine(Selected(c)) /\ b.cond \in {Absent, Selected(c).ver}
  <2>1. call[c].req \in Requests
    BY <1>2, LookupType
  <2>2. NoOwnPrecondition => Genuine(Selected(c)) /\ OwnPrecondition(call[c].req) = Absent
    BY <1>2, <2>1, LookupSound DEF NoOwnPrecondition
  <2> QED BY <1>5, <2>2, ValidatorSound
<1> HIDE DEF l, b
<1>7. LocalSound("done", l)
  BY <1>3, <1>4 DEF LocalSound, StatusLocal, VaryLocal, CurrentLocal, WholeLocal
<1>8. LocalSound("launched", b)
  BY <1>3, <1>5, <1>6
     DEF LocalSound, StatusLocal, VaryLocal, CurrentLocal, WholeLocal, IndexSound
<1>9. \A q \in Procs : \/ q = c /\ pc'[q] = "done" /\ call'[q] = l
                       \/ q = w /\ pc'[q] = "launched" /\ call'[q] = b
                       \/ pc'[q] = pc[q] /\ call'[q] = call[q]
  BY <1>1, <1>3 DEF TypeInv, ProcsOK
<1>10. refs' = refs /\ entries' = entries
  BY <1>1 DEF cache
<1> QED BY <1>7, <1>8, <1>9, <1>10 DEF ServeInv

LEMMA BackgroundSendSound ==
    ASSUME TypeInv, ServeInv, NEW w \in Workers, BackgroundSend(w) PROVE ServeInv'
<1> DEFINE l == [call[w] EXCEPT !.start = now]
<1>1. w \in Procs /\ pc[w] = "launched" /\ Goto(w, "upstream", l) /\ UNCHANGED cache
  BY DEF BackgroundSend, Procs
<1>2. LocalSound("launched", call[w]) /\ call[w] \in Call
  BY <1>1 DEF ServeInv, TypeInv, ProcsOK
<1>3. /\ l.req = call[w].req /\ l.stored = call[w].stored /\ l.cond = call[w].cond
      /\ l.refs = call[w].refs /\ l.status = call[w].status
  BY <1>2 DEF Call
<1> HIDE DEF l
<1>4. LocalSound("upstream", l)
  BY <1>2, <1>3 DEF LocalSound, StatusLocal, VaryLocal, CurrentLocal, WholeLocal
<1> QED BY <1>1, <1>4, MoveSound

-----------------------------------------------------------------------------
(***************************************************************************)
(* The answer of the origin and what becomes of it.  A 304 is about the    *)
(* validator that was sent, and so about the stored version.               *)
(***************************************************************************)
LEMMA OriginReplySound ==
    ASSUME TypeInv, ServeInv, NEW p \in Procs, OriginReply(p) PROVE ServeInv'
<1>1. PICK reply \in Replies :
        /\ reply.code = 304 => call[p].cond = ver[call[p].req.url]
        /\ Goto(p, "reply", [call[p] EXCEPT
                               !.resp = OriginResponse(call[p].req, reply, call[p].start),
                               !.effect = Bumped(Changed(call[p].req, reply))])
  BY DEF OriginReply
<1> DEFINE r == OriginResponse(call[p].req, reply, call[p].start)
           e == Bumped(Changed(call[p].req, reply))
           l == [call[p] EXCEPT !.resp = r, !.effect = e]
<1>2. pc[p] = "upstream" /\ UNCHANGED cache /\ Goto(p, "reply", l)
  BY <1>1 DEF OriginReply
<1>3. LocalSound("upstream", call[p]) /\ LocalsOK(p, "upstream", call[p])
  BY <1>2 DEF ServeInv, TypeInv, ProcsOK
<1>4. call[p] \in Call /\ call[p].req \in Requests /\ call[p].req.url \in Urls
  BY <1>3, RequestType DEF LocalsOK
<1>5. /\ r.for = call[p].req.hdr /\ r.code = reply.code /\ (r.code # 304 => r.whole)
      /\ Genuine(r) /\ r.ver = e[call[p].req.url]
  BY DEF OriginResponse, Genuine
<1>6. ASSUME call[p].stored # Absent PROVE e[call[p].req.url] = ver[call[p].req.url]
  <2>1. IsRequestMethodUnderstood(call[p].req)
    BY <1>3, <1>6 DEF LocalsOK
  <2>2. Changed(call[p].req, reply) = {}
    BY <2>1 DEF Changed, IsRequestMethodUnderstood, IsUnsafeMethod
  <2> QED BY <1>4, <2>2 DEF Bumped
<1> HIDE DEF r, e
<1>7. /\ l.req = call[p].req /\ l.stored = call[p].stored /\ l.cond = call[p].cond
      /\ l.refs = call[p].refs /\ l.status = call[p].status
      /\ l.resp = r /\ l.effect = e
  BY <1>4 DEF Call
<1> HIDE DEF l
<1>8. ASSUME NoOwnPrecondition, l.stored # Absent, l.resp.code = 304
      PROVE  l.stored.ver = l.effect[l.req.url]
  <2>1. call[p].cond \in {Absent, call[p].stored.ver}
    BY <1>3, <1>7, <1>8 DEF LocalSound, CurrentLocal
  <2>2. call[p].cond = ver[call[p].req.url] /\ ver[call[p].req.url] \in Nat
    BY <1>1, <1>4, <1>5, <1>7, <1>8 DEF TypeInv, StateOK
  <2>3. call[p].cond # Absent
    BY <2>2, SentinelAssumption
  <2> QED BY <1>6, <1>7, <1>8, <2>1, <2>2, <2>3
<1>9. WholeIfSized(l.resp) /\ Genuine(l.resp) /\ l.resp.ver = l.effect[l.req.url]
  BY <1>5, <1>7 DEF WholeIfSized, Genuine
<1>10. LocalSound("reply", l)
  BY <1>3, <1>5, <1>7, <1>8, <1>9
     DEF LocalSound, StatusLocal, VaryLocal, CurrentLocal, WholeLocal
<1> QED BY <1>2, <1>10, MoveSound

\* A call that ends with an error, or an answer that nobody waits for.
LEMMA UpstreamFailSound ==
    ASSUME TypeInv, ServeInv, NEW p \in Procs, UpstreamFail(p) PROVE ServeInv'
<1> DEFINE l == [call[p] EXCEPT !.status = "ERROR", !.resp = Absent]
<1>1. Finish(p, l) /\ UNCHANGED cache /\ call[p] \in Call
  BY DEF UpstreamFail, TypeInv, ProcsOK
<1>2. l.status = "ERROR"
  BY <1>1 DEF Call
<1> HIDE DEF l
<1>3. LocalSound("done", l)
  BY <1>2 DEF LocalSound, StatusLocal, VaryLocal, CurrentLocal, WholeLocal
<1> QED BY <1>1, <1>3, EndSound

LEMMA ReturnSound ==
    ASSUME TypeInv, ServeInv, NEW p \in Procs,
           Return(p) \/ (p \in Workers /\ ReceiveLate(p))
    PROVE  ServeInv'
<1>1. Goto(p, "idle", NoCall) /\ UNCHANGED cache
  BY DEF Return, ReceiveLate, Finish
<1> QED BY <1>1, MoveSound, IdleSound

\* What a goroutine whose exchange is answered relies on.
LEMMA ReplySound ==
    ASSUME TypeInv, ServeInv, NEW p \in Procs, pc[p] = "reply"
    PROVE  /\ LocalSound("reply", call[p]) /\ call[p] \in Call
           /\ IndexSound(call[p].refs)
           /\ Received(p).for = call[p].req.hdr
           /\ Received(p).code = call[p].resp.code
           /\ WholeIfSized(Received(p)) /\ (NoOwnPrecondition => Genuine(Received(p)))
           /\ NoOwnPrecondition => Received(p).ver = call[p].effect[call[p].req.url]
<1>1. LocalSound("reply", call[p]) /\ call[p] \in Call /\ call[p].resp \in RawResponse
  BY ReplyType DEF ServeInv
<1>2. /\ Received(p).for = call[p].resp.for /\ Received(p).code = call[p].resp.code
      /\ Received(p).sized = call[p].resp.sized /\ Received(p).whole = call[p].resp.whole
      /\ Received(p).ver = call[p].resp.ver /\ Received(p).tagOf = call[p].resp.tagOf
      /\ Received(p).dateOf = call[p].resp.dateOf
  BY <1>1 DEF Received, RawResponse, ResponseWith
<1>3. /\ call[p].resp.for = call[p].req.hdr /\ WholeIfSized(call[p].resp)
      /\ IndexSound(call[p].refs)
      /\ NoOwnPrecondition => /\ Genuine(call[p].resp)
                              /\ call[p].resp.ver = call[p].effect[call[p].req.url]
  BY <1>1 DEF LocalSound, VaryLocal, CurrentLocal, WholeLocal
<1> QED BY <1>1, <1>2, <1>3 DEF WholeIfSized, Genuine

LEMMA ReceiveBypassSound ==
    ASSUME TypeInv, ServeInv, NEW c \in Clients, ReceiveBypass(c) PROVE ServeInv'
<1> DEFINE r == [call[c].resp EXCEPT !.respAt = now]
           l == [call[c] EXCEPT !.resp = r, !.status = "BYPASS"]
           m == [l EXCEPT !.plan = InvalidationPlan(call[c].req, r)]
<1>1. /\ c \in Procs /\ pc[c] = "reply" /\ UNCHANGED cache
      /\ Goto(c, "invalidate", m) \/ Finish(c, l)
  BY DEF ReceiveBypass, Procs
<1>2. call[c] \in Call /\ IndexSound(call[c].refs)
  BY <1>1, ReplySound
<1>3. l.status = "BYPASS" /\ m.status = "BYPASS" /\ m.refs = call[c].refs
  BY <1>2 DEF Call
<1> HIDE DEF l, m
<1>4. LocalSound("done", l) /\ LocalSound("invalidate", m)
  BY <1>2, <1>3 DEF LocalSound, StatusLocal, VaryLocal, CurrentLocal, WholeLocal
<1> QED BY <1>1, <1>4, MoveSound, EndSound

\* A full answer is stored or handed on: ReceiveMiss and ReceiveFull.
LEMMA ReceiveFullSound ==
    ASSUME TypeInv, ServeInv, NEW p \in Procs,
           (p \in Clients /\ ReceiveMiss(p)) \/ ReceiveFull(p)
    PROVE  ServeInv'
<1> DEFINE l == [call[p] EXCEPT !.resp = Received(p), !.status = "MISS"]
           m == [call[p] EXCEPT !.resp = Received(p), !.status = "BYPASS"]
<1>1. /\ pc[p] = "reply" /\ UNCHANGED cache
      /\ Goto(p, "set", l) \/ Finish(p, l) \/ Finish(p, m)
  BY DEF ReceiveMiss, ReceiveFull, IsValidation
<1>2. /\ call[p] \in Call /\ IndexSound(call[p].refs)
      /\ Received(p).for = call[p].req.hdr /\ WholeIfSized(Received(p))
      /\ NoOwnPrecondition => Genuine(Received(p))
  BY <1>1, ReplySound
<1>3. /\ l.status = "MISS" /\ l.resp = Received(p) /\ l.refs = call[p].refs
      /\ l.req = call[p].req /\ m.status = "BYPASS"
  BY <1>2 DEF Call
<1> HIDE DEF l, m
<1>4. LocalSound("set", l) /\ LocalSound("done", l) /\ LocalSound("done", m)
  BY <1>2, <1>3 DEF LocalSound, StatusLocal, VaryLocal, CurrentLocal, WholeLocal
<1> QED BY <1>1, <1>4, MoveSound, EndSound

\* The stored response takes over the header of the 304 and keeps its body.
LEMMA FreshenedSame ==
    ASSUME TypeInv, NEW p \in Procs, IsValidation(p)
    PROVE  /\ Freshened(p).for = Received(p).for
           /\ Freshened(p).code = call[p].stored.code
           /\ Freshened(p).sized = call[p].stored.sized
           /\ Freshened(p).whole = call[p].stored.whole
           /\ Freshened(p).ver = call[p].stored.ver
           /\ Freshened(p).tagOf \in {Received(p).tagOf, call[p].stored.tagOf}
           /\ Freshened(p).dateOf \in {Received(p).dateOf, call[p].stored.dateOf}
<1>1. /\ call[p].stored \in Response /\ Received(p) \in Response
  BY ValidationType
<1> DEFINE s == call[p].stored
           a == Received(p)
           h == MergeResponseHeaders(s.hdr, a.hdr)
           t == IF a.hdr.tagged THEN a.tagOf ELSE s.tagOf
           d == IF a.hdr.lastModified # Absent THEN a.dateOf ELSE s.dateOf
<1>2. Freshened(p) = [s EXCEPT !.hdr = h, !.tagOf = t, !.dateOf = d,
                        !.reqAt = call[p].start, !.respAt = now,
                        !.for = a.for, !.born = a.born]
  BY DEF Freshened
<1>3. t \in {a.tagOf, s.tagOf} /\ d \in {a.dateOf, s.dateOf}
  OBVIOUS
<1> HIDE DEF h, t, d
<1> QED BY <1>1, <1>2, <1>3 DEF Response, ResponseWith

LEMMA ReceiveNotModifiedSound ==
    ASSUME TypeInv, ServeInv, NEW p \in Procs, ReceiveNotModified(p) PROVE ServeInv'
<1> DEFINE l == [call[p] EXCEPT !.resp = Freshened(p), !.status = "REVALIDATED"]
<1>1. IsValidation(p) /\ call[p].resp.code = 304 /\ Goto(p, "set", l) /\ UNCHANGED cache
      /\ pc[p] = "reply" /\ call[p].stored # Absent
  BY DEF ReceiveNotModified, IsValidation
<1>2. /\ LocalSound("reply", call[p]) /\ call[p] \in Call /\ IndexSound(call[p].refs)
      /\ Received(p).for = call[p].req.hdr
      /\ NoOwnPrecondition => /\ Genuine(Received(p))
                              /\ Received(p).ver = call[p].effect[call[p].req.url]
  BY <1>1, ReplySound
<1>3. Freshened(p).for = call[p].req.hdr /\ WholeIfSized(Freshened(p))
  BY <1>1, <1>2, FreshenedSame DEF LocalSound, WholeLocal, WholeIfSized
<1>4. NoOwnPrecondition => /\ Freshened(p).ver = call[p].effect[call[p].req.url]
                           /\ Genuine(Freshened(p))
  BY <1>1, <1>2, FreshenedSame DEF LocalSound, CurrentLocal, Genuine
<1>5. /\ l.status = "REVALIDATED" /\ l.resp = Freshened(p) /\ l.refs = call[p].refs
      /\ l.req = call[p].req /\ l.effect = call[p].effect
  BY <1>2 DEF Call
<1> HIDE DEF l
<1>6. LocalSound("set", l)
  BY <1>2, <1>3, <1>4, <1>5
     DEF LocalSound, StatusLocal, VaryLocal, CurrentLocal, WholeLocal
<1> QED BY <1>1, <1>6, MoveSound

LEMMA ReceiveErrorSound ==
    ASSUME TypeInv, ServeInv, NEW p \in Procs, ReceiveError(p) PROVE ServeInv'
<1> DEFINE r == SetAgeHeader(call[p].stored, call[p].fresh)
           l == [call[p] EXCEPT !.resp = r, !.status = "STALE"]
<1>1. IsValidation(p) /\ Finish(p, l) /\ UNCHANGED cache /\ pc[p] = "reply"
      /\ call[p].stored # Absent
  BY DEF ReceiveError, IsValidation
<1>2. LocalSound("reply", call[p]) /\ call[p] \in Call
  BY <1>1, ReplySound
<1>3. ForRequest(r, call[p].req.hdr)
  BY <1>1, <1>2, ValidationType, ServedSame DEF LocalSound, VaryLocal, ForRequest
<1> HIDE DEF r
<1>4. l.status = "STALE" /\ l.resp = r /\ l.req = call[p].req
  BY <1>2 DEF Call
<1> HIDE DEF l
<1>5. LocalSound("done", l)
  BY <1>3, <1>4 DEF LocalSound, StatusLocal, VaryLocal, CurrentLocal, WholeLocal
<1> QED BY <1>1, <1>5, EndSound

-----------------------------------------------------------------------------
(***************************************************************************)
(* StoreResponse and InvalidateCache, which change the cache.              *)
(***************************************************************************)

\* What StoreResponse relies on: its reference and its entry are sound.
LEMMA StoreSound ==
    ASSUME TypeInv, ServeInv, NEW p \in Procs, pc[p] \in {"set", "setrefs"}
    PROVE  /\ LocalSound("set", call[p]) /\ LocalSound("setrefs", call[p])
           /\ LocalSound("done", call[p])
           /\ IndexSound(call[p].refs) /\ RefSound(NewRef(p))
           /\ ~ BodyUnusable(p) => EntrySound(NewRef(p).id, Marshalled(p))
<1> DEFINE c == call[p]
<1>1. LocalSound("set", c) \/ LocalSound("setrefs", c)
  BY DEF ServeInv
<1>2. LocalSound("set", c) /\ LocalSound("setrefs", c)
  BY <1>1 DEF LocalSound, StatusLocal, VaryLocal, CurrentLocal, WholeLocal
<1>3. /\ c.resp.for = c.req.hdr /\ WholeIfSized(c.resp) /\ IndexSound(c.refs)
      /\ NoOwnPrecondition => Genuine(c.resp)
  BY <1>1 DEF LocalSound, VaryLocal, CurrentLocal, WholeLocal
<1>4. LocalSound("done", c)
  <2>1. ForRequest(c.resp, c.req.hdr)
    BY <1>3 DEF ForRequest, Agree
  <2> QED BY <1>1, <2>1 DEF LocalSound, StatusLocal, VaryLocal, CurrentLocal, WholeLocal
<1>5. RefSound(NewRef(p)) /\ EntrySound(NewRef(p).id, c.resp)
  BY <1>3, NewRefSound DEF NewRef
<1>6. /\ Marshalled(p).hdr = c.resp.hdr /\ Marshalled(p).for = c.resp.for
      /\ Marshalled(p).code = c.resp.code /\ Marshalled(p).sized = c.resp.sized
      /\ Marshalled(p).ver = c.resp.ver /\ Marshalled(p).tagOf = c.resp.tagOf
      /\ Marshalled(p).dateOf = c.resp.dateOf
      /\ Marshalled(p).whole = (c.resp.whole /\ (SharesBody(p) => body[p] = "unread"))
  BY StoreType DEF Marshalled, Response, ResponseWith
<1>7. ASSUME ~ BodyUnusable(p), c.resp.sized PROVE SharesBody(p) => body[p] = "unread"
  BY <1>7 DEF BodyUnusable, SharesBody, TypeInv, StateOK
<1>8. ~ BodyUnusable(p) => WholeIfSized(Marshalled(p))
  BY <1>3, <1>6, <1>7 DEF WholeIfSized
<1>9. ~ BodyUnusable(p) => EntrySound(NewRef(p).id, Marshalled(p))
  BY <1>5, <1>6, <1>8 DEF EntrySound, Genuine
<1> QED BY <1>2, <1>3, <1>4, <1>5, <1>9

LEMMA SetEntrySound ==
    ASSUME TypeInv, ServeInv, NEW p \in Procs, SetEntry(p) PROVE ServeInv'
<1>1. /\ pc[p] = "set" /\ ~ BodyUnusable(p) /\ Goto(p, "setrefs", call[p])
      /\ entries' = [entries EXCEPT ![NewRef(p).id] = Marshalled(p)] /\ refs' = refs
  BY DEF SetEntry
<1>2. LocalSound("setrefs", call[p]) /\ EntrySound(NewRef(p).id, Marshalled(p))
  BY <1>1, StoreSound
<1>3. \A id \in Ids : entries'[id] # Absent => EntrySound(id, entries'[id])
  BY <1>1, <1>2 DEF ServeInv, TypeInv, StateOK
<1>4. \A q \in Procs : LocalSound(pc'[q], call'[q])
  BY <1>1, <1>2, OthersSound
<1> QED BY <1>1, <1>3, <1>4 DEF ServeInv

LEMMA SetEntryFailsSound ==
    ASSUME TypeInv, ServeInv, NEW p \in Procs, SetEntryFails(p) PROVE ServeInv'
<1>1. pc[p] = "set" /\ Goto(p, "setrefs", call[p]) /\ UNCHANGED cache
  BY DEF SetEntryFails
<1> QED BY <1>1, StoreSound, MoveSound

LEMMA SetRefsSound ==
    ASSUME TypeInv, ServeInv, NEW p \in Procs, SetRefs(p) PROVE ServeInv'
<1> DEFINE s == UpdateRefs(call[p].refs, call[p].idx, NewRef(p))
<1>1. /\ pc[p] = "setrefs" /\ Finish(p, call[p]) /\ entries' = entries
      /\ refs' = [refs EXCEPT ![call[p].req.url] = s] \/ UNCHANGED refs
  BY DEF SetRefs
<1>2. LocalSound("done", call[p]) /\ IndexSound(call[p].refs) /\ RefSound(NewRef(p))
  BY <1>1, StoreSound
<1>3. call[p].refs \in Seq(Ref) /\ call[p].idx \in Nat /\ NewRef(p) \in Ref
  BY <1>1, StoreType DEF Call
<1>4. IndexSound(s)
  BY <1>2, <1>3, UpdateSound
<1> HIDE DEF s
<1>5. \A u \in Urls : IndexSound(refs'[u])
  BY <1>1, <1>4 DEF ServeInv, TypeInv, StateOK
<1>6. \A q \in Procs : LocalSound(pc'[q], call'[q])
  BY <1>1, <1>2, OthersSound, IdleSound DEF Finish
<1> QED BY <1>1, <1>5, <1>6 DEF ServeInv

LEMMA InvalidateSound ==
    ASSUME TypeInv, ServeInv, NEW c \in Clients,
           \/ InvalidateGetRefs(c) \/ InvalidateSkip(c)
           \/ InvalidateEntry(c) \/ InvalidateKey(c)
    PROVE  ServeInv'
<1>1. PICK op : IsInvalidating(c, op)
  BY DEF InvalidateGetRefs, InvalidateSkip, InvalidateEntry, InvalidateKey
<1>2. /\ c \in Procs /\ pc[c] = "invalidate" /\ call[c] \in Call
      /\ LocalSound("invalidate", call[c])
  BY <1>1, PlanStep DEF ServeInv
<1>3. call[c].status = "BYPASS" /\ IndexSound(call[c].refs)
  BY <1>2 DEF LocalSound, StatusLocal, VaryLocal
<1>4. ASSUME NEW l, l.status = "BYPASS", l.refs = call[c].refs
      PROVE  LocalSound("done", l) /\ LocalSound("invalidate", l)
  BY <1>3, <1>4 DEF LocalSound, StatusLocal, VaryLocal, CurrentLocal, WholeLocal
<1>5. ASSUME NEW ops, Goto(c, "invalidate", [call[c] EXCEPT !.plan = ops])
      PROVE  \A q \in Procs : LocalSound(pc'[q], call'[q])
  <2> DEFINE l == [call[c] EXCEPT !.plan = ops]
  <2>1. l.status = "BYPASS" /\ l.refs = call[c].refs
    BY <1>2, <1>3 DEF Call
  <2>2. Goto(c, "invalidate", l)
    BY <1>5
  <2> HIDE DEF l
  <2> QED BY <1>2, <1>4, <2>1, <2>2, OthersSound
<1>6. ASSUME Advance(c) PROVE \A q \in Procs : LocalSound(pc'[q], call'[q])
  <2> DEFINE l == [call[c] EXCEPT !.plan = Tail(@), !.gone = @ \cup {NextOp(c)}]
  <2>1. l.status = "BYPASS" /\ l.refs = call[c].refs
    BY <1>2, <1>3 DEF Call
  <2>2. Goto(c, "invalidate", l) \/ Goto(c, "done", l) \/ Goto(c, "idle", NoCall)
    BY <1>6 DEF Advance, Finish
  <2> HIDE DEF l
  <2> QED BY <1>2, <1>4, <2>1, <2>2, OthersSound, IdleSound
<1>7. \A q \in Procs : LocalSound(pc'[q], call'[q])
  <2>1. Advance(c) \/ \E ops : Goto(c, "invalidate", [call[c] EXCEPT !.plan = ops])
    BY DEF InvalidateGetRefs, InvalidateSkip, InvalidateEntry, InvalidateKey
  <2> QED BY <1>5, <1>6, <2>1
<1>8. \A id \in Ids : entries'[id] = Absent \/ entries'[id] = entries[id]
  BY DEF InvalidateGetRefs, InvalidateSkip, InvalidateEntry, InvalidateKey, cache,
         TypeInv, StateOK
<1>9. \A u \in Urls : refs'[u] = <<>> \/ refs'[u] = refs[u]
  BY DEF InvalidateGetRefs, InvalidateSkip, InvalidateEntry, InvalidateKey, cache,
         TypeInv, StateOK
<1>10. \A u \in Urls : IndexSound(refs'[u])
  BY <1>9 DEF ServeInv, IndexSound
<1> QED BY <1>7, <1>8, <1>10 DEF ServeInv

-----------------------------------------------------------------------------
LEMMA ServeStep == TypeInv /\ ServeInv /\ [Next]_vars => ServeInv'
<1> SUFFICES ASSUME TypeInv, ServeInv, [Next]_vars PROVE ServeInv'
  OBVIOUS
<1>1. ASSUME NEW p \in Procs, ProcStep(p) PROVE ServeInv'
  BY <1>1, OriginReplySound, UpstreamFailSound, ReceiveNotModifiedSound,
     ReceiveErrorSound, ReceiveFullSound, SetEntrySound, SetEntryFailsSound,
     SetRefsSound DEF ProcStep
<1>2. ASSUME NEW c \in Clients, Start(c) \/ Return(c) \/ ClientStep(c) PROVE ServeInv'
  BY <1>1, <1>2, StartSound, ReturnSound, LookupMissSound, LookupServeSound,
     LookupValidateSound, LookupStaleSound, ReceiveBypassSound, ReceiveFullSound,
     InvalidateSound DEF ClientStep, Procs
<1>3. ASSUME NEW w \in Workers, WorkerStep(w) PROVE ServeInv'
  BY <1>1, <1>3, BackgroundSendSound, ReturnSound DEF WorkerStep, Procs
<1>4. ASSUME UNCHANGED <<cache, pc, call>> PROVE ServeInv'
  BY <1>4 DEF ServeInv, cache
<1>5. ASSUME \/ \E w \in Workers : ContextDone(w) \/ ReadBody(w) \/ CloseBody(w)
             \/ \E u \in Urls : OriginUpdate(u)
             \/ Tick
             \/ UNCHANGED vars
      PROVE  ServeInv'
  BY <1>4, <1>5 DEF ContextDone, ReadBody, CloseBody, OriginUpdate, Tick, vars, cache
<1> QED BY <1>2, <1>3, <1>5 DEF Next, Quiescent

LEMMA ServeInvariant == Spec => [](TypeInv /\ ServeInv)
<1>1. Init => TypeInv /\ ServeInv
  BY TypeInit, ServeInit
<1>2. TypeInv /\ ServeInv /\ [Next]_vars => (TypeInv /\ ServeInv)'
  BY TypeStep, ServeStep
<1> QED BY <1>1, <1>2, PTL DEF Spec

(***************************************************************************)
(* Whatever goroutines do to the index and the entries in whatever order,  *)
(* a response that comes from the cache, fresh, stale or revalidated, is   *)
(* one for a request that agrees with this one on every field that the     *)
(* response's Vary names.                                                  *)
(***************************************************************************)
THEOREM VariantsSound == Spec => []VarySound
BY ServeInvariant, ServeImplies, PTL

(***************************************************************************)
(* A stored 200 of known length has its whole body, also when a client     *)
(* reads and closes the body that a background revalidation stores again.  *)
(***************************************************************************)
THEOREM BodiesWhole == Spec => []StoredBodiesWhole
BY ServeInvariant, ServeImplies, PTL

(***************************************************************************)
(* As long as no request brings an If-None-Match or an If-Modified-Since   *)
(* of its own, REVALIDATED is said only of the version that the origin had *)
(* when it answered the validation, however much the index and the entries *)
(* have changed since, and whichever tags and dates the origin's answers   *)
(* have or lack.                                                           *)
(***************************************************************************)
THEOREM RevalidationSound ==
    ASSUME NoOwnPrecondition
    PROVE  Spec => []RevalidatedIsCurrent
<1>1. TypeInv /\ ServeInv => RevalidatedIsCurrent
  BY ServeImplies
<1> QED BY <1>1, ServeInvariant, PTL

-----------------------------------------------------------------------------
(***************************************************************************)
(* Ages: what is served without asking the origin is young enough, because *)
(* the age that the cache computes covers the real age of the content.     *)
(*                                                                         *)
(* The hypothesis.  Differences of times saturate and sums wrap at 292     *)
(* years (freshness.go, line 83), and a request's max-age whose product    *)
(* wraps to zero is taken for max-age=0 (line 123).  InRange says that no  *)
(* answer and no request comes near that; a max-age or                     *)
(* stale-while-revalidate of the response may still overflow.              *)
(***************************************************************************)
InRange ==
    /\ \A reply \in Replies :
          /\ MaxTime + reply.up + Second <= MaxDuration
          /\ reply.skew # Absent => MaxTime + reply.up + Second - reply.skew <= MaxDuration
    /\ \A req \in Requests : req.cc.maxAge \in Nat \ {0} => DeltaValue(req.cc.maxAge) # 0

(***************************************************************************)
(* The inductive invariant.  A response that is kept, wherever it is kept, *)
(* has an Age field that covers the time from its content to the request   *)
(* that brought it, to within a second, and times that no computation of   *)
(* an age takes out of the range of a duration.                            *)
(***************************************************************************)
AgeSound(hdr, time) ==
    /\ AgeOf(hdr) \in Nat
    /\ AgeOf(hdr) * Second + MaxTime <= MaxDuration
    /\ time < AgeOf(hdr) * Second + Second

Aged(resp, t) ==
    /\ AgeSound(resp.hdr, resp.reqAt - resp.born)
    /\ MaxTime - resp.hdr.date <= MaxDuration
    /\ resp.reqAt <= resp.respAt /\ resp.respAt <= t

\* The same of an answer that has not been received yet.
AgedRaw(resp) ==
    /\ AgeSound(resp.hdr, resp.reqAt - resp.born)
    /\ resp.hdr.date # Absent => MaxTime - resp.hdr.date <= MaxDuration

\* What UsableWithoutContact says of a call that is over.
Usable(c) ==
    LET cc == ResponseDirectives(c.resp.hdr)
    IN  /\ c.status \in {"HIT", "STALE"} /\ c.start = Absent
        /\ c.req.cc.maxStale = Absent /\ ~ c.req.cc.onlyIfCached /\ c.req.cc.maxAge # 0
        /\ IsDelta(cc.maxAge) /\ cc.maxAge > 0
        => c.fresh.ts - c.resp.born < (cc.maxAge * Second) + (Second - 1)
                                      + (IF c.status = "STALE" THEN cc.swr * Second ELSE 0)

\* What a goroutine relies on at each location.
AgedLocal(where, c, t) ==
    /\ where \in {"launched", "upstream", "reply"} /\ c.stored # Absent => Aged(c.stored, t)
    /\ where \in {"upstream", "reply"} => c.start <= t
    /\ where = "reply" => AgedRaw(c.resp) /\ c.resp.reqAt = c.start
    /\ where \in {"set", "setrefs"} =>
         Aged(c.resp, t) /\ c.status \in {"MISS", "REVALIDATED"}
    /\ where = "invalidate" => c.status = "BYPASS"
    /\ where = "done" => Usable(c)

AgeInv ==
    /\ now <= MaxTime
    /\ \A id \in Ids : entries[id] # Absent => Aged(entries[id], now)
    /\ \A p \in Procs : AgedLocal(pc[p], call[p], now)

LEMMA IdleAged == \A c, t : AgedLocal("idle", c, t)
BY DEF AgedLocal

LEMMA AgeInit == Init => AgeInv
BY IdleAged, BoundsAssumption DEF Init, AgeInv

LEMMA AgeImplies == AgeInv => UsableWithoutContact
BY DEF AgeInv, AgedLocal, Usable, UsableWithoutContact, RealAge, Procs

\* A call that is over and did not serve from the cache.
LEMMA OtherUsable ==
    ASSUME NEW c, c.status \notin {"HIT", "STALE"} \/ c.start # Absent, NEW t
    PROVE  AgedLocal("done", c, t)
BY DEF AgedLocal, Usable

-----------------------------------------------------------------------------
(***************************************************************************)
(* A goroutine moves on, or ends, while the clock stands still.            *)
(***************************************************************************)
LEMMA OthersAged ==
    ASSUME TypeInv, AgeInv, NEW p \in Procs, NEW where, NEW c,
           Goto(p, where, c), AgedLocal(where, c, now)
    PROVE  \A q \in Procs : AgedLocal(pc'[q], call'[q], now)
<1>1. \A q \in Procs : \/ q = p /\ pc'[q] = where /\ call'[q] = c
                       \/ pc'[q] = pc[q] /\ call'[q] = call[q]
  BY DEF Goto, TypeInv, ProcsOK
<1> QED BY <1>1 DEF AgeInv

LEMMA MoveAged ==
    ASSUME TypeInv, AgeInv, NEW p \in Procs, NEW where, NEW c,
           Goto(p, where, c), AgedLocal(where, c, now), now' = now, UNCHANGED cache
    PROVE  AgeInv'
<1>1. \A q \in Procs : AgedLocal(pc'[q], call'[q], now')
  BY OthersAged
<1>2. entries' = entries
  BY DEF cache
<1> QED BY <1>1, <1>2 DEF AgeInv

LEMMA EndAged ==
    ASSUME TypeInv, AgeInv, NEW p \in Procs, NEW c, Finish(p, c),
           p \notin Workers => AgedLocal("done", c, now), now' = now, UNCHANGED cache
    PROVE  AgeInv'
BY MoveAged, IdleAged DEF Finish

\* Time passes, and what was received stays received.
LEMMA TickAged == ASSUME TypeInv, AgeInv, Tick PROVE AgeInv'
<1>1. /\ now' = now + 1 /\ now < MaxTime /\ now \in Nat
      /\ entries' = entries /\ pc' = pc /\ call' = call
  BY DEF Tick, TypeInv, StateOK, cache
<1>2. ASSUME NEW r \in Response, Aged(r, now) PROVE Aged(r, now')
  BY <1>1, <1>2 DEF Aged, Response, ResponseWith
<1>3. \A id \in Ids : entries[id] # Absent => Aged(entries[id], now')
  BY <1>2 DEF AgeInv, TypeInv, StateOK
<1>4. ASSUME NEW p \in Procs PROVE AgedLocal(pc[p], call[p], now')
  <2>1. AgedLocal(pc[p], call[p], now) /\ LocalsOK(p, pc[p], call[p])
    BY DEF AgeInv, TypeInv, ProcsOK
  <2>2. call[p].stored # Absent => call[p].stored \in Response
    BY <2>1 DEF LocalsOK, Call
  <2>3. pc[p] \in {"set", "setrefs"} => call[p].resp \in Response
    BY <2>1 DEF LocalsOK
  <2>4. pc[p] \in {"upstream", "reply"} /\ call[p].start <= now => call[p].start <= now'
    BY <1>1, <2>1 DEF LocalsOK
  <2> QED BY <1>2, <2>1, <2>2, <2>3, <2>4 DEF AgedLocal
<1> QED BY <1>1, <1>3, <1>4, BoundsAssumption DEF AgeInv

-----------------------------------------------------------------------------
(***************************************************************************)
(* The heart of the matter: what a verdict says of the real age.           *)
(***************************************************************************)

\* The computed age is within the range, and less than a second too small.
LEMMA AgeBounds ==
    ASSUME NEW r \in Response, NEW t \in Nat, Aged(r, t), t <= MaxTime
    PROVE  /\ CalculateCurrentAge(r, t) \in 0 .. MaxDuration
           /\ t - r.born < CalculateCurrentAge(r, t) + Second
<1> DEFINE product == AgeOf(r.hdr) * Second
<1>1. /\ r.hdr \in Header /\ r.reqAt \in Nat /\ r.respAt \in Nat /\ r.born \in Int
      /\ r.hdr.date \in Int
  BY DEF Response, ResponseWith, Header
<1>2. /\ AgeOf(r.hdr) \in Nat /\ product + MaxTime <= MaxDuration
      /\ r.reqAt - r.born < product + Second
      /\ MaxTime - r.hdr.date <= MaxDuration
      /\ r.reqAt <= r.respAt /\ r.respAt <= t
  BY DEF Aged, AgeSound
<1>3. product \in Nat
  BY <1>2, DurationAssumption
<1> HIDE DEF product
<1>4. t - r.hdr.date <= MaxDuration /\ product + (t - r.reqAt) <= MaxDuration
  BY <1>1, <1>2, <1>3, BoundsAssumption, DurationAssumption
<1>5. /\ CalculateCurrentAge(r, t) = FirstAge(r) + (t - r.respAt)
      /\ FirstAge(r) \in Nat /\ FirstAge(r) + (t - r.respAt) <= MaxDuration
  BY <1>1, <1>2, <1>4, AgeExact DEF product
<1>6. CalculateCurrentAge(r, t) + Second > t - r.born
  BY <1>1, <1>2, <1>4, AgeCovers DEF product
<1>7. CalculateCurrentAge(r, t) \in 0 .. MaxDuration
  BY <1>1, <1>2, <1>5, DurationAssumption
<1> QED BY <1>1, <1>6, <1>7, DurationAssumption

\* The lifetime is no longer than max-age says, even when that overflows.
LEMMA LifeWithinMaxAge ==
    ASSUME NEW e, e.hdr \in Header, NEW rq \in ReqCC, NEW cc \in RespCC,
           IsDelta(cc.maxAge), cc.maxAge > 0
    PROVE  cc.maxAge * Second \in Nat /\ UsefulLife(e, rq, cc) <= cc.maxAge * Second
<1> DEFINE x == cc.maxAge * Second
           d == DeltaValue(cc.maxAge)
           life == UsefulLife(e, rq, cc)
<1>1. cc.maxAge \in Nat
  BY DEF IsDelta, RespCC, Delta
<1>2. x \in Nat /\ d \in Int /\ d <= x /\ (d <= 0 => x > MaxDuration)
  BY <1>1, DeltaShrinks, DurationAssumption
<1>3. life \in 0 .. MaxDuration /\ life <= ResponseLifetime(e, cc)
  BY LifeBounds, UsefulLifeShrinks
<1>4. d > 0 => ResponseLifetime(e, cc) = d
  BY <1>2 DEF ResponseLifetime, MaxAgeLifetime
<1> HIDE DEF x, d, life
<1>5. x \in Nat /\ life <= x
  BY <1>2, <1>3, <1>4, DurationAssumption
<1> QED BY <1>5 DEF x, life

\* A verdict on a request that does not ask for max-age=0.
LEMMA VerdictParts ==
    ASSUME InRange, NEW e, NEW req \in Requests, req.cc.maxAge # 0, NEW t
    PROVE  LET f    == CalculateFreshness(e, req.cc, t)
               age  == CalculateCurrentAge(e, t)
               life == UsefulLife(e, req.cc, ResponseDirectives(e.hdr))
           IN  f.age = age /\ f.life = life
<1>1. req.cc.maxAge \in Delta
  BY RequestType DEF ReqCC
<1>2. ~ (IsDelta(req.cc.maxAge) /\ DeltaValue(req.cc.maxAge) = 0)
  BY <1>1 DEF InRange, IsDelta, Delta
<1> QED BY <1>2 DEF CalculateFreshness

LEMMA VerdictTime ==
    ASSUME NEW e, NEW rq, NEW t PROVE CalculateFreshness(e, rq, t).ts = t
BY DEF CalculateFreshness

\* Fresh, to a request that accepts no staleness: younger than max-age.
LEMMA FreshIsYoung ==
    ASSUME InRange, NEW r \in Response, NEW t \in Nat, Aged(r, t), t <= MaxTime,
           NEW req \in Requests, req.cc.maxStale = Absent,
           ~ CalculateFreshness(r, req.cc, t).isStale,
           NEW cc, cc = ResponseDirectives(r.hdr), IsDelta(cc.maxAge), cc.maxAge > 0
    PROVE  t - r.born < (cc.maxAge * Second) + (Second - 1)
<1> DEFINE x == cc.maxAge * Second
           age == CalculateCurrentAge(r, t)
           life == UsefulLife(r, req.cc, cc)
<1>1. /\ r.hdr \in Header /\ r.reqAt \in Nat /\ r.respAt \in Nat /\ r.born \in Int
      /\ req.cc \in ReqCC /\ cc \in RespCC
  BY RequestType, DirectivesType DEF Response, ResponseWith
<1>2. age \in 0 .. MaxDuration /\ t - r.born < age + Second
  BY AgeBounds
<1>3. x \in Nat /\ life <= x /\ life \in 0 .. MaxDuration
  BY <1>1, LifeWithinMaxAge, LifeBounds
<1>4. MaxStaleAllowance(req.cc) = 0
  BY <1>1, AllowanceShrinks
<1>5. age < life
  <2>1. age < life \/ age < life + MaxStaleAllowance(req.cc)
    BY <1>1, FreshMeansYoung
  <2> HIDE DEF age, life
  <2> QED BY <1>2, <1>3, <1>4, <2>1, DurationAssumption
<1> HIDE DEF x, age, life
<1>6. t - r.born < x + (Second - 1)
  BY <1>1, <1>2, <1>3, <1>5, DurationAssumption
<1> QED BY <1>6 DEF x

\* Served while it is revalidated: younger than that and the allowance.
LEMMA StaleIsYoung ==
    ASSUME InRange, NEW r \in Response, NEW t \in Nat, Aged(r, t), t <= MaxTime,
           NEW req \in Requests, req.cc.maxAge # 0,
           NEW cc, cc = ResponseDirectives(r.hdr), IsDelta(cc.maxAge), cc.maxAge > 0,
           ServesWhileRevalidating(CalculateFreshness(r, req.cc, t), req.cc, cc)
    PROVE  t - r.born < (cc.maxAge * Second) + (Second - 1) + cc.swr * Second
<1> DEFINE x == cc.maxAge * Second
           y == cc.swr * Second
           d == DeltaValue(cc.swr)
           f == CalculateFreshness(r, req.cc, t)
           age == CalculateCurrentAge(r, t)
           life == UsefulLife(r, req.cc, cc)
<1>1. /\ r.hdr \in Header /\ r.reqAt \in Nat /\ r.respAt \in Nat /\ r.born \in Int
      /\ req.cc \in ReqCC /\ cc \in RespCC
  BY RequestType, DirectivesType DEF Response, ResponseWith
<1>2. age \in 0 .. MaxDuration /\ t - r.born < age + Second
  BY AgeBounds
<1>3. x \in Nat /\ life <= x /\ life \in 0 .. MaxDuration
  BY <1>1, LifeWithinMaxAge, LifeBounds
<1>4. IsDelta(cc.swr) /\ Wrap(f.age - f.life) < d
  BY DEF ServesWhileRevalidating
<1>5. cc.swr \in Nat
  BY <1>1, <1>4 DEF IsDelta, RespCC, Delta
<1>6. y \in Nat /\ d \in Int /\ d <= y
  BY <1>5, DeltaShrinks, DurationAssumption
<1>7. f.age = age /\ f.life = life
  BY VerdictParts
<1> HIDE DEF x, y, d, f, age, life
<1>8. Wrap(age - life) = age - life
  BY <1>2, <1>3, WrapInRange, DurationAssumption
<1>9. age - life < d
  BY <1>4, <1>7, <1>8
<1>10. t - r.born < x + (Second - 1) + y
  BY <1>1, <1>2, <1>3, <1>6, <1>9, DurationAssumption
<1> QED BY <1>10 DEF x, y

-----------------------------------------------------------------------------
(***************************************************************************)
(* RoundTrip up to the origin.                                             *)
(***************************************************************************)
LEMMA MissAged ==
    ASSUME TypeInv, AgeInv, NEW c \in Clients, NEW l \in Call, HandleCacheMiss(c, l),
           l.stored = Absent, now' = now, UNCHANGED cache
    PROVE  AgeInv'
<1> DEFINE m == [l EXCEPT !.start = now, !.cond = OwnPrecondition(l.req)]
           n == [l EXCEPT !.status = "TIMEOUT504"]
<1>1. c \in Procs
  BY DEF Procs
<1>2. Finish(c, n) \/ Goto(c, "upstream", m)
  BY DEF HandleCacheMiss
<1>3. m.stored = Absent /\ m.start = now /\ n.status = "TIMEOUT504"
  BY DEF Call
<1> HIDE DEF m, n
<1>4. now <= now
  BY DEF TypeInv, StateOK
<1>5. AgedLocal("upstream", m, now) /\ AgedLocal("done", n, now)
  BY <1>3, <1>4, OtherUsable DEF AgedLocal
<1> QED BY <1>1, <1>2, <1>5, MoveAged, EndAged

LEMMA StartAged ==
    ASSUME TypeInv, AgeInv, NEW c \in Clients, Start(c) PROVE AgeInv'
<1>1. c \in Procs /\ UNCHANGED cache /\ now' = now /\ now \in Nat
  BY DEF Start, Procs, environment, TypeInv, StateOK
<1>2. PICK req \in Requests : StartBypass(c, req) \/ StartNoRefs(c, req) \/ StartMatch(c, req)
  BY DEF Start
<1>3. NoCall \in Call /\ NoCall.stored = Absent
  BY DEF NoCall, Call, Statuses
<1>4. ASSUME StartBypass(c, req) PROVE AgeInv'
  <2> DEFINE l == [NoCall EXCEPT !.req = req, !.start = now, !.cond = OwnPrecondition(req)]
  <2>1. l.stored = Absent /\ l.start = now
    BY <1>3 DEF Call
  <2>2. Goto(c, "upstream", l)
    BY <1>4 DEF StartBypass
  <2> HIDE DEF l
  <2>3. AgedLocal("upstream", l, now)
    BY <1>1, <2>1 DEF AgedLocal
  <2> QED BY <1>1, <2>2, <2>3, MoveAged
<1>5. ASSUME StartNoRefs(c, req) PROVE AgeInv'
  <2> DEFINE l == [NoCall EXCEPT !.req = req]
  <2>1. l \in Call /\ l.stored = Absent
    BY <1>3 DEF Call
  <2>2. HandleCacheMiss(c, l)
    BY <1>5 DEF StartNoRefs
  <2> HIDE DEF l
  <2> QED BY <1>1, <2>1, <2>2, MissAged
<1>6. ASSUME StartMatch(c, req) PROVE AgeInv'
  <2>1. PICK sorted \in SortedRefs(refs[req.url]), k \in 0 .. Len(refs[req.url]) :
          LET locals == [NoCall EXCEPT !.req = req, !.refs = sorted, !.idx = k]
          IN  IF k = 0 THEN HandleCacheMiss(c, locals) ELSE Goto(c, "lookup", locals)
    BY <1>6 DEF StartMatch
  <2> DEFINE l == [NoCall EXCEPT !.req = req, !.refs = sorted, !.idx = k]
  <2>2. refs[req.url] \in Seq(Ref)
    BY RequestType DEF TypeInv, StateOK
  <2>3. sorted \in Seq(Ref) /\ k \in Nat
    BY <2>1, <2>2, SortedRefsType
  <2>4. l \in Call /\ l.stored = Absent
    BY <1>3, <2>3 DEF Call
  <2>5. HandleCacheMiss(c, l) \/ Goto(c, "lookup", l)
    BY <2>1
  <2> HIDE DEF l
  <2>6. AgedLocal("lookup", l, now)
    BY DEF AgedLocal
  <2> QED BY <1>1, <2>4, <2>5, <2>6, MissAged, MoveAged
<1> QED BY <1>2, <1>4, <1>5, <1>6

LEMMA LookupMissAged ==
    ASSUME TypeInv, AgeInv, NEW c \in Clients, LookupMiss(c) PROVE AgeInv'
<1>1. pc[c] = "lookup" /\ HandleCacheMiss(c, call[c]) /\ UNCHANGED cache /\ now' = now
  BY DEF LookupMiss, environment
<1>2. LocalsOK(c, "lookup", call[c])
  BY <1>1 DEF TypeInv, ProcsOK, Procs
<1>3. call[c] \in Call /\ call[c].stored = Absent
  BY <1>2 DEF LocalsOK
<1> QED BY <1>1, <1>3, MissAged

\* What a client that has found an entry relies on.
LEMMA HitAged ==
    ASSUME TypeInv, AgeInv, NEW c \in Clients, IsHit(c)
    PROVE  /\ c \in Procs /\ c \notin Workers /\ pc[c] = "lookup"
           /\ call[c] \in Call /\ call[c].req \in Requests
           /\ Selected(c) \in Response /\ Aged(Selected(c), now)
           /\ now \in Nat /\ now <= MaxTime
           /\ Verdict(c).ts = now
<1>1. pc[c] = "lookup" /\ Selected(c) # Absent /\ c \in Procs /\ c \notin Workers
  BY ProcsAssumption DEF IsHit, Procs
<1>2. call[c] \in Call /\ call[c].req \in Requests /\ call[c].refs[call[c].idx].id \in Ids
  BY <1>1, LookupType
<1>3. Aged(Selected(c), now)
  BY <1>1, <1>2 DEF AgeInv, Selected
<1> QED BY <1>1, <1>2, <1>3, HitType, VerdictTime DEF Verdict, AgeInv, TypeInv, StateOK

\* Serving touches the ages and the listed fields, and nothing else.
LEMMA ServedKeeps ==
    ASSUME NEW r \in Response, NEW f
    PROVE  /\ ResponseDirectives(FromCache(r, f).hdr) = ResponseDirectives(r.hdr)
           /\ FromCache(r, f).born = r.born
BY DEF FromCache, SetAgeHeader, StripListedFields, ResponseDirectives,
       Response, ResponseWith, Header

LEMMA LookupServeAged ==
    ASSUME InRange, TypeInv, AgeInv, NEW c \in Clients, LookupServe(c) PROVE AgeInv'
<1> DEFINE s == Selected(c)
           r == FromCache(s, Verdict(c))
           l == [WithStored(c) EXCEPT !.resp = r, !.status = "HIT"]
           cc == ResponseDirectives(s.hdr)
<1>1. /\ IsHit(c) /\ UNCHANGED cache /\ now' = now /\ Finish(c, l)
      /\ ServesFromCache(Verdict(c), call[c].req.cc, cc)
  BY DEF LookupServe, environment
<1>2. ResponseDirectives(r.hdr) = cc /\ r.born = s.born
  BY <1>1, HitAged, ServedKeeps
<1>3. /\ l.req = call[c].req /\ l.resp = r /\ l.status = "HIT"
      /\ l.fresh = Verdict(c)
  BY <1>1, HitType DEF Call
<1> HIDE DEF r, l
<1>4. ASSUME call[c].req.cc.maxStale = Absent, ~ call[c].req.cc.onlyIfCached,
             IsDelta(cc.maxAge), cc.maxAge > 0
      PROVE  now - s.born < (cc.maxAge * Second) + (Second - 1)
  <2>1. ~ Verdict(c).isStale
    BY <1>1, <1>4 DEF ServesFromCache
  <2> QED BY <1>1, <1>4, <2>1, HitAged, FreshIsYoung DEF Verdict
<1>5. Usable(l)
  <2> SUFFICES ASSUME l.req.cc.maxStale = Absent, ~ l.req.cc.onlyIfCached,
                      IsDelta(cc.maxAge), cc.maxAge > 0
               PROVE  l.fresh.ts - l.resp.born < (cc.maxAge * Second) + (Second - 1) + 0
    BY <1>2, <1>3 DEF Usable
  <2>1. l.fresh.ts - l.resp.born = now - s.born
    BY <1>1, <1>2, <1>3, HitAged
  <2>2. now - s.born < (cc.maxAge * Second) + (Second - 1)
    BY <1>3, <1>4
  <2>3. cc.maxAge \in Nat
    BY <1>1, HitAged, DirectivesType DEF IsDelta, RespCC, Delta, Response, ResponseWith
  <2> DEFINE x == cc.maxAge * Second
  <2>4. x \in Nat
    BY <2>3, DurationAssumption
  <2>5. (x + (Second - 1)) + 0 = x + (Second - 1)
    BY <2>4, DurationAssumption
  <2> QED BY <2>1, <2>2, <2>5
<1>6. AgedLocal("done", l, now)
  BY <1>5 DEF AgedLocal
<1> QED BY <1>1, <1>6, HitAged, EndAged

LEMMA LookupValidateAged ==
    ASSUME TypeInv, AgeInv, NEW c \in Clients, LookupValidate(c) PROVE AgeInv'
<1> DEFINE v == Validator(call[c].req, Selected(c))
           l == [WithStored(c) EXCEPT !.start = now, !.cond = v]
<1>1. IsHit(c) /\ UNCHANGED cache /\ now' = now /\ Goto(c, "upstream", l)
  BY DEF LookupValidate, environment
<1>2. l.stored = Selected(c) /\ l.start = now
  BY <1>1, HitType DEF Call
<1> HIDE DEF l
<1>3. AgedLocal("upstream", l, now)
  BY <1>1, <1>2, HitAged DEF AgedLocal
<1> QED BY <1>1, <1>3, HitAged, MoveAged

LEMMA LookupStaleAged ==
    ASSUME InRange, TypeInv, AgeInv, NEW c \in Clients, LookupStale(c) PROVE AgeInv'
<1> DEFINE s == Selected(c)
           l == [WithStored(c) EXCEPT !.resp = s, !.status = "STALE"]
           b == BackgroundCall(c)
           cc == ResponseDirectives(s.hdr)
<1>1. PICK w \in Workers :
        /\ IsHit(c)
        /\ ServesWhileRevalidating(Verdict(c), call[c].req.cc, cc)
        /\ pc' = [pc EXCEPT ![c] = "done", ![w] = "launched"]
        /\ call' = [call EXCEPT ![c] = l, ![w] = b]
        /\ UNCHANGED cache /\ now' = now
  BY DEF LookupStale, environment
<1>2. l.req = call[c].req /\ l.resp = s /\ l.status = "STALE" /\ l.fresh = Verdict(c)
  BY <1>1, HitType DEF Call
<1>3. b.stored = s
  BY DEF BackgroundCall, NoCall
<1> HIDE DEF l, b
<1>4. ASSUME call[c].req.cc.maxAge # 0, IsDelta(cc.maxAge), cc.maxAge > 0
      PROVE  now - s.born < (cc.maxAge * Second) + (Second - 1) + cc.swr * Second
  BY <1>1, <1>4, HitAged, StaleIsYoung DEF Verdict
<1>5. l.fresh.ts - l.resp.born = now - s.born
  BY <1>1, <1>2, HitAged
<1>6. AgedLocal("done", l, now)
  BY <1>2, <1>4, <1>5 DEF AgedLocal, Usable
<1>7. AgedLocal("launched", b, now)
  BY <1>1, <1>3, HitAged DEF AgedLocal
<1>8. \A q \in Procs : \/ q = c /\ pc'[q] = "done" /\ call'[q] = l
                       \/ q = w /\ pc'[q] = "launched" /\ call'[q] = b
                       \/ pc'[q] = pc[q] /\ call'[q] = call[q]
  BY <1>1, HitAged DEF TypeInv, ProcsOK
<1>9. \A q \in Procs : AgedLocal(pc'[q], call'[q], now)
  BY <1>6, <1>7, <1>8 DEF AgeInv
<1>10. entries' = entries
  BY <1>1 DEF cache
<1> QED BY <1>1, <1>9, <1>10 DEF AgeInv

LEMMA BackgroundSendAged ==
    ASSUME TypeInv, AgeInv, NEW w \in Workers, BackgroundSend(w) PROVE AgeInv'
<1> DEFINE l == [call[w] EXCEPT !.start = now]
<1>1. /\ w \in Procs /\ pc[w] = "launched" /\ Goto(w, "upstream", l)
      /\ UNCHANGED cache /\ now' = now
  BY DEF BackgroundSend, Procs, environment
<1>2. AgedLocal("launched", call[w], now) /\ call[w] \in Call /\ now \in Nat
  BY <1>1 DEF AgeInv, TypeInv, ProcsOK, StateOK
<1>3. l.stored = call[w].stored /\ l.start = now
  BY <1>2 DEF Call
<1> HIDE DEF l
<1>4. AgedLocal("upstream", l, now)
  BY <1>2, <1>3 DEF AgedLocal
<1> QED BY <1>1, <1>4, MoveAged

-----------------------------------------------------------------------------
(***************************************************************************)
(* The answer of the origin.  up is how old the representation is when it  *)
(* is sent, which is not before it was asked for: Age, cut to seconds,     *)
(* covers the time back to the request.                                    *)
(***************************************************************************)
LEMMA OriginAged ==
    ASSUME InRange, TypeInv, AgeInv, NEW req \in Requests, NEW reply \in Replies,
           NEW start \in Nat, start <= now
    PROVE  AgedRaw(OriginResponse(req, reply, start))
<1> DEFINE r == OriginResponse(req, reply, start)
           b == ToSecond(now - reply.up)
           q == (reply.up \div Second) * Second
<1>1. /\ reply.up \in Nat /\ reply.skew \in Int \cup {Absent}
      /\ MaxTime + reply.up + Second <= MaxDuration
      /\ reply.skew # Absent => MaxTime + reply.up + Second - reply.skew <= MaxDuration
  BY RepliesAssumption DEF InRange, OptionalTime
<1>2. now \in Nat /\ now <= MaxTime
  BY DEF TypeInv, StateOK, AgeInv
<1>3. b \in Int /\ now - reply.up < b + Second
  BY <1>1, <1>2, ToSecondBounds
<1>4. reply.up \div Second \in Nat /\ q \in Nat /\ q <= reply.up /\ reply.up < q + Second
  BY <1>1, DivSecondBounds, DurationAssumption
<1>5. /\ r.reqAt = start /\ r.born = now - reply.up
      /\ r.hdr.age = IF reply.up = 0 THEN Absent ELSE reply.up \div Second
      /\ r.hdr.date = IF reply.skew \in {Absent, Bare} THEN reply.skew ELSE b + reply.skew
  BY DEF OriginResponse, OriginHeader
<1>6. AgeOf(r.hdr) \in Nat /\ AgeOf(r.hdr) * Second = q
  <2>1. CASE reply.up = 0
    <3>1. AgeOf(r.hdr) = 0
      BY <1>5, <2>1 DEF AgeOf
    <3>2. 0 * Second = 0 /\ q = 0
      BY <1>4, <2>1, DurationAssumption
    <3> QED BY <3>1, <3>2
  <2>2. CASE reply.up # 0
    <3>1. AgeOf(r.hdr) = reply.up \div Second
      BY <1>4, <1>5, <2>2, SentinelAssumption DEF AgeOf
    <3> QED BY <1>4, <3>1
  <2> QED BY <2>1, <2>2
<1> HIDE DEF r, b, q
<1>7. r.reqAt - r.born < q + Second /\ q + MaxTime <= MaxDuration
  BY <1>1, <1>2, <1>4, <1>5, BoundsAssumption, DurationAssumption
<1>8. r.hdr.date # Absent => MaxTime - r.hdr.date <= MaxDuration
  <2> SUFFICES ASSUME r.hdr.date # Absent PROVE MaxTime - r.hdr.date <= MaxDuration
    OBVIOUS
  <2>1. reply.skew \in Int /\ r.hdr.date = b + reply.skew
    BY <1>1, <1>5, SentinelAssumption
  <2>2. MaxTime + reply.up + Second - reply.skew <= MaxDuration
    BY <1>1, <2>1, SentinelAssumption
  <2> QED BY <1>1, <1>2, <1>3, <2>1, <2>2, BoundsAssumption, DurationAssumption
<1>9. AgedRaw(r)
  BY <1>6, <1>7, <1>8 DEF AgedRaw, AgeSound
<1> QED BY <1>9 DEF r

LEMMA OriginReplyAged ==
    ASSUME InRange, TypeInv, AgeInv, NEW p \in Procs, OriginReply(p) PROVE AgeInv'
<1>1. PICK reply \in Replies :
        Goto(p, "reply", [call[p] EXCEPT
                            !.resp = OriginResponse(call[p].req, reply, call[p].start),
                            !.effect = Bumped(Changed(call[p].req, reply))])
  BY DEF OriginReply
<1> DEFINE r == OriginResponse(call[p].req, reply, call[p].start)
           e == Bumped(Changed(call[p].req, reply))
           l == [call[p] EXCEPT !.resp = r, !.effect = e]
<1>2. pc[p] = "upstream" /\ UNCHANGED cache /\ now' = now /\ Goto(p, "reply", l)
  BY <1>1 DEF OriginReply
<1>3. AgedLocal("upstream", call[p], now) /\ LocalsOK(p, "upstream", call[p])
  BY <1>2 DEF AgeInv, TypeInv, ProcsOK
<1>4. /\ call[p] \in Call /\ call[p].req \in Requests /\ call[p].start \in Nat
      /\ call[p].start <= now
  BY <1>3 DEF LocalsOK, AgedLocal
<1>5. AgedRaw(r)
  BY <1>4, OriginAged
<1>6. r.reqAt = call[p].start
  BY DEF OriginResponse
<1> HIDE DEF r, e
<1>7. l.resp = r /\ l.start = call[p].start /\ l.stored = call[p].stored
  BY <1>4 DEF Call
<1> HIDE DEF l
<1>8. AgedLocal("reply", l, now)
  BY <1>3, <1>5, <1>6, <1>7 DEF AgedLocal
<1> QED BY <1>2, <1>8, MoveAged

\* A call that ends with an error, or an answer that nobody waits for.
LEMMA UpstreamFailAged ==
    ASSUME TypeInv, AgeInv, NEW p \in Procs, UpstreamFail(p) PROVE AgeInv'
<1> DEFINE l == [call[p] EXCEPT !.status = "ERROR", !.resp = Absent]
<1>1. Finish(p, l) /\ UNCHANGED cache /\ now' = now /\ call[p] \in Call
  BY DEF UpstreamFail, TypeInv, ProcsOK, environment
<1>2. l.status = "ERROR"
  BY <1>1 DEF Call
<1> HIDE DEF l
<1>3. AgedLocal("done", l, now)
  BY <1>2, OtherUsable
<1> QED BY <1>1, <1>3, EndAged

LEMMA ReturnAged ==
    ASSUME TypeInv, AgeInv, NEW p \in Procs,
           Return(p) \/ (p \in Workers /\ ReceiveLate(p))
    PROVE  AgeInv'
<1>1. Goto(p, "idle", NoCall) /\ UNCHANGED cache /\ now' = now
  BY DEF Return, ReceiveLate, Finish, environment
<1> QED BY <1>1, MoveAged, IdleAged

-----------------------------------------------------------------------------
(***************************************************************************)
(* What becomes of the answer.                                             *)
(***************************************************************************)

\* The answer as roundTripTimed returns it: the Date it lacks is the clock's.
LEMMA ReceivedAged ==
    ASSUME TypeInv, AgeInv, NEW p \in Procs, pc[p] = "reply"
    PROVE  /\ Received(p) \in Response /\ Aged(Received(p), now)
           /\ Received(p).reqAt = call[p].start
           /\ call[p].start \in Nat /\ call[p].start <= now
<1> DEFINE a == call[p].resp
           h == FixDateHeader(a.hdr, now)
<1>1. a \in RawResponse /\ Received(p) \in Response /\ LocalsOK(p, "reply", call[p])
  BY ReplyType
<1>2. AgedLocal("reply", call[p], now) /\ now \in Nat
  BY DEF AgeInv, TypeInv, StateOK
<1>3. /\ call[p].start \in Nat /\ call[p].start <= now /\ AgedRaw(a)
      /\ a.reqAt = call[p].start
  BY <1>1, <1>2 DEF LocalsOK, AgedLocal
<1>4. /\ Received(p).reqAt = a.reqAt /\ Received(p).born = a.born
      /\ Received(p).respAt = now /\ Received(p).hdr = h
  BY <1>1 DEF Received, RawResponse, ResponseWith
<1>5. a.hdr \in RawHeader
  BY <1>1 DEF RawResponse, ResponseWith
<1>6. /\ AgeOf(h) = AgeOf(a.hdr)
      /\ h.date = IF a.hdr.date = Absent THEN ToSecond(now) ELSE a.hdr.date
  BY <1>5 DEF FixDateHeader, RawHeader, AgeOf
<1>7. MaxTime - h.date <= MaxDuration
  <2>1. CASE a.hdr.date # Absent
    BY <1>3, <1>6, <2>1 DEF AgedRaw
  <2>2. CASE a.hdr.date = Absent
    <3> DEFINE product == AgeOf(a.hdr) * Second
               d == ToSecond(now)
    <3>1. product \in Nat /\ product + MaxTime <= MaxDuration
      BY <1>3, DurationAssumption DEF AgedRaw, AgeSound
    <3>2. d \in Nat
      BY <1>2, DivSecondBounds, DurationAssumption DEF ToSecond
    <3>3. h.date = d
      BY <1>6, <2>2
    <3> HIDE DEF product, d
    <3> QED BY <3>1, <3>2, <3>3, BoundsAssumption, DurationAssumption
  <2> QED BY <2>1, <2>2
<1>8. AgeSound(h, a.reqAt - a.born)
  BY <1>3, <1>6 DEF AgedRaw, AgeSound
<1>9. now <= now
  BY <1>2
<1> HIDE DEF h
<1>10. Aged(Received(p), now)
  BY <1>3, <1>4, <1>7, <1>8, <1>9 DEF Aged
<1> QED BY <1>1, <1>3, <1>4, <1>10

LEMMA ReceiveBypassAged ==
    ASSUME TypeInv, AgeInv, NEW c \in Clients, ReceiveBypass(c) PROVE AgeInv'
<1> DEFINE r == [call[c].resp EXCEPT !.respAt = now]
           l == [call[c] EXCEPT !.resp = r, !.status = "BYPASS"]
           m == [l EXCEPT !.plan = InvalidationPlan(call[c].req, r)]
<1>1. /\ c \in Procs /\ pc[c] = "reply" /\ UNCHANGED cache /\ now' = now
      /\ Goto(c, "invalidate", m) \/ Finish(c, l)
  BY DEF ReceiveBypass, Procs, environment
<1>2. call[c] \in Call
  BY <1>1, ReplyType
<1>3. l.status = "BYPASS" /\ m.status = "BYPASS"
  BY <1>2 DEF Call
<1> HIDE DEF l, m
<1>4. AgedLocal("done", l, now) /\ AgedLocal("invalidate", m, now)
  BY <1>3, OtherUsable DEF AgedLocal
<1> QED BY <1>1, <1>4, MoveAged, EndAged

\* A full answer is stored or handed on: ReceiveMiss and ReceiveFull.
LEMMA ReceiveFullAged ==
    ASSUME TypeInv, AgeInv, NEW p \in Procs,
           (p \in Clients /\ ReceiveMiss(p)) \/ ReceiveFull(p)
    PROVE  AgeInv'
<1> DEFINE l == [call[p] EXCEPT !.resp = Received(p), !.status = "MISS"]
           m == [call[p] EXCEPT !.resp = Received(p), !.status = "BYPASS"]
<1>1. /\ pc[p] = "reply" /\ UNCHANGED cache /\ now' = now
      /\ Goto(p, "set", l) \/ Finish(p, l) \/ Finish(p, m)
  BY DEF ReceiveMiss, ReceiveFull, IsValidation, environment
<1>2. call[p] \in Call /\ Aged(Received(p), now)
  BY <1>1, ReplyType, ReceivedAged
<1>3. l.status = "MISS" /\ l.resp = Received(p) /\ m.status = "BYPASS"
  BY <1>2 DEF Call
<1> HIDE DEF l, m
<1>4. AgedLocal("set", l, now)
  BY <1>2, <1>3 DEF AgedLocal
<1>5. AgedLocal("done", l, now) /\ AgedLocal("done", m, now)
  BY <1>3, OtherUsable
<1> QED BY <1>1, <1>4, <1>5, MoveAged, EndAged

(***************************************************************************)
(* A 304 without an Age leaves the Age of the stored response in place:    *)
(* that is too much for what was just confirmed, and so still covers it.   *)
(***************************************************************************)
LEMMA FreshenedAged ==
    ASSUME TypeInv, AgeInv, NEW p \in Procs, IsValidation(p)
    PROVE  Aged(Freshened(p), now)
<1> DEFINE s == call[p].stored
           a == Received(p)
           m == MergeResponseHeaders(s.hdr, a.hdr)
           f == Freshened(p)
           time == call[p].start - a.born
<1>1. pc[p] = "reply" /\ s # Absent
  BY DEF IsValidation
<1>2. s \in Response /\ a \in Response
  BY ValidationType
<1>3. /\ Aged(a, now) /\ a.reqAt = call[p].start
      /\ call[p].start \in Nat /\ call[p].start <= now /\ now \in Nat
  BY <1>1, ReceivedAged DEF TypeInv, StateOK
<1>4. AgedLocal("reply", call[p], now)
  BY <1>1 DEF AgeInv
<1>5. Aged(s, now)
  BY <1>1, <1>4 DEF AgedLocal
<1>6. s.hdr \in Header /\ a.hdr \in Header /\ a.born \in Int
  BY <1>2 DEF Response, ResponseWith
<1>7. /\ f.hdr = m /\ f.reqAt = call[p].start /\ f.respAt = now /\ f.born = a.born
  BY <1>2 DEF Freshened, Response, ResponseWith
<1>8. /\ m.date = a.hdr.date
      /\ m.age = IF a.hdr.age = Absent THEN s.hdr.age ELSE a.hdr.age
  BY <1>6, MergeType
<1> HIDE DEF s, a, m, f
<1>9. AgeSound(m, time)
  <2>1. AgeSound(a.hdr, time)
    BY <1>3 DEF Aged
  <2>2. CASE a.hdr.age # Absent
    <3>1. AgeOf(m) = AgeOf(a.hdr)
      BY <1>8, <2>2 DEF AgeOf
    <3> QED BY <2>1, <3>1 DEF AgeSound
  <2>3. CASE a.hdr.age = Absent
    <3> DEFINE product == AgeOf(s.hdr) * Second
    <3>1. AgeOf(a.hdr) = 0 /\ AgeOf(m) = AgeOf(s.hdr)
      BY <1>8, <2>3 DEF AgeOf
    <3>2. AgeOf(s.hdr) \in Nat /\ product + MaxTime <= MaxDuration
      BY <1>5 DEF Aged, AgeSound
    <3>3. time < 0 * Second + Second
      BY <2>1, <3>1 DEF AgeSound
    <3>4. time \in Int /\ product \in Nat
      BY <1>3, <1>6, <3>2, DurationAssumption
    <3> HIDE DEF product
    <3>5. 0 * Second + Second = Second
      BY DurationAssumption
    <3> HIDE DEF time
    <3>6. time < product + Second
      BY <3>3, <3>4, <3>5, DurationAssumption
    <3> QED BY <3>1, <3>2, <3>6 DEF AgeSound, product
  <2> QED BY <2>2, <2>3
<1>10. MaxTime - m.date <= MaxDuration
  BY <1>3, <1>8 DEF Aged
<1>11. now <= now
  BY <1>3
<1>12. Aged(f, now)
  BY <1>3, <1>7, <1>9, <1>10, <1>11 DEF Aged
<1> QED BY <1>12 DEF f

LEMMA ReceiveNotModifiedAged ==
    ASSUME TypeInv, AgeInv, NEW p \in Procs, ReceiveNotModified(p) PROVE AgeInv'
<1> DEFINE l == [call[p] EXCEPT !.resp = Freshened(p), !.status = "REVALIDATED"]
<1>1. IsValidation(p) /\ Goto(p, "set", l) /\ UNCHANGED cache /\ now' = now
  BY DEF ReceiveNotModified, environment
<1>2. call[p] \in Call /\ Aged(Freshened(p), now)
  BY <1>1, ValidationType, FreshenedAged
<1>3. l.status = "REVALIDATED" /\ l.resp = Freshened(p)
  BY <1>2 DEF Call
<1> HIDE DEF l
<1>4. AgedLocal("set", l, now)
  BY <1>2, <1>3 DEF AgedLocal
<1> QED BY <1>1, <1>4, MoveAged

\* stale-if-error serves after the origin has been asked.
LEMMA ReceiveErrorAged ==
    ASSUME TypeInv, AgeInv, NEW p \in Procs, ReceiveError(p) PROVE AgeInv'
<1> DEFINE r == SetAgeHeader(call[p].stored, call[p].fresh)
           l == [call[p] EXCEPT !.resp = r, !.status = "STALE"]
<1>1. pc[p] = "reply" /\ Finish(p, l) /\ UNCHANGED cache /\ now' = now
  BY DEF ReceiveError, IsValidation, environment
<1>2. call[p] \in Call /\ call[p].start \in Nat
  BY <1>1, ReplyType, ReceivedAged
<1>3. l.start # Absent
  BY <1>2, SentinelAssumption DEF Call
<1> HIDE DEF l
<1>4. AgedLocal("done", l, now)
  BY <1>3, OtherUsable
<1> QED BY <1>1, <1>4, EndAged

-----------------------------------------------------------------------------
(***************************************************************************)
(* StoreResponse and InvalidateCache, which change the cache.              *)
(***************************************************************************)
LEMMA StoreAged ==
    ASSUME TypeInv, AgeInv, NEW p \in Procs, pc[p] \in {"set", "setrefs"}
    PROVE  /\ AgedLocal("setrefs", call[p], now) /\ AgedLocal("done", call[p], now)
           /\ Aged(Marshalled(p), now)
<1>1. AgedLocal("set", call[p], now) \/ AgedLocal("setrefs", call[p], now)
  BY DEF AgeInv
<1>2. Aged(call[p].resp, now) /\ call[p].status \in {"MISS", "REVALIDATED"}
  BY <1>1 DEF AgedLocal
<1>3. /\ Marshalled(p).hdr = call[p].resp.hdr /\ Marshalled(p).born = call[p].resp.born
      /\ Marshalled(p).reqAt = call[p].resp.reqAt
      /\ Marshalled(p).respAt = call[p].resp.respAt
  BY StoreType DEF Marshalled, Response, ResponseWith
<1> QED BY <1>2, <1>3, OtherUsable DEF Aged, AgedLocal

LEMMA SetEntryAged ==
    ASSUME TypeInv, AgeInv, NEW p \in Procs, SetEntry(p) PROVE AgeInv'
<1>1. /\ pc[p] = "set" /\ Goto(p, "setrefs", call[p]) /\ now' = now
      /\ entries' = [entries EXCEPT ![NewRef(p).id] = Marshalled(p)]
  BY DEF SetEntry, environment
<1>2. \A id \in Ids : entries'[id] # Absent => Aged(entries'[id], now)
  BY <1>1, StoreAged DEF AgeInv, TypeInv, StateOK
<1>3. \A q \in Procs : AgedLocal(pc'[q], call'[q], now)
  BY <1>1, StoreAged, OthersAged
<1> QED BY <1>1, <1>2, <1>3 DEF AgeInv

LEMMA SetEntryFailsAged ==
    ASSUME TypeInv, AgeInv, NEW p \in Procs, SetEntryFails(p) PROVE AgeInv'
<1>1. pc[p] = "set" /\ Goto(p, "setrefs", call[p]) /\ UNCHANGED cache /\ now' = now
  BY DEF SetEntryFails, environment
<1> QED BY <1>1, StoreAged, MoveAged

LEMMA SetRefsAged ==
    ASSUME TypeInv, AgeInv, NEW p \in Procs, SetRefs(p) PROVE AgeInv'
<1>1. pc[p] = "setrefs" /\ Finish(p, call[p]) /\ entries' = entries /\ now' = now
  BY DEF SetRefs, environment
<1>2. \A q \in Procs : AgedLocal(pc'[q], call'[q], now)
  BY <1>1, StoreAged, OthersAged, IdleAged DEF Finish
<1> QED BY <1>1, <1>2 DEF AgeInv

LEMMA InvalidateAged ==
    ASSUME TypeInv, AgeInv, NEW c \in Clients,
           \/ InvalidateGetRefs(c) \/ InvalidateSkip(c)
           \/ InvalidateEntry(c) \/ InvalidateKey(c)
    PROVE  AgeInv'
<1>1. PICK op : IsInvalidating(c, op)
  BY DEF InvalidateGetRefs, InvalidateSkip, InvalidateEntry, InvalidateKey
<1>2. c \in Procs /\ pc[c] = "invalidate" /\ call[c] \in Call
  BY <1>1, PlanStep
<1>3. AgedLocal("invalidate", call[c], now)
  BY <1>2 DEF AgeInv
<1>4. call[c].status = "BYPASS"
  BY <1>3 DEF AgedLocal
<1>5. ASSUME NEW l, l.status = "BYPASS"
      PROVE  AgedLocal("done", l, now) /\ AgedLocal("invalidate", l, now)
  BY <1>5, OtherUsable DEF AgedLocal
<1>6. ASSUME NEW ops, Goto(c, "invalidate", [call[c] EXCEPT !.plan = ops])
      PROVE  \A q \in Procs : AgedLocal(pc'[q], call'[q], now)
  <2> DEFINE l == [call[c] EXCEPT !.plan = ops]
  <2>1. l.status = "BYPASS"
    BY <1>2, <1>4 DEF Call
  <2>2. Goto(c, "invalidate", l)
    BY <1>6
  <2> HIDE DEF l
  <2> QED BY <1>2, <1>5, <2>1, <2>2, OthersAged
<1>7. ASSUME Advance(c) PROVE \A q \in Procs : AgedLocal(pc'[q], call'[q], now)
  <2> DEFINE l == [call[c] EXCEPT !.plan = Tail(@), !.gone = @ \cup {NextOp(c)}]
  <2>1. l.status = "BYPASS"
    BY <1>2, <1>4 DEF Call
  <2>2. Goto(c, "invalidate", l) \/ Goto(c, "done", l) \/ Goto(c, "idle", NoCall)
    BY <1>7 DEF Advance, Finish
  <2> HIDE DEF l
  <2> QED BY <1>2, <1>5, <2>1, <2>2, OthersAged, IdleAged
<1>8. \A q \in Procs : AgedLocal(pc'[q], call'[q], now)
  <2>1. Advance(c) \/ \E ops : Goto(c, "invalidate", [call[c] EXCEPT !.plan = ops])
    BY DEF InvalidateGetRefs, InvalidateSkip, InvalidateEntry, InvalidateKey
  <2> QED BY <1>6, <1>7, <2>1
<1>9. \A id \in Ids : entries'[id] = Absent \/ entries'[id] = entries[id]
  BY DEF InvalidateGetRefs, InvalidateSkip, InvalidateEntry, InvalidateKey, cache,
         TypeInv, StateOK
<1>10. now' = now
  BY DEF InvalidateGetRefs, InvalidateSkip, InvalidateEntry, InvalidateKey, environment
<1> QED BY <1>8, <1>9, <1>10 DEF AgeInv

-----------------------------------------------------------------------------
LEMMA AgeStep ==
    ASSUME InRange, TypeInv, AgeInv, [Next]_vars PROVE AgeInv'
<1>1. ASSUME NEW p \in Procs, ProcStep(p) PROVE AgeInv'
  BY <1>1, OriginReplyAged, UpstreamFailAged, ReceiveNotModifiedAged,
     ReceiveErrorAged, ReceiveFullAged, SetEntryAged, SetEntryFailsAged,
     SetRefsAged DEF ProcStep
<1>2. ASSUME NEW c \in Clients, Start(c) \/ Return(c) \/ ClientStep(c) PROVE AgeInv'
  BY <1>1, <1>2, StartAged, ReturnAged, LookupMissAged, LookupServeAged,
     LookupValidateAged, LookupStaleAged, ReceiveBypassAged, ReceiveFullAged,
     InvalidateAged DEF ClientStep, Procs
<1>3. ASSUME NEW w \in Workers, WorkerStep(w) PROVE AgeInv'
  BY <1>1, <1>3, BackgroundSendAged, ReturnAged DEF WorkerStep, Procs
<1>4. ASSUME UNCHANGED <<now, cache, pc, call>> PROVE AgeInv'
  BY <1>4 DEF AgeInv, cache
<1>5. ASSUME \/ \E w \in Workers : ContextDone(w) \/ ReadBody(w) \/ CloseBody(w)
             \/ \E u \in Urls : OriginUpdate(u)
             \/ UNCHANGED vars
      PROVE  AgeInv'
  BY <1>4, <1>5 DEF ContextDone, ReadBody, CloseBody, OriginUpdate, vars, cache, environment
<1> QED BY <1>2, <1>3, <1>5, TickAged DEF Next, Quiescent

(***************************************************************************)
(* A response that RoundTrip serves as HIT, or as STALE while it           *)
(* revalidates it, without having asked the origin, to a request that      *)
(* accepts no staleness, is really younger than its max-age, or than       *)
(* max-age and stale-while-revalidate together, but for one second: the    *)
(* Age field and the dates have that resolution.  It holds through any     *)
(* number of stores, 304s and races, also when a max-age of the response   *)
(* overflows.                                                              *)
(***************************************************************************)
THEOREM ServedIsYoung == ASSUME InRange PROVE Spec => []UsableWithoutContact
<1>1. Init => TypeInv /\ AgeInv
  BY TypeInit, AgeInit
<1>2. TypeInv /\ AgeInv /\ [Next]_vars => (TypeInv /\ AgeInv)'
  BY TypeStep, AgeStep
<1> QED BY <1>1, <1>2, AgeImplies, PTL DEF Spec

-----------------------------------------------------------------------------
(***************************************************************************)
(* The index of a resource that keeps its Vary.  Each answer that can be   *)
(* stored has the same Vary, or is a 304 without one, and no client brings *)
(* a precondition that would get it such a 304 in place of a response.     *)
(***************************************************************************)
Storable(reply, reqCC) ==
    CanStoreResponse(reply.code, [cc |-> reply.cc, expires |-> reply.expiresIn], reqCC)

KeepsVary(V) ==
    /\ V # {Star}
    /\ NoOwnPrecondition
    /\ \A reply \in Replies : \/ reply.vary = V
                              \/ reply.code = 304 /\ reply.vary = {}
                              \/ /\ reply.code # 304
                                 /\ \A req \in Requests : ~ Storable(reply, req.cc)

(***************************************************************************)
(* The inductive invariant.  An index has one reference for each variant,  *)
(* and so has the copy of it that a goroutine carries through its          *)
(* exchange; the reference that the goroutine will replace is the one for  *)
(* its request, or there is none for it.                                   *)
(***************************************************************************)
RefKeeps(V, u, ref) ==
    /\ ref.vary = V
    /\ DOMAIN ref.resolved = V
    /\ ref.id = VaryKey(u, ref.resolved)

Distinct(index) == \A i, j \in 1 .. Len(index) : index[i].id = index[j].id => i = j

IndexKeeps(V, u, index) ==
    /\ \A i \in 1 .. Len(index) : RefKeeps(V, u, index[i])
    /\ Distinct(index)

\* The chosen reference matches, or there is none that does.
Chosen(c) ==
    IF c.idx \in 1 .. Len(c.refs)
    THEN VaryHeadersMatchOne(c.refs[c.idx], c.req.hdr)
    ELSE \A i \in 1 .. Len(c.refs) : ~ VaryHeadersMatchOne(c.refs[i], c.req.hdr)

\* An answer that keeps the Vary, is merged into what does, or is not stored.
AnswerKeeps(V, resp, req) ==
    \/ resp.hdr.vary = V
    \/ resp.code = 304 /\ resp.hdr.vary = {}
    \/ resp.code # 304 /\ ~ CanStoreResponse(resp.code, resp.hdr, req.cc)

KeepLocal(V, where, c) ==
    /\ where \notin {"idle", "done"} => IndexKeeps(V, c.req.url, c.refs) /\ Chosen(c)
    /\ where \in {"launched", "upstream", "reply"} =>
         IF c.stored = Absent THEN c.cond = Absent ELSE c.stored.hdr.vary = V
    /\ where = "reply" => /\ AnswerKeeps(V, c.resp, c.req)
                          /\ c.stored = Absent => c.resp.code # 304
    /\ where \in {"set", "setrefs"} => c.resp.hdr.vary = V

KeepInv(V) ==
    /\ \A u \in Urls : IndexKeeps(V, u, refs[u])
    /\ \A id \in Ids : entries[id] # Absent => entries[id].hdr.vary = V
    /\ \A p \in Procs : KeepLocal(V, pc[p], call[p])

LEMMA EmptyKeeps ==
    /\ \A V, u : IndexKeeps(V, u, <<>>)
    /\ \A c : c.refs = <<>> => Chosen(c)
BY DEF IndexKeeps, Distinct, Chosen

LEMMA EndKeeps == \A V, c : KeepLocal(V, "idle", c) /\ KeepLocal(V, "done", c)
BY DEF KeepLocal

LEMMA KeepInit == \A V : Init => KeepInv(V)
BY EmptyKeeps, EndKeeps DEF Init, KeepInv

\* A goroutine moves on and leaves the cache alone.
LEMMA MoveKeeps ==
    ASSUME NEW V, TypeInv, KeepInv(V), NEW p \in Procs, NEW where, NEW c,
           Goto(p, where, c), KeepLocal(V, where, c)
    PROVE  /\ \A q \in Procs : KeepLocal(V, pc'[q], call'[q])
           /\ UNCHANGED cache => KeepInv(V)'
<1>1. \A q \in Procs : \/ q = p /\ pc'[q] = where /\ call'[q] = c
                       \/ pc'[q] = pc[q] /\ call'[q] = call[q]
  BY DEF Goto, TypeInv, ProcsOK
<1>2. \A q \in Procs : KeepLocal(V, pc'[q], call'[q])
  BY <1>1 DEF KeepInv
<1>3. UNCHANGED cache => refs' = refs /\ entries' = entries
  BY DEF cache
<1> QED BY <1>2, <1>3 DEF KeepInv

LEMMA FinishKeeps ==
    ASSUME NEW V, TypeInv, KeepInv(V), NEW p \in Procs, NEW c, Finish(p, c)
    PROVE  /\ \A q \in Procs : KeepLocal(V, pc'[q], call'[q])
           /\ UNCHANGED cache => KeepInv(V)'
BY MoveKeeps, EndKeeps DEF Finish

-----------------------------------------------------------------------------
(***************************************************************************)
(* The index.  A permutation of an index has its references, and replacing *)
(* the chosen reference by a new one for the same request, or adding it    *)
(* when none was chosen, does not make a second one for that variant.      *)
(***************************************************************************)
LEMMA SortKeeps ==
    ASSUME NEW V, NEW u, NEW s \in Seq(Ref), IndexKeeps(V, u, s), NEW t \in SortedRefs(s)
    PROVE  IndexKeeps(V, u, t)
<1>1. PICK f \in Reorderings(Len(s)) : t = [i \in 1 .. Len(s) |-> s[f[i]]]
  BY DEF SortedRefs
<1>2. /\ f \in [1 .. Len(s) -> 1 .. Len(s)]
      /\ \A i, j \in 1 .. Len(s) : f[i] = f[j] => i = j
  BY <1>1 DEF Reorderings
<1>3. Len(t) = Len(s) /\ \A i \in 1 .. Len(t) : t[i] = s[f[i]] /\ f[i] \in 1 .. Len(s)
  BY <1>1, <1>2, SortedRefsType
<1>4. \A i \in 1 .. Len(t) : RefKeeps(V, u, t[i])
  BY <1>3 DEF IndexKeeps
<1>5. Distinct(t)
  BY <1>2, <1>3 DEF IndexKeeps, Distinct
<1> QED BY <1>4, <1>5 DEF IndexKeeps

\* What StoreResponse makes of a response with that Vary.
LEMMA NewRefKeeps ==
    ASSUME NEW V \in SUBSET Fields, V # {Star}, NEW u, NEW h, h.vary = V,
           NEW req \in RequestHeader
    PROVE  LET r == MakeRef(u, h, req)
           IN  RefKeeps(V, u, r) /\ VaryHeadersMatchOne(r, req)
BY DEF MakeRef, RefKeeps, VaryHeadersMatchOne, NormalizeVaryHeader

\* References of a URL for one and the same request have one ID.
LEMMA OneVariant ==
    ASSUME NEW V \in SUBSET Fields, V # {Star}, NEW u, NEW a \in Ref, NEW b \in Ref,
           RefKeeps(V, u, a), RefKeeps(V, u, b), NEW h
    PROVE  /\ VaryHeadersMatchOne(a, h) /\ VaryHeadersMatchOne(b, h) => a.id = b.id
           /\ a.id = b.id /\ VaryHeadersMatchOne(a, h) => VaryHeadersMatchOne(b, h)
<1>1. a.resolved \in [V -> Values] /\ b.resolved \in [V -> Values]
  <2>1. ASSUME NEW r \in Resolved, DOMAIN r = V PROVE r \in [V -> Values]
    BY <2>1 DEF Resolved
  <2> QED BY <2>1 DEF RefKeeps, Ref
<1>2. ASSUME VaryHeadersMatchOne(a, h), VaryHeadersMatchOne(b, h) PROVE a.id = b.id
  <2>1. \A f \in V : a.resolved[f] = b.resolved[f]
    BY <1>2 DEF VaryHeadersMatchOne, RefKeeps
  <2>2. a.resolved = b.resolved
    BY <1>1, <2>1
  <2> QED BY <2>2 DEF RefKeeps
<1>3. ASSUME a.id = b.id, VaryHeadersMatchOne(a, h) PROVE VaryHeadersMatchOne(b, h)
  <2>1. VaryHash(a.resolved) = VaryHash(b.resolved)
    BY <1>3 DEF RefKeeps, VaryKey
  <2>2. a.resolved = b.resolved
    BY <2>1, HashAssumption DEF Ref
  <2> QED BY <1>3, <2>2 DEF VaryHeadersMatchOne, RefKeeps
<1> QED BY <1>2, <1>3

LEMMA UpdateKeeps ==
    ASSUME NEW V \in SUBSET Fields, V # {Star}, NEW c, c.refs \in Seq(Ref), c.idx \in Nat,
           NEW u, IndexKeeps(V, u, c.refs), Chosen(c),
           NEW r \in Ref, RefKeeps(V, u, r), VaryHeadersMatchOne(r, c.req.hdr)
    PROVE  IndexKeeps(V, u, UpdateRefs(c.refs, c.idx, r))
<1> DEFINE s == c.refs
           k == c.idx
           t == UpdateRefs(s, k, r)
           h == c.req.hdr
<1>1. \A i \in 1 .. Len(s) : s[i] \in Ref /\ RefKeeps(V, u, s[i])
  BY DEF IndexKeeps
<1>2. ASSUME k \in 1 .. Len(s) PROVE IndexKeeps(V, u, t)
  <2>1. Len(t) = Len(s) /\ \A i \in 1 .. Len(t) : t[i] = IF i = k THEN r ELSE s[i]
    BY <1>2 DEF UpdateRefs
  <2>2. VaryHeadersMatchOne(s[k], h)
    BY <1>2 DEF Chosen
  <2>3. s[k].id = r.id
    BY <1>1, <1>2, <2>2, OneVariant
  <2>4. \A i \in 1 .. Len(t) : t[i].id = s[i].id /\ RefKeeps(V, u, t[i])
    BY <1>1, <2>1, <2>3
  <2> QED BY <2>1, <2>4 DEF IndexKeeps, Distinct
<1>3. ASSUME k \notin 1 .. Len(s) PROVE IndexKeeps(V, u, t)
  <2>1. Len(t) = Len(s) + 1 /\ t[Len(s) + 1] = r /\ \A i \in 1 .. Len(s) : t[i] = s[i]
    BY <1>3 DEF UpdateRefs
  <2>2. \A i \in 1 .. Len(s) : ~ VaryHeadersMatchOne(s[i], h)
    BY <1>3 DEF Chosen
  <2>3. \A i \in 1 .. Len(s) : s[i].id # r.id
    BY <1>1, <2>2, OneVariant
  <2>4. Len(s) \in Nat
    OBVIOUS
  <2>5. \A i \in 1 .. Len(t) : RefKeeps(V, u, t[i])
    BY <1>1, <2>1, <2>4
  <2>6. Distinct(t)
    <3> SUFFICES ASSUME NEW i \in 1 .. Len(t), NEW j \in 1 .. Len(t), t[i].id = t[j].id
                 PROVE  i = j
      BY DEF Distinct
    <3>1. i \in 1 .. Len(s) \/ i = Len(s) + 1
      BY <2>1, <2>4
    <3>2. j \in 1 .. Len(s) \/ j = Len(s) + 1
      BY <2>1, <2>4
    <3> QED BY <2>1, <2>3, <3>1, <3>2 DEF IndexKeeps, Distinct
  <2> QED BY <2>5, <2>6 DEF IndexKeeps
<1> QED BY <1>2, <1>3

-----------------------------------------------------------------------------
(***************************************************************************)
(* RoundTrip up to the origin: the copy of the index and the choice.       *)
(***************************************************************************)
LEMMA MissKeeps ==
    ASSUME NEW V, KeepsVary(V), TypeInv, KeepInv(V), NEW c \in Clients, NEW l \in Call,
           HandleCacheMiss(c, l), l.req \in Requests, l.stored = Absent,
           IndexKeeps(V, l.req.url, l.refs), Chosen(l), UNCHANGED cache
    PROVE  KeepInv(V)'
<1> DEFINE m == [l EXCEPT !.start = now, !.cond = OwnPrecondition(l.req)]
           n == [l EXCEPT !.status = "TIMEOUT504"]
<1>1. c \in Procs
  BY DEF Procs
<1>2. Finish(c, n) \/ Goto(c, "upstream", m)
  BY DEF HandleCacheMiss
<1>3. /\ m.stored = Absent /\ m.cond = OwnPrecondition(l.req) /\ m.refs = l.refs /\ m.idx = l.idx
      /\ m.req = l.req
  BY DEF Call
<1> HIDE DEF m, n
<1>4. m.cond = Absent
  BY <1>3 DEF KeepsVary, NoOwnPrecondition
<1>5. KeepLocal(V, "upstream", m)
  BY <1>3, <1>4 DEF KeepLocal, Chosen
<1> QED BY <1>1, <1>2, <1>5, MoveKeeps, FinishKeeps

LEMMA StartKeeps ==
    ASSUME NEW V, KeepsVary(V), TypeInv, KeepInv(V), NEW c \in Clients, Start(c)
    PROVE  KeepInv(V)'
<1>1. c \in Procs /\ UNCHANGED cache
  BY DEF Start, Procs
<1>2. PICK req \in Requests : StartBypass(c, req) \/ StartNoRefs(c, req) \/ StartMatch(c, req)
  BY DEF Start
<1>3. NoCall \in Call /\ NoCall.stored = Absent /\ NoCall.refs = <<>>
  BY DEF NoCall, Call, Statuses
<1>4. ASSUME StartBypass(c, req) PROVE KeepInv(V)'
  <2> DEFINE l == [NoCall EXCEPT !.req = req, !.start = now, !.cond = OwnPrecondition(req)]
  <2>1. l.stored = Absent /\ l.refs = <<>> /\ l.cond = OwnPrecondition(req)
    BY <1>3 DEF Call
  <2>2. Goto(c, "upstream", l)
    BY <1>4 DEF StartBypass
  <2> HIDE DEF l
  <2>3. KeepLocal(V, "upstream", l)
    BY <2>1, EmptyKeeps DEF KeepLocal, KeepsVary, NoOwnPrecondition
  <2> QED BY <1>1, <2>2, <2>3, MoveKeeps
<1>5. ASSUME StartNoRefs(c, req) PROVE KeepInv(V)'
  <2> DEFINE l == [NoCall EXCEPT !.req = req]
  <2>1. l \in Call /\ l.refs = <<>> /\ l.stored = Absent /\ l.req = req
    BY <1>3 DEF Call
  <2>2. HandleCacheMiss(c, l)
    BY <1>5 DEF StartNoRefs
  <2> HIDE DEF l
  <2>3. IndexKeeps(V, l.req.url, l.refs) /\ Chosen(l)
    BY <2>1, EmptyKeeps
  <2> QED BY <1>1, <2>1, <2>2, <2>3, MissKeeps
<1>6. ASSUME StartMatch(c, req) PROVE KeepInv(V)'
  <2>1. PICK sorted \in SortedRefs(refs[req.url]), k \in 0 .. Len(refs[req.url]) :
          LET locals == [NoCall EXCEPT !.req = req, !.refs = sorted, !.idx = k]
          IN  /\ IsFirstMatch(sorted, req.hdr, k)
              /\ IF k = 0 THEN HandleCacheMiss(c, locals) ELSE Goto(c, "lookup", locals)
    BY <1>6 DEF StartMatch
  <2> DEFINE l == [NoCall EXCEPT !.req = req, !.refs = sorted, !.idx = k]
             s == refs[req.url]
  <2>2. s \in Seq(Ref) /\ IndexKeeps(V, req.url, s) /\ sorted \in SortedRefs(s)
        /\ k \in 0 .. Len(s)
    BY RequestType, <2>1 DEF TypeInv, StateOK, KeepInv
  <2> HIDE DEF s
  <2>3. sorted \in Seq(Ref) /\ IndexKeeps(V, req.url, sorted) /\ k \in Nat
    BY <2>2, SortedRefsType, SortKeeps
  <2>4. /\ l \in Call /\ l.req = req /\ l.refs = sorted /\ l.idx = k /\ l.stored = Absent
    BY <1>3, <2>3 DEF Call
  <2>5. HandleCacheMiss(c, l) \/ Goto(c, "lookup", l)
    BY <2>1
  <2> HIDE DEF l
  <2>6. Chosen(l)
    BY <2>1, <2>4 DEF IsFirstMatch, Chosen
  <2>7. KeepLocal(V, "lookup", l)
    BY <2>3, <2>4, <2>6 DEF KeepLocal
  <2> QED BY <1>1, <2>3, <2>4, <2>5, <2>6, <2>7, MissKeeps, MoveKeeps
<1> QED BY <1>2, <1>4, <1>5, <1>6

\* What a client that looks an entry up relies on.
LEMMA LookupKeeps ==
    ASSUME NEW V, TypeInv, KeepInv(V), NEW c \in Clients, pc[c] = "lookup"
    PROVE  /\ c \in Procs /\ c \notin Workers
           /\ call[c] \in Call /\ call[c].req \in Requests /\ call[c].stored = Absent
           /\ IndexKeeps(V, call[c].req.url, call[c].refs) /\ Chosen(call[c])
           /\ Selected(c) # Absent => Selected(c).hdr.vary = V
<1>1. c \in Procs /\ c \notin Workers
  BY ProcsAssumption DEF Procs
<1>2. KeepLocal(V, "lookup", call[c]) /\ LocalsOK(c, "lookup", call[c])
  BY <1>1 DEF KeepInv, TypeInv, ProcsOK
<1>3. Selected(c) # Absent => Selected(c).hdr.vary = V
  BY LookupType DEF Selected, KeepInv
<1> QED BY <1>1, <1>2, <1>3 DEF KeepLocal, LocalsOK

LEMMA LookupMissKeeps ==
    ASSUME NEW V, KeepsVary(V), TypeInv, KeepInv(V), NEW c \in Clients, LookupMiss(c)
    PROVE  KeepInv(V)'
<1>1. pc[c] = "lookup" /\ HandleCacheMiss(c, call[c]) /\ UNCHANGED cache
  BY DEF LookupMiss
<1> QED BY <1>1, LookupKeeps, MissKeeps

LEMMA LookupValidateKeeps ==
    ASSUME NEW V, TypeInv, KeepInv(V), NEW c \in Clients,
           LookupValidate(c) \/ LookupServe(c)
    PROVE  KeepInv(V)'
<1> DEFINE v == Validator(call[c].req, Selected(c))
           l == [WithStored(c) EXCEPT !.start = now, !.cond = v]
           n == [WithStored(c) EXCEPT !.resp = FromCache(Selected(c), Verdict(c)),
                                      !.status = "HIT"]
<1>1. /\ IsHit(c) /\ UNCHANGED cache /\ pc[c] = "lookup" /\ Selected(c) # Absent
      /\ Goto(c, "upstream", l) \/ Finish(c, n)
  BY DEF LookupValidate, LookupServe, IsHit
<1>2. c \in Procs /\ call[c] \in Call
  BY <1>1, LookupKeeps
<1>3. /\ l.req = call[c].req /\ l.refs = call[c].refs /\ l.idx = call[c].idx
      /\ l.stored = Selected(c)
  BY <1>1, <1>2, HitType DEF WithStored, Call
<1> HIDE DEF l, n
<1>4. KeepLocal(V, "upstream", l)
  BY <1>1, <1>3, LookupKeeps DEF KeepLocal, Chosen
<1> QED BY <1>1, <1>2, <1>4, MoveKeeps, FinishKeeps

LEMMA LookupStaleKeeps ==
    ASSUME NEW V, TypeInv, KeepInv(V), NEW c \in Clients, LookupStale(c)
    PROVE  KeepInv(V)'
<1> DEFINE l == [WithStored(c) EXCEPT !.resp = Selected(c), !.status = "STALE"]
           b == BackgroundCall(c)
<1>1. PICK w \in Workers :
        /\ IsHit(c)
        /\ pc' = [pc EXCEPT ![c] = "done", ![w] = "launched"]
        /\ call' = [call EXCEPT ![c] = l, ![w] = b]
        /\ UNCHANGED cache
  BY DEF LookupStale
<1>2. pc[c] = "lookup" /\ Selected(c) # Absent
  BY <1>1 DEF IsHit
<1>3. c \in Procs /\ c \notin Workers /\ Selected(c).hdr.vary = V
  BY <1>2, LookupKeeps
<1>4. b.stored = Selected(c) /\ b.refs = <<>>
  BY DEF BackgroundCall, NoCall
<1> HIDE DEF l, b
<1>5. KeepLocal(V, "launched", b)
  BY <1>2, <1>3, <1>4, EmptyKeeps DEF KeepLocal
<1>6. \A q \in Procs : \/ q = c /\ pc'[q] = "done"
                       \/ q = w /\ pc'[q] = "launched" /\ call'[q] = b
                       \/ pc'[q] = pc[q] /\ call'[q] = call[q]
  BY <1>1, <1>3 DEF TypeInv, ProcsOK
<1>7. refs' = refs /\ entries' = entries
  BY <1>1 DEF cache
<1>8. \A q \in Procs : KeepLocal(V, pc'[q], call'[q])
  BY <1>5, <1>6, EndKeeps DEF KeepInv
<1> QED BY <1>7, <1>8 DEF KeepInv

LEMMA BackgroundSendKeeps ==
    ASSUME NEW V, TypeInv, KeepInv(V), NEW w \in Workers, BackgroundSend(w)
    PROVE  KeepInv(V)'
<1> DEFINE l == [call[w] EXCEPT !.start = now]
<1>1. w \in Procs /\ pc[w] = "launched" /\ Goto(w, "upstream", l) /\ UNCHANGED cache
  BY DEF BackgroundSend, Procs
<1>2. KeepLocal(V, "launched", call[w]) /\ call[w] \in Call
  BY <1>1 DEF KeepInv, TypeInv, ProcsOK
<1>3. /\ l.req = call[w].req /\ l.stored = call[w].stored /\ l.cond = call[w].cond
      /\ l.refs = call[w].refs /\ l.idx = call[w].idx
  BY <1>2 DEF Call
<1> HIDE DEF l
<1>4. KeepLocal(V, "upstream", l)
  BY <1>2, <1>3 DEF KeepLocal, Chosen
<1> QED BY <1>1, <1>4, MoveKeeps

-----------------------------------------------------------------------------
(***************************************************************************)
(* The answer and what becomes of it.                                      *)
(***************************************************************************)
LEMMA OriginKeeps ==
    ASSUME NEW V, KeepsVary(V), TypeInv, NEW req \in Requests, NEW reply \in Replies,
           NEW start
    PROVE  AnswerKeeps(V, OriginResponse(req, reply, start), req)
<1> DEFINE r == OriginResponse(req, reply, start)
           b == ToSecond(now - reply.up)
<1>1. r.code = reply.code /\ r.hdr.vary = reply.vary /\ r.hdr.cc = reply.cc
      /\ r.hdr.expires = IF reply.expiresIn \in {Absent, Bare} THEN reply.expiresIn
                         ELSE b + reply.expiresIn
  BY DEF OriginResponse, OriginHeader
<1>2. b \in Int /\ reply.expiresIn \in Int \cup {Absent, Bare}
  <2>1. now - reply.up \in Int
    BY RepliesAssumption DEF TypeInv, StateOK
  <2>2. b \in Int
    BY <2>1, ToSecondBounds
  <2>3. reply.expiresIn \in Int \cup {Absent, Bare}
    BY RepliesAssumption
  <2> QED BY <2>2, <2>3
<1> HIDE DEF r, b
<1>3. r.hdr.expires = Absent <=> reply.expiresIn = Absent
  BY <1>1, <1>2, SentinelAssumption
<1>4. CanStoreResponse(r.code, r.hdr, req.cc) <=> Storable(reply, req.cc)
  BY <1>1, <1>3 DEF CanStoreResponse, Storable, ResponseDirectives
<1>5. AnswerKeeps(V, r, req)
  BY <1>1, <1>4 DEF KeepsVary, AnswerKeeps
<1> QED BY <1>5 DEF r

LEMMA OriginReplyKeeps ==
    ASSUME NEW V, KeepsVary(V), TypeInv, KeepInv(V), NEW p \in Procs, OriginReply(p)
    PROVE  KeepInv(V)'
<1>1. PICK reply \in Replies :
        /\ reply.code = 304 => call[p].cond = ver[call[p].req.url]
        /\ Goto(p, "reply", [call[p] EXCEPT
                               !.resp = OriginResponse(call[p].req, reply, call[p].start),
                               !.effect = Bumped(Changed(call[p].req, reply))])
  BY DEF OriginReply
<1> DEFINE r == OriginResponse(call[p].req, reply, call[p].start)
           e == Bumped(Changed(call[p].req, reply))
           l == [call[p] EXCEPT !.resp = r, !.effect = e]
<1>2. pc[p] = "upstream" /\ UNCHANGED cache /\ Goto(p, "reply", l)
  BY <1>1 DEF OriginReply
<1>3. KeepLocal(V, "upstream", call[p]) /\ LocalsOK(p, "upstream", call[p])
  BY <1>2 DEF KeepInv, TypeInv, ProcsOK
<1>4. call[p] \in Call /\ call[p].req \in Requests /\ call[p].req.url \in Urls
  BY <1>3, RequestType DEF LocalsOK
<1>5. AnswerKeeps(V, r, call[p].req)
  BY <1>4, OriginKeeps
<1>6. r.code = reply.code
  BY DEF OriginResponse
<1> HIDE DEF r, e
<1>7. /\ l.req = call[p].req /\ l.stored = call[p].stored /\ l.cond = call[p].cond
      /\ l.refs = call[p].refs /\ l.idx = call[p].idx /\ l.resp = r
  BY <1>4 DEF Call
<1> HIDE DEF l
<1>8. l.stored = Absent => l.resp.code # 304
  <2> SUFFICES ASSUME l.stored = Absent, reply.code = 304 PROVE FALSE
    BY <1>6, <1>7
  <2>1. call[p].cond = Absent
    BY <1>3, <1>7 DEF KeepLocal
  <2>2. ver[call[p].req.url] \in Nat
    BY <1>4 DEF TypeInv, StateOK
  <2> QED BY <1>1, <2>1, <2>2, SentinelAssumption
<1>9. KeepLocal(V, "reply", l)
  BY <1>3, <1>5, <1>7, <1>8 DEF KeepLocal, Chosen
<1> QED BY <1>2, <1>9, MoveKeeps

\* Calls that end and leave the cache alone.
LEMMA EndedKeeps ==
    ASSUME NEW V, TypeInv, KeepInv(V), NEW p \in Procs,
           UpstreamFail(p) \/ Return(p) \/ ReceiveLate(p) \/ ReceiveError(p)
    PROVE  KeepInv(V)'
<1>1. UNCHANGED cache /\ ((\E l : Finish(p, l)) \/ Goto(p, "idle", NoCall))
  BY DEF UpstreamFail, Return, ReceiveLate, ReceiveError
<1> QED BY <1>1, FinishKeeps, MoveKeeps, EndKeeps

\* The Date that is added to an answer has no part in whether it is stored.
LEMMA ReceivedKeeps ==
    ASSUME NEW V, TypeInv, KeepInv(V), NEW p \in Procs, pc[p] = "reply"
    PROVE  /\ call[p] \in Call
           /\ IndexKeeps(V, call[p].req.url, call[p].refs) /\ Chosen(call[p])
           /\ Received(p).code = call[p].resp.code
           /\ call[p].stored # Absent => call[p].stored.hdr.vary = V
           /\ call[p].stored = Absent => call[p].resp.code # 304
           /\ call[p].resp.code = 304 => Received(p).hdr.vary \in {V, {}}
           /\ call[p].resp.code # 304
              /\ CanStoreResponse(call[p].resp.code, Received(p).hdr, call[p].req.cc)
              => Received(p).hdr.vary = V
<1> DEFINE a == call[p].resp
<1>1. call[p] \in Call /\ a \in RawResponse /\ KeepLocal(V, "reply", call[p])
  BY ReplyType DEF KeepInv
<1>2. Received(p).code = a.code /\ Received(p).hdr = FixDateHeader(a.hdr, now)
  BY <1>1 DEF Received, RawResponse, ResponseWith
<1>3. a.hdr \in RawHeader
  BY <1>1 DEF RawResponse, ResponseWith
<1>4. /\ Received(p).hdr.vary = a.hdr.vary /\ Received(p).hdr.cc = a.hdr.cc
      /\ Received(p).hdr.expires = a.hdr.expires
  BY <1>2, <1>3 DEF FixDateHeader, RawHeader
<1>5. CanStoreResponse(a.code, Received(p).hdr, call[p].req.cc)
        <=> CanStoreResponse(a.code, a.hdr, call[p].req.cc)
  BY <1>4 DEF CanStoreResponse, ResponseDirectives
<1>6. AnswerKeeps(V, a, call[p].req)
  BY <1>1 DEF KeepLocal
<1> QED BY <1>1, <1>2, <1>4, <1>5, <1>6 DEF KeepLocal, AnswerKeeps

LEMMA ReceiveBypassKeeps ==
    ASSUME NEW V, TypeInv, KeepInv(V), NEW c \in Clients, ReceiveBypass(c)
    PROVE  KeepInv(V)'
<1> DEFINE r == [call[c].resp EXCEPT !.respAt = now]
           l == [call[c] EXCEPT !.resp = r, !.status = "BYPASS"]
           m == [l EXCEPT !.plan = InvalidationPlan(call[c].req, r)]
<1>1. /\ c \in Procs /\ pc[c] = "reply" /\ UNCHANGED cache
      /\ Goto(c, "invalidate", m) \/ Finish(c, l)
  BY DEF ReceiveBypass, Procs
<1>2. call[c] \in Call /\ IndexKeeps(V, call[c].req.url, call[c].refs) /\ Chosen(call[c])
  BY <1>1, ReceivedKeeps
<1>3. m.refs = call[c].refs /\ m.idx = call[c].idx /\ m.req = call[c].req
  BY <1>2 DEF Call
<1> HIDE DEF l, m
<1>4. KeepLocal(V, "invalidate", m)
  BY <1>2, <1>3 DEF KeepLocal, Chosen
<1> QED BY <1>1, <1>4, MoveKeeps, FinishKeeps

LEMMA ReceiveFullKeeps ==
    ASSUME NEW V, TypeInv, KeepInv(V), NEW p \in Procs,
           (p \in Clients /\ ReceiveMiss(p)) \/ ReceiveFull(p)
    PROVE  KeepInv(V)'
<1> DEFINE l == [call[p] EXCEPT !.resp = Received(p), !.status = "MISS"]
           m == [call[p] EXCEPT !.resp = Received(p), !.status = "BYPASS"]
<1>1. pc[p] = "reply" /\ UNCHANGED cache
  BY DEF ReceiveMiss, ReceiveFull, IsValidation
<1>2. /\ call[p] \in Call /\ IndexKeeps(V, call[p].req.url, call[p].refs)
      /\ Chosen(call[p]) /\ Received(p).code = call[p].resp.code
  BY <1>1, ReceivedKeeps
<1>3. \/ Finish(p, l) \/ Finish(p, m)
      \/ /\ Goto(p, "set", l)
         /\ CanStoreResponse(call[p].resp.code, Received(p).hdr, call[p].req.cc)
         /\ call[p].stored = Absent \/ call[p].resp.code # 304
  BY <1>2 DEF ReceiveMiss, ReceiveFull
<1>4. ASSUME Goto(p, "set", l), ~ Finish(p, l), ~ Finish(p, m) PROVE KeepInv(V)'
  <2>1. Received(p).hdr.vary = V
    BY <1>1, <1>3, <1>4, ReceivedKeeps
  <2>2. /\ l.refs = call[p].refs /\ l.idx = call[p].idx /\ l.req = call[p].req
        /\ l.resp = Received(p)
    BY <1>2 DEF Call
  <2> HIDE DEF l
  <2>3. KeepLocal(V, "set", l)
    BY <1>2, <2>1, <2>2 DEF KeepLocal, Chosen
  <2> QED BY <1>1, <1>4, <2>3, MoveKeeps
<1> QED BY <1>1, <1>3, <1>4, FinishKeeps

LEMMA ReceiveNotModifiedKeeps ==
    ASSUME NEW V, TypeInv, KeepInv(V), NEW p \in Procs, ReceiveNotModified(p)
    PROVE  KeepInv(V)'
<1> DEFINE l == [call[p] EXCEPT !.resp = Freshened(p), !.status = "REVALIDATED"]
<1>1. /\ IsValidation(p) /\ call[p].resp.code = 304 /\ Goto(p, "set", l) /\ UNCHANGED cache
      /\ pc[p] = "reply" /\ call[p].stored # Absent
  BY DEF ReceiveNotModified, IsValidation
<1>2. /\ call[p] \in Call /\ IndexKeeps(V, call[p].req.url, call[p].refs)
      /\ Chosen(call[p]) /\ call[p].stored.hdr.vary = V
      /\ Received(p).hdr.vary \in {V, {}}
  BY <1>1, ReceivedKeeps
<1>3. Freshened(p).hdr = MergeResponseHeaders(call[p].stored.hdr, Received(p).hdr)
  <2>1. call[p].stored \in Response
    BY <1>1, ValidationType
  <2> QED BY <2>1 DEF Freshened, Response, ResponseWith
<1>4. Freshened(p).hdr.vary = V
  BY <1>2, <1>3 DEF MergeResponseHeaders
<1>5. /\ l.refs = call[p].refs /\ l.idx = call[p].idx /\ l.req = call[p].req
      /\ l.resp = Freshened(p)
  BY <1>2 DEF Call
<1> HIDE DEF l
<1>6. KeepLocal(V, "set", l)
  BY <1>2, <1>4, <1>5 DEF KeepLocal, Chosen
<1> QED BY <1>1, <1>6, MoveKeeps

-----------------------------------------------------------------------------
(***************************************************************************)
(* StoreResponse and InvalidateCache.                                      *)
(***************************************************************************)
LEMMA StoreKeeps ==
    ASSUME NEW V \in SUBSET Fields, KeepsVary(V), TypeInv, KeepInv(V), NEW p \in Procs,
           pc[p] \in {"set", "setrefs"}
    PROVE  /\ call[p] \in Call /\ call[p].req.url \in Urls
           /\ KeepLocal(V, "setrefs", call[p]) /\ Marshalled(p).hdr.vary = V
           /\ IndexKeeps(V, call[p].req.url, call[p].refs) /\ Chosen(call[p])
           /\ RefKeeps(V, call[p].req.url, NewRef(p))
           /\ VaryHeadersMatchOne(NewRef(p), call[p].req.hdr)
           /\ IndexKeeps(V, call[p].req.url,
                         UpdateRefs(call[p].refs, call[p].idx, NewRef(p)))
<1> DEFINE c == call[p]
           u == call[p].req.url
<1>1. /\ c \in Call /\ c.req \in Requests /\ u \in Urls /\ NewRef(p) \in Ref
      /\ c.resp \in Response
  BY StoreType
<1>2. KeepLocal(V, "set", c) \/ KeepLocal(V, "setrefs", c)
  BY DEF KeepInv
<1>3. IndexKeeps(V, u, c.refs) /\ Chosen(c) /\ c.resp.hdr.vary = V
  BY <1>2 DEF KeepLocal
<1>4. Marshalled(p).hdr = c.resp.hdr
  BY <1>1 DEF Marshalled, Response, ResponseWith
<1>5. RefKeeps(V, u, NewRef(p)) /\ VaryHeadersMatchOne(NewRef(p), c.req.hdr)
  BY <1>1, <1>3, NewRefKeeps, RequestType DEF NewRef, KeepsVary
<1>6. c.refs \in Seq(Ref) /\ c.idx \in Nat
  BY <1>1 DEF Call
<1>7. IndexKeeps(V, u, UpdateRefs(c.refs, c.idx, NewRef(p)))
  BY <1>1, <1>3, <1>5, <1>6, UpdateKeeps DEF KeepsVary
<1>8. KeepLocal(V, "setrefs", c)
  BY <1>3 DEF KeepLocal
<1> QED BY <1>1, <1>3, <1>4, <1>5, <1>7, <1>8

LEMMA SetKeeps ==
    ASSUME NEW V \in SUBSET Fields, KeepsVary(V), TypeInv, KeepInv(V), NEW p \in Procs,
           SetEntry(p) \/ SetEntryFails(p)
    PROVE  KeepInv(V)'
<1>1. /\ pc[p] = "set" /\ Goto(p, "setrefs", call[p]) /\ refs' = refs
      /\ \/ entries' = [entries EXCEPT ![NewRef(p).id] = Marshalled(p)]
         \/ entries' = entries
  BY DEF SetEntry, SetEntryFails, cache
<1>2. \A id \in Ids : entries'[id] = Marshalled(p) \/ entries'[id] = entries[id]
  BY <1>1 DEF TypeInv, StateOK
<1>3. \A id \in Ids : entries'[id] # Absent => entries'[id].hdr.vary = V
  BY <1>1, <1>2, StoreKeeps DEF KeepInv
<1>4. \A q \in Procs : KeepLocal(V, pc'[q], call'[q])
  BY <1>1, StoreKeeps, MoveKeeps
<1> QED BY <1>1, <1>3, <1>4 DEF KeepInv

LEMMA SetRefsKeeps ==
    ASSUME NEW V \in SUBSET Fields, KeepsVary(V), TypeInv, KeepInv(V), NEW p \in Procs,
           SetRefs(p)
    PROVE  KeepInv(V)'
<1> DEFINE s == UpdateRefs(call[p].refs, call[p].idx, NewRef(p))
<1>1. /\ pc[p] = "setrefs" /\ Finish(p, call[p]) /\ entries' = entries
      /\ refs' = [refs EXCEPT ![call[p].req.url] = s] \/ UNCHANGED refs
  BY DEF SetRefs
<1>2. IndexKeeps(V, call[p].req.url, s)
  BY <1>1, StoreKeeps
<1> HIDE DEF s
<1>3. \A u \in Urls : IndexKeeps(V, u, refs'[u])
  BY <1>1, <1>2 DEF KeepInv, TypeInv, StateOK
<1>4. \A q \in Procs : KeepLocal(V, pc'[q], call'[q])
  BY <1>1, FinishKeeps
<1> QED BY <1>1, <1>3, <1>4 DEF KeepInv

LEMMA InvalidateKeeps ==
    ASSUME NEW V, TypeInv, KeepInv(V), NEW c \in Clients,
           \/ InvalidateGetRefs(c) \/ InvalidateSkip(c)
           \/ InvalidateEntry(c) \/ InvalidateKey(c)
    PROVE  KeepInv(V)'
<1>1. PICK op : IsInvalidating(c, op)
  BY DEF InvalidateGetRefs, InvalidateSkip, InvalidateEntry, InvalidateKey
<1>2. /\ c \in Procs /\ pc[c] = "invalidate" /\ call[c] \in Call
      /\ KeepLocal(V, "invalidate", call[c])
  BY <1>1, PlanStep DEF KeepInv
<1>3. ASSUME NEW l, l.refs = call[c].refs, l.req = call[c].req, l.idx = call[c].idx
      PROVE  KeepLocal(V, "invalidate", l)
  BY <1>2, <1>3 DEF KeepLocal, Chosen
<1>4. ASSUME NEW ops, Goto(c, "invalidate", [call[c] EXCEPT !.plan = ops])
      PROVE  \A q \in Procs : KeepLocal(V, pc'[q], call'[q])
  <2> DEFINE l == [call[c] EXCEPT !.plan = ops]
  <2>1. l.refs = call[c].refs /\ l.req = call[c].req /\ l.idx = call[c].idx
    BY <1>2 DEF Call
  <2>2. Goto(c, "invalidate", l)
    BY <1>4
  <2> HIDE DEF l
  <2> QED BY <1>2, <1>3, <2>1, <2>2, MoveKeeps
<1>5. ASSUME Advance(c) PROVE \A q \in Procs : KeepLocal(V, pc'[q], call'[q])
  <2> DEFINE l == [call[c] EXCEPT !.plan = Tail(@), !.gone = @ \cup {NextOp(c)}]
  <2>1. l.refs = call[c].refs /\ l.req = call[c].req /\ l.idx = call[c].idx
    BY <1>2 DEF Call
  <2>2. Goto(c, "invalidate", l) \/ Finish(c, l)
    BY <1>5 DEF Advance
  <2> HIDE DEF l
  <2> QED BY <1>2, <1>3, <2>1, <2>2, MoveKeeps, FinishKeeps
<1>6. \A q \in Procs : KeepLocal(V, pc'[q], call'[q])
  <2>1. Advance(c) \/ \E ops : Goto(c, "invalidate", [call[c] EXCEPT !.plan = ops])
    BY DEF InvalidateGetRefs, InvalidateSkip, InvalidateEntry, InvalidateKey
  <2> QED BY <1>4, <1>5, <2>1
<1>7. \A id \in Ids : entries'[id] = Absent \/ entries'[id] = entries[id]
  BY DEF InvalidateGetRefs, InvalidateSkip, InvalidateEntry, InvalidateKey, cache,
         TypeInv, StateOK
<1>8. \A u \in Urls : refs'[u] = <<>> \/ refs'[u] = refs[u]
  BY DEF InvalidateGetRefs, InvalidateSkip, InvalidateEntry, InvalidateKey, cache,
         TypeInv, StateOK
<1>9. \A u \in Urls : IndexKeeps(V, u, refs'[u])
  BY <1>8, EmptyKeeps DEF KeepInv
<1> QED BY <1>6, <1>7, <1>9 DEF KeepInv

LEMMA KeepStep ==
    ASSUME NEW V \in SUBSET Fields, KeepsVary(V), TypeInv, KeepInv(V), [Next]_vars
    PROVE  KeepInv(V)'
<1>1. ASSUME NEW p \in Procs, ProcStep(p) PROVE KeepInv(V)'
  BY <1>1, OriginReplyKeeps, EndedKeeps, ReceiveNotModifiedKeeps, ReceiveFullKeeps,
     SetKeeps, SetRefsKeeps DEF ProcStep
<1>2. ASSUME NEW c \in Clients, Start(c) \/ Return(c) \/ ClientStep(c) PROVE KeepInv(V)'
  BY <1>1, <1>2, StartKeeps, EndedKeeps, LookupMissKeeps, LookupValidateKeeps,
     LookupStaleKeeps, ReceiveBypassKeeps, ReceiveFullKeeps, InvalidateKeeps
     DEF ClientStep, Procs
<1>3. ASSUME NEW w \in Workers, WorkerStep(w) PROVE KeepInv(V)'
  BY <1>1, <1>3, BackgroundSendKeeps, EndedKeeps DEF WorkerStep, Procs
<1>4. ASSUME UNCHANGED <<cache, pc, call>> PROVE KeepInv(V)'
  BY <1>4 DEF KeepInv, cache
<1>5. ASSUME \/ \E w \in Workers : ContextDone(w) \/ ReadBody(w) \/ CloseBody(w)
             \/ \E u \in Urls : OriginUpdate(u)
             \/ Tick
             \/ UNCHANGED vars
      PROVE  KeepInv(V)'
  BY <1>4, <1>5 DEF ContextDone, ReadBody, CloseBody, OriginUpdate, Tick, vars, cache
<1> QED BY <1>2, <1>3, <1>5 DEF Next, Quiescent

(***************************************************************************)
(* As long as what is stored keeps its Vary, StoreResponse never indexes a *)
(* variant twice: not when goroutines write back indexes that they read    *)
(* long before, not when reads and writes of index or responses fail, and  *)
(* not when a background revalidation starts an index anew.                *)
(***************************************************************************)
THEOREM IndexSoundOnce ==
    ASSUME NEW V \in SUBSET Fields, KeepsVary(V)
    PROVE  Spec => []IndexedOnce
<1>1. Init => TypeInv /\ KeepInv(V)
  BY TypeInit, KeepInit
<1>2. TypeInv /\ KeepInv(V) /\ [Next]_vars => (TypeInv /\ KeepInv(V))'
  BY TypeStep, KeepStep
<1>3. KeepInv(V) => IndexedOnce
  BY DEF KeepInv, IndexKeeps, Distinct, IndexedOnce
<1> QED BY <1>1, <1>2, <1>3, PTL DEF Spec
-----------------------------------------------------------------------------
(***************************************************************************)
(* No stored response is lost to the index when one caller makes all the   *)
(* calls, none of them starts a background revalidation, and operations on *)
(* the index and deletions succeed.                                        *)
(***************************************************************************)
OneByOne ==
    /\ \E c : Clients = {c}
    /\ Workers = {}
    /\ Faults \cap {"getRefs", "setRefs", "delete"} = {}

\* Whether an index, or that of the URL of a response, leads to the response.
HasRef(index, id) == \E i \in 1 .. Len(index) : index[i].id = id
Indexed(rs, id) == HasRef(rs[id.url], id)

\* The copy of the index that a call carries has all that the index has.
Carries(rs, c) ==
    \A i \in 1 .. Len(rs[c.req.url]) : HasRef(c.refs, rs[c.req.url][i].id)

\* An operation that deletes the response or reads the index it is in.
Deletes(op, id) == \/ op.op = "refs" /\ op.url = id.url
                   \/ op.op = "id" /\ op.id = id

\* The response is deleted by the operations of plan before operation k.
DeletedFirst(plan, k, id) == \E j \in 1 .. (k - 1) : Deletes(plan[j], id)

DeletesFirst(plan, es) ==
    \A k \in 1 .. Len(plan), id \in Ids :
        plan[k].op = "key" /\ plan[k].url = id.url /\ es[id] # Absent
        => DeletedFirst(plan, k, id)

IsGone(gone, es) == \A op \in gone : op.op = "id" /\ op.id \in Ids => es[op.id] = Absent

(***************************************************************************)
(* The inductive invariant, with the cache as parameters rs and es: at     *)
(* most the response that is being stored is not indexed yet, and what an  *)
(* invalidation still has to delete goes before the index that leads there.*)
(***************************************************************************)
CoverLocal(where, c, rs, es) ==
    /\ \A id \in Ids : es[id] # Absent
         => \/ Indexed(rs, id)
            \/ where = "setrefs" /\ id = MakeRef(c.req.url, c.resp.hdr, c.req.hdr).id
    /\ where \in {"lookup", "upstream", "reply", "set", "setrefs"}
       /\ IsRequestMethodUnderstood(c.req) => Carries(rs, c)
    /\ where \in {"lookup", "upstream", "reply"} => c.gone = {}
    /\ where = "invalidate" => DeletesFirst(c.plan, es) /\ IsGone(c.gone, es)

CoverInv == \A p \in Procs : CoverLocal(pc[p], call[p], refs, entries)

LEMMA CoverInit == Init => CoverInv
BY DEF Init, CoverInv, CoverLocal

\* The one goroutine moves on.
LEMMA MoveCovers ==
    ASSUME OneByOne, TypeInv, NEW p \in Procs, NEW where, NEW c,
           Goto(p, where, c), CoverLocal(where, c, refs', entries')
    PROVE  CoverInv'
<1>1. \A q \in Procs : q = p
  BY DEF OneByOne, Procs
<1>2. pc'[p] = where /\ call'[p] = c
  BY DEF Goto, TypeInv, ProcsOK
<1>3. CoverLocal(pc'[p], call'[p], refs', entries')
  BY <1>2
<1>4. \A q \in Procs : CoverLocal(pc'[q], call'[q], refs', entries')
  BY <1>1, <1>3
<1> QED BY <1>4 DEF CoverInv

LEMMA FinishCovers ==
    ASSUME OneByOne, TypeInv, NEW p \in Procs, NEW c, Finish(p, c),
           \A id \in Ids : entries'[id] # Absent => Indexed(refs', id)
    PROVE  CoverInv'
<1>1. Goto(p, "done", c)
  BY DEF Finish, OneByOne
<1>2. CoverLocal("done", c, refs', entries')
  BY DEF CoverLocal
<1> QED BY <1>1, <1>2, MoveCovers

\* All is indexed but while a response is being stored.
LEMMA AllIndexed ==
    ASSUME CoverInv, NEW p \in Procs, pc[p] # "setrefs"
    PROVE  \A id \in Ids : entries[id] # Absent => Indexed(refs, id)
BY DEF CoverInv, CoverLocal

\* A call goes on with what it carries.
LEMMA OnCovers ==
    ASSUME OneByOne, TypeInv, CoverInv, NEW p \in Procs, UNCHANGED cache,
           pc[p] \in {"lookup", "upstream", "reply"},
           NEW where \in {"upstream", "reply", "set"}, NEW l, Goto(p, where, l),
           l.req = call[p].req, l.refs = call[p].refs, l.gone = call[p].gone
    PROVE  CoverInv'
<1>1. refs' = refs /\ entries' = entries
  BY DEF cache
<1>2. /\ \A id \in Ids : entries[id] # Absent => Indexed(refs, id)
      /\ IsRequestMethodUnderstood(call[p].req) => Carries(refs, call[p])
      /\ call[p].gone = {}
  BY DEF CoverInv, CoverLocal
<1>3. CoverLocal(where, l, refs', entries')
  BY <1>1, <1>2 DEF CoverLocal, Carries
<1> QED BY <1>3, MoveCovers

LEMMA EndCovers ==
    ASSUME OneByOne, TypeInv, CoverInv, NEW p \in Procs, UNCHANGED cache, pc[p] # "setrefs",
           NEW l, Finish(p, l) \/ Goto(p, "idle", l)
    PROVE  CoverInv'
<1>1. refs' = refs /\ entries' = entries
  BY DEF cache
<1>2. \A id \in Ids : entries'[id] # Absent => Indexed(refs', id)
  BY <1>1, AllIndexed
<1>3. CoverLocal("idle", l, refs', entries')
  BY <1>2 DEF CoverLocal
<1> QED BY <1>2, <1>3, FinishCovers, MoveCovers

\* A sorted index has every reference of the index.
LEMMA SortCovers ==
    ASSUME NEW s \in Seq(Ref), NEW t \in SortedRefs(s), NEW i \in 1 .. Len(s)
    PROVE  \E j \in 1 .. Len(t) : t[j] = s[i]
<1> DEFINE S == 1 .. Len(s)
<1>1. PICK f \in Reorderings(Len(s)) : t = [j \in S |-> s[f[j]]]
  BY DEF SortedRefs
<1>2. f \in Injection(S, S)
  BY <1>1 DEF Reorderings, Injection, IsInjective
<1>3. Len(s) \in Nat
  OBVIOUS
<1>4. IsFiniteSet(S)
  BY <1>3, FS_Interval
<1>5. f \in Surjection(S, S)
  BY <1>2, <1>4, FS_Injection
<1>6. PICK j \in S : f[j] = i
  BY <1>5 DEF Surjection
<1>7. Len(t) = Len(s)
  BY SortedRefsType
<1> QED BY <1>1, <1>6, <1>7
-----------------------------------------------------------------------------
(***************************************************************************)
(* RoundTrip up to StoreResponse: the call carries the index that it read, *)
(* and nobody changes that index meanwhile.                                *)
(***************************************************************************)
LEMMA MissCovers ==
    ASSUME OneByOne, TypeInv, CoverInv, NEW c \in Clients, pc[c] # "setrefs",
           NEW l \in Call, HandleCacheMiss(c, l), UNCHANGED cache,
           Carries(refs, l), l.gone = {}
    PROVE  CoverInv'
<1> DEFINE m == [l EXCEPT !.start = now, !.cond = OwnPrecondition(l.req)]
           n == [l EXCEPT !.status = "TIMEOUT504"]
<1>1. c \in Procs /\ refs' = refs /\ entries' = entries
  BY DEF Procs, cache
<1>2. Finish(c, n) \/ Goto(c, "upstream", m)
  BY DEF HandleCacheMiss
<1>3. m.req = l.req /\ m.refs = l.refs /\ m.gone = l.gone
  BY DEF Call
<1> HIDE DEF m, n
<1>4. \A id \in Ids : entries'[id] # Absent => Indexed(refs', id)
  BY <1>1, AllIndexed
<1>5. CoverLocal("upstream", m, refs', entries')
  BY <1>1, <1>3, <1>4 DEF CoverLocal, Carries
<1> QED BY <1>1, <1>2, <1>4, <1>5, MoveCovers, FinishCovers

LEMMA StartCovers ==
    ASSUME OneByOne, TypeInv, CoverInv, NEW c \in Clients, Start(c)
    PROVE  CoverInv'
<1>1. c \in Procs /\ UNCHANGED cache /\ refs' = refs /\ entries' = entries /\ pc[c] # "setrefs"
  BY DEF Start, Procs, cache
<1>2. PICK req \in Requests : StartBypass(c, req) \/ StartNoRefs(c, req) \/ StartMatch(c, req)
  BY DEF Start
<1>3. NoCall \in Call /\ NoCall.refs = <<>> /\ NoCall.gone = {}
  BY DEF NoCall, Call, Statuses
<1>4. \A id \in Ids : entries'[id] # Absent => Indexed(refs', id)
  BY <1>1, AllIndexed
<1>5. req.url \in Urls /\ refs[req.url] \in Seq(Ref)
  BY RequestType DEF TypeInv, StateOK
<1>6. ASSUME StartBypass(c, req) PROVE CoverInv'
  <2> DEFINE l == [NoCall EXCEPT !.req = req, !.start = now, !.cond = OwnPrecondition(req)]
  <2>1. l.req = req /\ l.gone = {}
    BY <1>3 DEF Call
  <2>2. Goto(c, "upstream", l) /\ ~ IsRequestMethodUnderstood(req)
    BY <1>6 DEF StartBypass
  <2> HIDE DEF l
  <2>3. CoverLocal("upstream", l, refs', entries')
    BY <1>4, <2>1, <2>2 DEF CoverLocal
  <2> QED BY <1>1, <2>2, <2>3, MoveCovers
<1>7. ASSUME StartNoRefs(c, req) PROVE CoverInv'
  <2> DEFINE l == [NoCall EXCEPT !.req = req]
  <2>1. l \in Call /\ l.refs = <<>> /\ l.gone = {} /\ l.req = req
    BY <1>3 DEF Call
  <2>2. HandleCacheMiss(c, l) /\ refs[req.url] = <<>>
    BY <1>7 DEF StartNoRefs, OneByOne
  <2> HIDE DEF l
  <2>3. Carries(refs, l)
    BY <2>1, <2>2 DEF Carries
  <2> QED BY <1>1, <2>1, <2>2, <2>3, MissCovers
<1>8. ASSUME StartMatch(c, req) PROVE CoverInv'
  <2>1. PICK sorted \in SortedRefs(refs[req.url]), k \in 0 .. Len(refs[req.url]) :
          LET locals == [NoCall EXCEPT !.req = req, !.refs = sorted, !.idx = k]
          IN  IF k = 0 THEN HandleCacheMiss(c, locals) ELSE Goto(c, "lookup", locals)
    BY <1>8 DEF StartMatch
  <2> DEFINE l == [NoCall EXCEPT !.req = req, !.refs = sorted, !.idx = k]
             s == refs[req.url]
  <2>2. s \in Seq(Ref) /\ sorted \in SortedRefs(s) /\ k \in 0 .. Len(s)
    BY <1>5, <2>1
  <2> HIDE DEF s
  <2>3. sorted \in Seq(Ref) /\ k \in Nat
    BY <2>2, SortedRefsType
  <2>4. l \in Call /\ l.req = req /\ l.refs = sorted /\ l.gone = {}
    BY <1>3, <2>3 DEF Call
  <2>5. HandleCacheMiss(c, l) \/ Goto(c, "lookup", l)
    BY <2>1
  <2> HIDE DEF l
  <2>6. \A i \in 1 .. Len(s) : \E j \in 1 .. Len(sorted) : sorted[j] = s[i]
    BY <2>2, SortCovers
  <2>7. Carries(refs, l)
    BY <2>4, <2>6 DEF Carries, HasRef, s
  <2>8. CoverLocal("lookup", l, refs', entries')
    BY <1>1, <1>4, <2>4, <2>7 DEF CoverLocal
  <2> QED BY <1>1, <2>4, <2>5, <2>7, <2>8, MissCovers, MoveCovers
<1> QED BY <1>2, <1>6, <1>7, <1>8

LEMMA LookupCovers ==
    ASSUME OneByOne, TypeInv, CoverInv, NEW c \in Clients,
           LookupMiss(c) \/ LookupServe(c) \/ LookupValidate(c)
    PROVE  CoverInv'
<1> DEFINE v == Validator(call[c].req, Selected(c))
           l == [WithStored(c) EXCEPT !.start = now, !.cond = v]
           n == [WithStored(c) EXCEPT !.resp = FromCache(Selected(c), Verdict(c)),
                                      !.status = "HIT"]
<1>1. /\ UNCHANGED cache /\ pc[c] = "lookup" /\ c \in Procs
      /\ HandleCacheMiss(c, call[c]) \/ Finish(c, n) \/ Goto(c, "upstream", l)
  BY DEF LookupMiss, LookupServe, LookupValidate, IsHit, Procs
<1>2. LocalsOK(c, "lookup", call[c]) /\ CoverLocal("lookup", call[c], refs, entries)
  BY <1>1 DEF TypeInv, ProcsOK, CoverInv
<1>3. /\ call[c] \in Call /\ IsRequestMethodUnderstood(call[c].req)
      /\ Carries(refs, call[c]) /\ call[c].gone = {}
  BY <1>2 DEF LocalsOK, CoverLocal
<1>4. l.req = call[c].req /\ l.refs = call[c].refs /\ l.gone = call[c].gone
  BY <1>3 DEF WithStored, Call
<1> HIDE DEF l, n
<1> QED BY <1>1, <1>3, <1>4, MissCovers, EndCovers, OnCovers

LEMMA OriginReplyCovers ==
    ASSUME OneByOne, TypeInv, CoverInv, NEW p \in Procs, OriginReply(p)
    PROVE  CoverInv'
<1>1. pc[p] = "upstream" /\ UNCHANGED cache /\ call[p] \in Call
  BY DEF OriginReply, TypeInv, ProcsOK
<1>2. PICK reply \in Replies :
        Goto(p, "reply", [call[p] EXCEPT
                            !.resp = OriginResponse(call[p].req, reply, call[p].start),
                            !.effect = Bumped(Changed(call[p].req, reply))])
  BY DEF OriginReply
<1> DEFINE r == OriginResponse(call[p].req, reply, call[p].start)
           e == Bumped(Changed(call[p].req, reply))
           l == [call[p] EXCEPT !.resp = r, !.effect = e]
<1>3. Goto(p, "reply", l)
  BY <1>2
<1> HIDE DEF r, e
<1>4. l.req = call[p].req /\ l.refs = call[p].refs /\ l.gone = call[p].gone
  BY <1>1 DEF Call
<1> HIDE DEF l
<1> QED BY <1>1, <1>3, <1>4, OnCovers

LEMMA ReceiveCovers ==
    ASSUME OneByOne, TypeInv, CoverInv, NEW p \in Procs,
           ReceiveMiss(p) \/ ReceiveFull(p) \/ ReceiveNotModified(p)
    PROVE  CoverInv'
<1> DEFINE l(r, st) == [call[p] EXCEPT !.resp = r, !.status = st]
<1>1. pc[p] = "reply" /\ UNCHANGED cache /\ call[p] \in Call
  BY DEF ReceiveMiss, ReceiveFull, ReceiveNotModified, IsValidation, TypeInv, ProcsOK
<1>2. PICK r, st : Goto(p, "set", l(r, st)) \/ Finish(p, l(r, st))
  BY DEF ReceiveMiss, ReceiveFull, ReceiveNotModified
<1> DEFINE m == l(r, st)
<1>3. m.req = call[p].req /\ m.refs = call[p].refs /\ m.gone = call[p].gone
  BY <1>1 DEF Call
<1>4. Goto(p, "set", m) \/ Finish(p, m)
  BY <1>2
<1> HIDE DEF m
<1> QED BY <1>1, <1>3, <1>4, OnCovers, EndCovers

LEMMA EndedCovers ==
    ASSUME OneByOne, TypeInv, CoverInv, NEW p \in Procs,
           UpstreamFail(p) \/ Return(p) \/ ReceiveError(p)
    PROVE  CoverInv'
<1>1. /\ UNCHANGED cache /\ pc[p] # "setrefs"
      /\ (\E l : Finish(p, l)) \/ Goto(p, "idle", NoCall)
  BY DEF UpstreamFail, Return, ReceiveError, IsValidation
<1> QED BY <1>1, EndCovers
-----------------------------------------------------------------------------
(***************************************************************************)
(* StoreResponse.  The new reference takes the place of one for the same   *)
(* variant, or is added, so that the index leads to all it led to before.  *)
(***************************************************************************)
LEMMA UpdateCovers ==
    ASSUME NEW V \in SUBSET Fields, V # {Star}, NEW c, c.refs \in Seq(Ref), c.idx \in Nat,
           NEW u, IndexKeeps(V, u, c.refs), Chosen(c),
           NEW r \in Ref, RefKeeps(V, u, r), VaryHeadersMatchOne(r, c.req.hdr)
    PROVE  /\ HasRef(UpdateRefs(c.refs, c.idx, r), r.id)
           /\ \A id : HasRef(c.refs, id) => HasRef(UpdateRefs(c.refs, c.idx, r), id)
<1> DEFINE s == c.refs
           k == c.idx
           t == UpdateRefs(s, k, r)
<1>1. CASE k \in 1 .. Len(s)
  <2>1. Len(t) = Len(s) /\ \A i \in 1 .. Len(t) : t[i] = IF i = k THEN r ELSE s[i]
    BY <1>1 DEF UpdateRefs
  <2>2. VaryHeadersMatchOne(s[k], c.req.hdr) /\ s[k] \in Ref /\ RefKeeps(V, u, s[k])
    BY <1>1 DEF Chosen, IndexKeeps
  <2>3. s[k].id = r.id
    BY <2>2, OneVariant
  <2>4. \A i \in 1 .. Len(s) : i \in 1 .. Len(t) /\ t[i].id = s[i].id
    BY <2>1, <2>3
  <2> QED BY <1>1, <2>3, <2>4 DEF HasRef
<1>2. CASE k \notin 1 .. Len(s)
  <2>1. Len(t) = Len(s) + 1 /\ t[Len(s) + 1] = r /\ \A i \in 1 .. Len(s) : t[i] = s[i]
    BY <1>2 DEF UpdateRefs
  <2>2. Len(s) \in Nat
    OBVIOUS
  <2>3. Len(s) + 1 \in 1 .. Len(t) /\ \A i \in 1 .. Len(s) : i \in 1 .. Len(t)
    BY <2>1, <2>2
  <2> QED BY <2>1, <2>3 DEF HasRef
<1> QED BY <1>1, <1>2

LEMMA SetCovers ==
    ASSUME OneByOne, TypeInv, CoverInv, NEW p \in Procs, SetEntry(p) \/ SetEntryFails(p)
    PROVE  CoverInv'
<1>1. /\ pc[p] = "set" /\ Goto(p, "setrefs", call[p]) /\ refs' = refs
      /\ \/ entries' = [entries EXCEPT ![NewRef(p).id] = Marshalled(p)]
         \/ entries' = entries
  BY DEF SetEntry, SetEntryFails, cache
<1>2. CoverLocal("set", call[p], refs, entries)
  BY <1>1 DEF CoverInv
<1>3. \A id \in Ids : entries'[id] = entries[id] \/ id = NewRef(p).id
  BY <1>1 DEF TypeInv, StateOK
<1>4. CoverLocal("setrefs", call[p], refs', entries')
  BY <1>1, <1>2, <1>3 DEF CoverLocal, NewRef
<1> QED BY <1>1, <1>4, MoveCovers

LEMMA SetRefsCovers ==
    ASSUME NEW V \in SUBSET Fields, KeepsVary(V), OneByOne, TypeInv, KeepInv(V), CoverInv,
           NEW p \in Procs, SetRefs(p)
    PROVE  CoverInv'
<1> DEFINE c == call[p]
           u == call[p].req.url
           r == NewRef(p)
           t == UpdateRefs(call[p].refs, call[p].idx, NewRef(p))
<1>1. /\ pc[p] = "setrefs" /\ Finish(p, c) /\ entries' = entries
      /\ refs' = [refs EXCEPT ![u] = t]
  BY DEF SetRefs, OneByOne
<1>2. /\ c \in Call /\ u \in Urls /\ IndexKeeps(V, u, c.refs) /\ Chosen(c)
      /\ RefKeeps(V, u, r) /\ VaryHeadersMatchOne(r, c.req.hdr)
  BY <1>1, StoreKeeps
<1>3. r \in Ref /\ IsRequestMethodUnderstood(c.req) /\ r.id.url = u
  <2>1. r \in Ref
    BY <1>1, StoreType
  <2>2. LocalsOK(p, "setrefs", c)
    BY <1>1 DEF TypeInv, ProcsOK
  <2> QED BY <1>2, <2>1, <2>2 DEF LocalsOK, RefKeeps, VaryKey
<1>4. c.refs \in Seq(Ref) /\ c.idx \in Nat /\ V # {Star}
  BY <1>2 DEF Call, KeepsVary
<1>5. HasRef(t, r.id) /\ \A id : HasRef(c.refs, id) => HasRef(t, id)
  BY <1>2, <1>3, <1>4, UpdateCovers
<1>6. /\ \A id \in Ids : entries[id] # Absent => Indexed(refs, id) \/ id = r.id
      /\ Carries(refs, c)
  <2>1. CoverLocal("setrefs", c, refs, entries)
    BY <1>1 DEF CoverInv
  <2> QED BY <1>3, <2>1 DEF CoverLocal, NewRef
<1>7. refs'[u] = t /\ \A v \in Urls : v # u => refs'[v] = refs[v]
  BY <1>1, <1>2 DEF TypeInv, StateOK
<1> HIDE DEF c, u, r, t
<1>8. ASSUME NEW id \in Ids, entries[id] # Absent PROVE Indexed(refs', id)
  <2>1. id.url \in Urls
    BY DEF Ids
  <2>2. CASE id.url # u
    BY <1>3, <1>6, <1>7, <1>8, <2>1, <2>2 DEF Indexed
  <2>3. CASE id.url = u /\ id = r.id
    BY <1>5, <1>7, <2>3 DEF Indexed
  <2>4. CASE id.url = u /\ id # r.id
    <3>1. PICK i \in 1 .. Len(refs[u]) : refs[u][i].id = id
      BY <1>6, <1>8, <2>4 DEF Indexed, HasRef
    <3>2. HasRef(c.refs, id)
      BY <1>6, <3>1 DEF Carries, u, c
    <3> QED BY <1>5, <1>7, <2>4, <3>2 DEF Indexed
  <2> QED BY <2>2, <2>3, <2>4
<1> QED BY <1>1, <1>8, FinishCovers

-----------------------------------------------------------------------------
(***************************************************************************)
(* InvalidateCache.  Every index that it deletes was read before, and the  *)
(* responses that were in it deleted.                                      *)
(***************************************************************************)
Prepared(plan) ==
    \A k \in 1 .. Len(plan) : plan[k].op = "key"
      => \E j \in 1 .. (k - 1) : plan[j].op = "refs" /\ plan[j].url = plan[k].url

LEMMA ConcatAt ==
    ASSUME NEW s \in Seq(CacheOp), NEW t \in Seq(CacheOp)
    PROVE  /\ s \o t \in Seq(CacheOp) /\ Len(s) \in Nat /\ Len(t) \in Nat
           /\ Len(s \o t) = Len(s) + Len(t)
           /\ \A i \in 1 .. Len(s) : (s \o t)[i] = s[i]
           /\ \A i \in 1 .. Len(t) : (s \o t)[Len(s) + i] = t[i]
OBVIOUS

LEMMA ConcatPrepared ==
    ASSUME NEW s \in Seq(CacheOp), NEW t \in Seq(CacheOp), Prepared(s), Prepared(t)
    PROVE  Prepared(s \o t)
<1> DEFINE m == Len(s)
           n == Len(t)
           st == s \o t
<1>1. /\ m \in Nat /\ n \in Nat /\ Len(st) = m + n
      /\ \A i \in 1 .. m : st[i] = s[i]
      /\ \A i \in 1 .. n : st[m + i] = t[i]
  OBVIOUS
<1> HIDE DEF m, n, st
<1> SUFFICES ASSUME NEW k \in 1 .. Len(st), st[k].op = "key"
             PROVE  \E j \in 1 .. (k - 1) : st[j].op = "refs" /\ st[j].url = st[k].url
  BY DEF Prepared, st
<1>2. CASE k \in 1 .. m
  <2>1. PICK j \in 1 .. (k - 1) : s[j].op = "refs" /\ s[j].url = s[k].url
    BY <1>1, <1>2 DEF Prepared, m
  <2> QED BY <1>1, <1>2, <2>1
<1>3. CASE k \notin 1 .. m
  <2>1. PICK i \in 1 .. n : k = m + i
    <3>1. k - m \in 1 .. n /\ k = m + (k - m)
      BY <1>1, <1>3
    <3> QED BY <3>1
  <2>2. PICK j \in 1 .. (i - 1) : t[j].op = "refs" /\ t[j].url = t[i].url
    BY <1>1, <2>1 DEF Prepared, n
  <2>3. m + j \in 1 .. (k - 1) /\ st[m + j] = t[j] /\ st[k] = t[i]
    BY <1>1, <2>1, <2>2
  <2> QED BY <2>2, <2>3
<1> QED BY <1>2, <1>3
LEMMA PlanPrepared ==
    ASSUME NEW req \in Requests, NEW resp, resp.locs \in Seq(Urls)
    PROVE  Prepared(InvalidationPlan(req, resp))
<1> DEFINE idx(u) == << [op |-> "refs", id |-> Absent, url |-> u] >>
           key(u) == << [op |-> "key", id |-> Absent, url |-> u] >>
           loc(i) == IF Len(resp.locs) >= i /\ Origin[resp.locs[i]] = Origin[req.url]
                     THEN idx(resp.locs[i]) \o key(resp.locs[i])
                     ELSE <<>>
           s == loc(1) \o loc(2)
           r == req.url
<1>1. \A u \in Urls : idx(u) \in Seq(CacheOp) /\ key(u) \in Seq(CacheOp)
  BY DEF CacheOp
<1>2. \A u \in Urls : idx(u) \o key(u) \in Seq(CacheOp) /\ Prepared(idx(u) \o key(u))
  <2> SUFFICES ASSUME NEW u \in Urls
               PROVE  idx(u) \o key(u) \in Seq(CacheOp) /\ Prepared(idx(u) \o key(u))
    OBVIOUS
  <2> DEFINE x == idx(u) \o key(u)
  <2>1. x \in Seq(CacheOp) /\ Len(x) = 2 /\ x[1] = idx(u)[1] /\ x[2] = key(u)[1]
    <3>1. Len(idx(u)) = 1 /\ Len(key(u)) = 1
      OBVIOUS
    <3> HIDE DEF idx, key
    <3> QED BY <1>1, <3>1, ConcatAt
  <2>2. x[1].op = "refs" /\ x[1].url = u /\ x[2].op = "key" /\ x[2].url = u
    BY <2>1
  <2> HIDE DEF x
  <2>3. Prepared(x)
    BY <2>1, <2>2 DEF Prepared
  <2> QED BY <2>1, <2>3 DEF x
<1>3. InvalidationPlan(req, resp) = idx(r) \o loc(1) \o loc(2) \o key(r) /\ r \in Urls
  BY RequestType DEF InvalidationPlan
<1>4. idx(r)[1].op = "refs" /\ idx(r)[1].url = r /\ Len(idx(r)) = 1 /\ Prepared(idx(r))
  BY DEF Prepared
<1>5. key(r)[1].op = "key" /\ key(r)[1].url = r /\ Len(key(r)) = 1
  OBVIOUS
<1>6. <<>> \in Seq(CacheOp) /\ Prepared(<<>>)
  BY DEF Prepared
<1> HIDE DEF idx, key
<1>7. \A i \in {1, 2} : loc(i) \in Seq(CacheOp) /\ Prepared(loc(i))
  <2> SUFFICES ASSUME NEW i \in {1, 2} PROVE loc(i) \in Seq(CacheOp) /\ Prepared(loc(i))
    OBVIOUS
  <2>1. CASE Len(resp.locs) >= i /\ Origin[resp.locs[i]] = Origin[req.url]
    <3>1. resp.locs[i] \in Urls
      BY <2>1
    <3>2. loc(i) = idx(resp.locs[i]) \o key(resp.locs[i])
      BY <2>1
    <3> QED BY <1>2, <3>1, <3>2
  <2>2. CASE ~ (Len(resp.locs) >= i /\ Origin[resp.locs[i]] = Origin[req.url])
    BY <1>6, <2>2
  <2> QED BY <2>1, <2>2
<1> HIDE DEF loc
<1> DEFINE a == idx(r) \o loc(1) \o loc(2)
<1>8. a \in Seq(CacheOp) /\ Prepared(a)
  <2>1. loc(1) \in Seq(CacheOp) /\ loc(2) \in Seq(CacheOp) /\ idx(r) \in Seq(CacheOp)
    BY <1>1, <1>3, <1>7
  <2> DEFINE d == idx(r) \o loc(1)
  <2>2. d \in Seq(CacheOp) /\ Prepared(d)
    BY <1>4, <1>7, <2>1, ConcatAt, ConcatPrepared
  <2> HIDE DEF d
  <2>3. d \o loc(2) \in Seq(CacheOp) /\ Prepared(d \o loc(2))
    BY <1>7, <2>1, <2>2, ConcatAt, ConcatPrepared
  <2> QED BY <2>3 DEF d
<1>9. Len(a) >= 1 /\ a[1] = idx(r)[1]
  BY <1>1, <1>3, <1>4, <1>7
<1>10. /\ Len(a \o key(r)) = Len(a) + 1 /\ (a \o key(r))[Len(a) + 1] = key(r)[1]
       /\ \A i \in 1 .. Len(a) : (a \o key(r))[i] = a[i]
  <2>1. key(r) \in Seq(CacheOp)
    BY <1>1, <1>3
  <2> HIDE DEF a
  <2>2. /\ Len(a) \in Nat /\ Len(a \o key(r)) = Len(a) + Len(key(r))
        /\ \A i \in 1 .. Len(a) : (a \o key(r))[i] = a[i]
        /\ \A i \in 1 .. Len(key(r)) : (a \o key(r))[Len(a) + i] = key(r)[i]
    BY <1>8, <2>1, ConcatAt
  <2>3. 1 \in 1 .. Len(key(r)) /\ Len(key(r)) = 1
    BY <1>5
  <2> QED BY <2>2, <2>3
<1>11. Len(a) \in Nat
  BY <1>8
<1> HIDE DEF a
<1> DEFINE b == a \o key(r)
<1>12. Prepared(b)
  <2> SUFFICES ASSUME NEW k \in 1 .. Len(b), b[k].op = "key"
               PROVE  \E j \in 1 .. (k - 1) : b[j].op = "refs" /\ b[j].url = b[k].url
    BY DEF Prepared
  <2> HIDE DEF b
  <2>1. CASE k \in 1 .. Len(a)
    <3>1. PICK j \in 1 .. (k - 1) : a[j].op = "refs" /\ a[j].url = a[k].url
      BY <1>8, <1>10, <2>1 DEF Prepared, b
    <3> QED BY <1>10, <1>11, <2>1, <3>1 DEF b
  <2>2. CASE k = Len(a) + 1
    <3>1. 1 \in 1 .. (k - 1) /\ 1 \in 1 .. Len(a)
      BY <1>9, <1>11, <2>2
    <3> QED BY <1>4, <1>5, <1>9, <1>10, <2>2, <3>1 DEF b
  <2> QED BY <1>10, <1>11, <2>1, <2>2 DEF b
<1> QED BY <1>3, <1>12 DEF a, b

LEMMA ReceiveBypassCovers ==
    ASSUME OneByOne, TypeInv, CoverInv, NEW c \in Clients, ReceiveBypass(c)
    PROVE  CoverInv'
<1> DEFINE r == [call[c].resp EXCEPT !.respAt = now]
           l == [call[c] EXCEPT !.resp = r, !.status = "BYPASS"]
           m == [l EXCEPT !.plan = InvalidationPlan(call[c].req, r)]
<1>1. /\ c \in Procs /\ pc[c] = "reply" /\ UNCHANGED cache
      /\ Goto(c, "invalidate", m) \/ Finish(c, l)
  BY DEF ReceiveBypass, Procs
<1>2. /\ call[c] \in Call /\ call[c].req \in Requests /\ r.locs \in Seq(Urls)
  BY <1>1, ReplyType
<1>3. m.plan = InvalidationPlan(call[c].req, r) /\ m.gone = call[c].gone
  BY <1>2 DEF Call
<1>4. refs' = refs /\ entries' = entries /\ call[c].gone = {}
  BY <1>1 DEF cache, CoverInv, CoverLocal
<1>5. Prepared(m.plan)
  BY <1>2, <1>3, PlanPrepared
<1> HIDE DEF r, l, m
<1>6. DeletesFirst(m.plan, entries) /\ IsGone(m.gone, entries)
  BY <1>3, <1>4, <1>5 DEF Prepared, DeletesFirst, DeletedFirst, Deletes, IsGone
<1>7. CoverLocal("invalidate", m, refs', entries')
  BY <1>1, <1>4, <1>6, AllIndexed DEF CoverLocal
<1> QED BY <1>1, <1>7, MoveCovers, EndCovers
\* One operation less, which was not needed or has been done.
LEMMA TailDeletes ==
    ASSUME NEW plan \in Seq(CacheOp), plan # <<>>, NEW es, NEW fs, DeletesFirst(plan, es),
           \A id \in Ids : fs[id] # Absent => es[id] # Absent,
           Head(plan).op # "refs",
           Head(plan).op = "id" /\ Head(plan).id \in Ids => fs[Head(plan).id] = Absent
    PROVE  DeletesFirst(Tail(plan), fs)
<1> DEFINE s == Tail(plan)
<1>1. /\ Len(plan) \in Nat /\ Len(s) = Len(plan) - 1 /\ Head(plan) = plan[1]
      /\ \A i \in 1 .. Len(s) : s[i] = plan[i + 1]
  OBVIOUS
<1> HIDE DEF s
<1> SUFFICES ASSUME NEW k \in 1 .. Len(s), NEW id \in Ids,
                    s[k].op = "key", s[k].url = id.url, fs[id] # Absent
             PROVE  DeletedFirst(s, k, id)
  BY DEF DeletesFirst, s
<1>2. k + 1 \in 1 .. Len(plan) /\ plan[k + 1] = s[k] /\ es[id] # Absent
  BY <1>1
<1>3. DeletedFirst(plan, k + 1, id)
  BY <1>2 DEF DeletesFirst
<1>4. PICK j \in 1 .. k : Deletes(plan[j], id)
  <2>1. \A j \in 1 .. ((k + 1) - 1) : j \in 1 .. k
    BY <1>1
  <2> QED BY <1>3, <2>1 DEF DeletedFirst
<1>5. j # 1
  BY <1>1, <1>4 DEF Deletes
<1>6. j - 1 \in 1 .. (k - 1) /\ s[j - 1] = plan[j]
  BY <1>1, <1>4, <1>5
<1> QED BY <1>4, <1>6 DEF DeletedFirst

\* The index is read: its responses are deleted instead.
LEMMA ReadDeletes ==
    ASSUME NEW plan \in Seq(CacheOp), plan # <<>>, NEW es, DeletesFirst(plan, es),
           NEW index \in Seq(Ref), Head(plan).op = "refs",
           \A id \in Ids : es[id] # Absent /\ id.url = Head(plan).url => HasRef(index, id),
           NEW ops \in Seq(CacheOp), Len(ops) = Len(index),
           \A i \in 1 .. Len(ops) : ops[i].op = "id" /\ ops[i].id = index[i].id
    PROVE  DeletesFirst(ops \o Tail(plan), es)
<1> DEFINE s == Tail(plan)
           n == Len(ops)
           t == ops \o s
<1>1. /\ Len(plan) \in Nat /\ s \in Seq(CacheOp) /\ Len(s) = Len(plan) - 1
      /\ Head(plan) = plan[1] /\ \A i \in 1 .. Len(s) : s[i] = plan[i + 1]
  OBVIOUS
<1> HIDE DEF s
<1>2. /\ n \in Nat /\ Len(s) \in Nat /\ Len(t) = n + Len(s)
      /\ \A i \in 1 .. n : t[i] = ops[i]
      /\ \A i \in 1 .. Len(s) : t[n + i] = s[i]
  BY <1>1, ConcatAt
<1>3. \A i \in 1 .. n : t[i].op = "id" /\ t[i].id = index[i].id
  BY <1>2
<1> HIDE DEF t
<1> SUFFICES ASSUME NEW k \in 1 .. Len(t), NEW id \in Ids,
                    t[k].op = "key", t[k].url = id.url, es[id] # Absent
             PROVE  DeletedFirst(t, k, id)
  BY DEF DeletesFirst, s, t
<1>4. k \notin 1 .. n
  BY <1>3
<1> DEFINE m == k - n
<1>5. m \in 1 .. Len(s) /\ m + 1 \in 1 .. Len(plan) /\ k = n + m /\ plan[m + 1] = t[k]
  <2>1. m \in 1 .. Len(s) /\ k = n + m
    BY <1>2, <1>4
  <2> HIDE DEF m
  <2> QED BY <1>1, <1>2, <2>1
<1> HIDE DEF m, n
<1>6. DeletedFirst(plan, m + 1, id)
  BY <1>5 DEF DeletesFirst
<1>7. PICK j \in 1 .. m : Deletes(plan[j], id)
  <2>1. \A j \in 1 .. ((m + 1) - 1) : j \in 1 .. m
    BY <1>2, <1>5
  <2> QED BY <1>6, <2>1 DEF DeletedFirst
<1>8. CASE j = 1
  <2>1. HasRef(index, id)
    BY <1>1, <1>7, <1>8 DEF Deletes
  <2>2. PICK i \in 1 .. n : index[i].id = id
    BY <2>1 DEF HasRef, n
  <2>3. i \in 1 .. (k - 1)
    BY <1>2, <1>5, <2>2
  <2> QED BY <1>3, <2>2, <2>3 DEF DeletedFirst, Deletes
<1>9. CASE j # 1
  <2>1. j - 1 \in 1 .. Len(s) /\ s[j - 1] = plan[j]
    BY <1>1, <1>5, <1>7, <1>9
  <2>2. n + (j - 1) \in 1 .. (k - 1) /\ t[n + (j - 1)] = plan[j]
    BY SMTT(30), <1>2, <1>5, <1>7, <1>9, <2>1
  <2> QED BY <1>7, <2>2 DEF DeletedFirst
<1> QED BY <1>8, <1>9

LEMMA GetRefsCovers ==
    ASSUME OneByOne, TypeInv, CoverInv, NEW c \in Clients, InvalidateGetRefs(c)
    PROVE  CoverInv'
<1> DEFINE u == NextOp(c).url
           index == refs[u]
           ops == [i \in 1 .. Len(index) |-> [op |-> "id", id |-> index[i].id, url |-> u]]
           l == [call[c] EXCEPT !.plan = ops \o Tail(@)]
<1>1. /\ IsInvalidating(c, "refs") /\ UNCHANGED cache /\ Goto(c, "invalidate", l)
  BY DEF InvalidateGetRefs, OneByOne
<1>2. /\ c \in Procs /\ pc[c] = "invalidate" /\ call[c] \in Call /\ u \in Urls
      /\ NextOp(c) = Head(call[c].plan) /\ NextOp(c).op = "refs" /\ call[c].plan # <<>>
  BY <1>1, PlanStep DEF IsInvalidating, NextOp
<1>3. refs' = refs /\ entries' = entries /\ CoverLocal("invalidate", call[c], refs, entries)
  BY <1>1, <1>2 DEF cache, CoverInv
<1>4. index \in Seq(Ref) /\ call[c].plan \in Seq(CacheOp)
  BY <1>2 DEF TypeInv, StateOK, Call
<1>5. \A i \in 1 .. Len(index) : index[i].id \in Ids
  <2>1. \A r \in Ref : r.id \in Ids
    BY DEF Ref
  <2> QED BY <1>4, <2>1
<1> HIDE DEF index, u
<1>6. /\ ops \in Seq(CacheOp) /\ Len(ops) = Len(index)
      /\ \A i \in 1 .. Len(ops) : ops[i].op = "id" /\ ops[i].id = index[i].id
  <2>1. Len(index) \in Nat
    BY <1>4
  <2>2. \A i \in 1 .. Len(index) : [op |-> "id", id |-> index[i].id, url |-> u] \in CacheOp
    BY <1>2, <1>5 DEF CacheOp
  <2> QED BY <2>1, <2>2
<1>7. l.plan = ops \o Tail(call[c].plan) /\ l.gone = call[c].gone
  BY <1>2 DEF Call
<1> HIDE DEF ops, l
<1>8. \A id \in Ids : entries[id] # Absent => Indexed(refs, id)
  BY <1>2, AllIndexed
<1>9. \A id \in Ids : entries[id] # Absent /\ id.url = Head(call[c].plan).url
                       => HasRef(index, id)
  BY <1>2, <1>8 DEF Indexed, index, u
<1>10. DeletesFirst(l.plan, entries) /\ IsGone(l.gone, entries)
  <2>1. DeletesFirst(call[c].plan, entries) /\ IsGone(call[c].gone, entries)
    BY <1>3 DEF CoverLocal
  <2>2. Head(call[c].plan).op = "refs"
    BY <1>2
  <2>3. DeletesFirst(ops \o Tail(call[c].plan), entries)
    BY Zenon, <1>2, <1>4, <1>6, <1>9, <2>1, <2>2, ReadDeletes
  <2> QED BY Zenon, <1>7, <2>1, <2>3
<1>11. CoverLocal("invalidate", l, refs', entries')
  BY <1>3, <1>8, <1>10 DEF CoverLocal
<1> QED BY <1>1, <1>2, <1>11, MoveCovers

\* An operation is done, or was done before.
LEMMA AdvanceCovers ==
    ASSUME OneByOne, TypeInv, CoverInv, NEW c \in Clients, NEW op, IsInvalidating(c, op),
           op # "refs", Advance(c),
           \A id \in Ids : entries'[id] # Absent => entries[id] # Absent /\ Indexed(refs', id),
           op = "id" /\ NextOp(c).id \in Ids => entries'[NextOp(c).id] = Absent
    PROVE  CoverInv'
<1> DEFINE l == [call[c] EXCEPT !.plan = Tail(@), !.gone = @ \cup {NextOp(c)}]
<1>1. /\ c \in Procs /\ pc[c] = "invalidate" /\ call[c] \in Call
      /\ NextOp(c) = Head(call[c].plan) /\ NextOp(c).op = op /\ call[c].plan # <<>>
  BY PlanStep DEF IsInvalidating, NextOp
<1>2. call[c].plan \in Seq(CacheOp)
  BY <1>1 DEF Call
<1>3. /\ l.plan = Tail(call[c].plan) /\ l.gone = call[c].gone \cup {NextOp(c)}
      /\ Goto(c, "invalidate", l) \/ Finish(c, l)
  BY <1>1 DEF Advance, Call
<1> HIDE DEF l
<1>4. DeletesFirst(call[c].plan, entries) /\ IsGone(call[c].gone, entries)
  BY <1>1 DEF CoverInv, CoverLocal
<1>5. DeletesFirst(l.plan, entries')
  BY SMTT(30), <1>1, <1>2, <1>3, <1>4, TailDeletes
<1>6. IsGone(l.gone, entries')
  BY <1>1, <1>3, <1>4 DEF IsGone
<1>7. CoverLocal("invalidate", l, refs', entries')
  BY <1>5, <1>6 DEF CoverLocal
<1> QED BY <1>1, <1>3, <1>7, MoveCovers, FinishCovers

LEMMA InvalidateCovers ==
    ASSUME OneByOne, TypeInv, CoverInv, NEW c \in Clients,
           InvalidateSkip(c) \/ InvalidateEntry(c) \/ InvalidateKey(c)
    PROVE  CoverInv'
<1>1. PICK op \in {"id", "key"} : IsInvalidating(c, op)
  BY DEF InvalidateSkip, InvalidateEntry, InvalidateKey
<1>2. /\ c \in Procs /\ pc[c] = "invalidate" /\ Advance(c) /\ NextOp(c).op = op
      /\ NextOp(c) \in CacheOp /\ NextOp(c) = Head(call[c].plan)
      /\ call[c].plan # <<>> /\ call[c].plan \in Seq(CacheOp)
  BY <1>1, PlanStep DEF InvalidateSkip, InvalidateEntry, InvalidateKey, IsInvalidating,
                        NextOp, Call
<1>3. /\ DeletesFirst(call[c].plan, entries) /\ IsGone(call[c].gone, entries)
      /\ \A id \in Ids : entries[id] # Absent => Indexed(refs, id)
  BY <1>2, AllIndexed DEF CoverInv, CoverLocal
<1>4. CASE InvalidateSkip(c)
  <2>1. refs' = refs /\ entries' = entries /\ NextOp(c) \in call[c].gone
    BY <1>4 DEF InvalidateSkip, OneByOne, cache
  <2>2. op = "id" /\ NextOp(c).id \in Ids => entries'[NextOp(c).id] = Absent
    BY <1>2, <1>3, <2>1 DEF IsGone
  <2> QED BY <1>1, <1>2, <1>3, <2>1, <2>2, AdvanceCovers
<1>5. CASE InvalidateEntry(c)
  <2>1. refs' = refs /\ entries' = [entries EXCEPT ![NextOp(c).id] = Absent]
    BY <1>5 DEF InvalidateEntry
  <2>2. \A id \in Ids : entries'[id] = IF id = NextOp(c).id THEN Absent ELSE entries[id]
    BY <2>1 DEF TypeInv, StateOK
  <2>3. \A id \in Ids : entries'[id] # Absent => entries[id] # Absent /\ Indexed(refs', id)
    BY <1>3, <2>1, <2>2
  <2> QED BY <1>1, <1>2, <2>2, <2>3, AdvanceCovers
<1>6. CASE InvalidateKey(c)
  <2> DEFINE u == NextOp(c).url
  <2>1. refs' = [refs EXCEPT ![u] = <<>>] /\ entries' = entries /\ NextOp(c).op = "key"
    BY <1>6 DEF InvalidateKey, IsInvalidating
  <2>2. \A id \in Ids : entries[id] # Absent => id.url # u
    <3>1. call[c].plan[1] = NextOp(c) /\ 1 \in 1 .. Len(call[c].plan)
      BY <1>2
    <3>2. \A id : ~ DeletedFirst(call[c].plan, 1, id)
      BY DEF DeletedFirst
    <3> QED BY <1>3, <2>1, <3>1, <3>2 DEF DeletesFirst
  <2>3. \A v \in Urls : v # u => refs'[v] = refs[v]
    BY <2>1 DEF TypeInv, StateOK
  <2>4. \A id \in Ids : entries'[id] # Absent => entries[id] # Absent /\ Indexed(refs', id)
    BY <1>3, <2>1, <2>2, <2>3 DEF Indexed, Ids
  <2> QED BY <1>1, <1>2, <2>1, <2>4, AdvanceCovers
<1> QED BY <1>4, <1>5, <1>6

LEMMA CoverStep ==
    ASSUME NEW V \in SUBSET Fields, KeepsVary(V), OneByOne, TypeInv, KeepInv(V), CoverInv,
           [Next]_vars
    PROVE  CoverInv'
<1>1. ASSUME NEW c \in Clients, ProcStep(c) PROVE CoverInv'
  <2>1. c \in Procs
    BY DEF Procs
  <2> QED BY <1>1, <2>1, OriginReplyCovers, EndedCovers, ReceiveCovers, SetCovers,
             SetRefsCovers DEF ProcStep
<1>2. ASSUME NEW c \in Clients, Start(c) \/ Return(c) \/ ClientStep(c) PROVE CoverInv'
  <2>1. c \in Procs /\ ~ LookupStale(c)
    BY DEF Procs, LookupStale, OneByOne
  <2> QED BY <1>1, <1>2, <2>1, StartCovers, EndedCovers, LookupCovers, ReceiveBypassCovers,
             ReceiveCovers, GetRefsCovers, InvalidateCovers DEF ClientStep
<1>3. ASSUME UNCHANGED <<cache, pc, call>> PROVE CoverInv'
  BY <1>3 DEF CoverInv, cache
<1>4. ASSUME (\E u \in Urls : OriginUpdate(u)) \/ Tick \/ UNCHANGED vars PROVE CoverInv'
  BY <1>3, <1>4 DEF OriginUpdate, Tick, vars, cache
<1> QED BY <1>2, <1>4 DEF Next, Quiescent, OneByOne

(***************************************************************************)
(* With one call at a time, and as long as what is stored keeps its Vary,  *)
(* StoreResponse and InvalidateCache leave no response in the cache that   *)
(* its index does not lead to, however many variants, resources and calls  *)
(* there are, and although exchanges, reads and writes of responses fail.  *)
(***************************************************************************)
THEOREM NoneLost ==
    ASSUME NEW V \in SUBSET Fields, KeepsVary(V), OneByOne
    PROVE  Spec => []EveryEntryIndexed
<1>1. Init => TypeInv /\ KeepInv(V) /\ CoverInv
  BY TypeInit, KeepInit, CoverInit
<1>2. TypeInv /\ KeepInv(V) /\ CoverInv /\ [Next]_vars
        => (TypeInv /\ KeepInv(V) /\ CoverInv)'
  BY TypeStep, KeepStep, CoverStep
<1>3. CoverInv => EveryEntryIndexed
  <2> SUFFICES ASSUME CoverInv, \A p \in Procs : pc[p] \in {"idle", "done"}
               PROVE  \A id \in Ids : entries[id] # Absent => Indexed(refs, id)
    BY DEF EveryEntryIndexed, Indexed, HasRef
  <2>1. PICK c : c \in Procs
    BY DEF OneByOne, Procs
  <2> QED BY <2>1, AllIndexed
<1> QED BY <1>1, <1>2, <1>3, PTL DEF Spec
=============================================================================
