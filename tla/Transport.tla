------------------------------ MODULE Transport ------------------------------
(***************************************************************************)
(* The caching transport (roundtripper.go) with its validation handler,    *)
(* response storer and invalidator, over a cache whose single operations   *)
(* (Get, Set, Delete) are atomic.                                          *)
(*                                                                         *)
(* Clients are goroutines that call RoundTrip, one call at a time; Workers *)
(* are the goroutines that stale-while-revalidate starts.  Between any two *)
(* operations on the cache, and between a request and its answer, other    *)
(* goroutines, the origin and the clock may move.                          *)
(*                                                                         *)
(* Contents are abstracted to version numbers: ver[u] is the version that  *)
(* the origin has of u now, and a response carries the version it shows.   *)
(***************************************************************************)
EXTENDS Cacheability, VaryIndex

CONSTANTS Clients,      \* goroutines that call RoundTrip
          Workers,      \* bound: background revalidations at one time
          Origin,       \* function from Urls to their scheme, host and port
          Requests,     \* the requests that clients make
          Replies,      \* what the origin answers (see OriginReply)
          Faults,       \* the operations that may fail in this instance
          MaxTime,      \* bound on the clock
          MaxVersion,   \* bound on the versions of a resource
          MaxCalls      \* bound on the calls of RoundTrip

Procs == Clients \cup Workers

ASSUME ProcsAssumption == Clients \cap Workers = {}
ASSUME BoundsAssumption == MaxTime \in Nat /\ MaxVersion \in Nat /\ MaxCalls \in Nat
ASSUME RequestsAssumption ==
    Requests \subseteq [method : STRING, range : BOOLEAN, url : Urls,
                        hdr : RequestHeader, cc : ReqCC,
                        inm : Nat \cup {Absent}, ims : Nat \cup {Absent}]
ASSUME RepliesAssumption ==
    Replies \subseteq [code : Nat, cc : RespCC \cup {Absent},
                       expiresIn : Int \cup {Absent, Bare},
                       modified : OptionalTime, skew : OptionalTime,
                       vary : SUBSET Fields, tagged : BOOLEAN,
                       listed : BOOLEAN, up : Nat, sized : BOOLEAN,
                       locs : Seq(Urls)]

VARIABLES
    now,      \* the clock
    ver,      \* the origin: current version of each URL
    refs,     \* the cache: index of each URL key, <<>> when there is none
    entries,  \* the cache: response of each response ID, or Absent
    pc,       \* where each goroutine is
    call,     \* its local variables
    ctx,      \* whether the context of a background revalidation is done
    body,     \* what a client has done to the body it shares with a worker
    calls,    \* number of calls made so far
    done,     \* ghost: newest version an invalidation of the URL was for
    raced,    \* ghost: that invalidation ended while a GET was under way
    failed    \* ghost: since then, the write of a response failed

environment == <<now, ver>>
cache       == <<refs, entries>>
sharing     == <<ctx, body>>
ghosts      == <<done, raced, failed>>
vars == <<now, ver, refs, entries, pc, call, ctx, body, calls, done, raced, failed>>

(***************************************************************************)
(* A response.  ver, for and born are ghosts: the version it shows, the    *)
(* header of the request it was generated or confirmed for, and when.      *)
(* tagOf and dateOf are the versions that its ETag and its Last-Modified,  *)
(* where it has them, are of.                                              *)
(* whole says that the body is all of that version's, sized that its       *)
(* length is known (Content-Length), locs are Location, Content-Location.  *)
(***************************************************************************)
ResponseWith(hdrs) ==
    [code : Nat, hdr : hdrs, reqAt : Nat, respAt : Nat,
     ver : Nat, tagOf : Nat, dateOf : Nat, for : RequestHeader, born : Int,
     whole : BOOLEAN, sized : BOOLEAN, locs : Seq(Urls)]
Response == ResponseWith(Header)
RawResponse == ResponseWith(RawHeader)

\* One operation of an invalidation: on the index or on a response of url.
CacheOp == [op : {"refs", "id", "key"}, id : Ids \cup {Absent}, url : Urls]

\* Local variables of a goroutine that has none.
NoCall == [req |-> Absent, refs |-> <<>>, idx |-> 0, stored |-> Absent,
           fresh |-> Absent, start |-> Absent, cond |-> Absent,
           resp |-> Absent, status |-> "none", plan |-> <<>>, gone |-> {},
           effect |-> [u \in Urls |-> 0]]

Statuses == {"none", "HIT", "MISS", "STALE", "REVALIDATED", "BYPASS",
             "TIMEOUT504", "ERROR"}

Call == [req : Requests \cup {Absent}, refs : Seq(Ref), idx : Nat,
         stored : Response \cup {Absent}, fresh : FreshnessVerdict \cup {Absent},
         start : Nat \cup {Absent}, cond : Nat \cup {Absent},
         resp : RawResponse \cup {Absent}, status : Statuses,
         plan : Seq(CacheOp), gone : SUBSET CacheOp, effect : [Urls -> Nat]]

Locations == {"idle", "launched", "lookup", "upstream", "reply", "set",
              "setrefs", "invalidate", "done"}

Init ==
    /\ now = 0
    /\ ver = [u \in Urls |-> 1]
    /\ refs = [u \in Urls |-> <<>>]
    /\ entries = [id \in Ids |-> Absent]
    /\ pc = [p \in Procs |-> "idle"]
    /\ call = [p \in Procs |-> NoCall]
    /\ ctx = [w \in Workers |-> "live"]
    /\ body = [w \in Workers |-> "unread"]
    /\ calls = 0
    /\ done = [u \in Urls |-> 0]
    /\ raced = [u \in Urls |-> FALSE]
    /\ failed = [u \in Urls |-> FALSE]

-----------------------------------------------------------------------------
\* Local moves of one goroutine.
Goto(p, where, locals) ==
    /\ pc' = [pc EXCEPT ![p] = where]
    /\ call' = [call EXCEPT ![p] = locals]

\* RoundTrip returns to a client; a background goroutine just ends.
Finish(p, locals) ==
    IF p \in Workers THEN Goto(p, "idle", NoCall) ELSE Goto(p, "done", locals)

\* The client takes the result and may call again.
Return(c) ==
    /\ pc[c] = "done"
    /\ Goto(c, "idle", NoCall)
    /\ UNCHANGED <<environment, cache, sharing, calls, ghosts>>

(***************************************************************************)
(* What a request asks the origin about: the version of which it brings    *)
(* the ETag (inm, If-None-Match) or the date (ims, If-Modified-Since).     *)
(* The origin looks at the first one when both are there.                  *)
(***************************************************************************)
Precondition(inm, ims) == IF inm # Absent THEN inm ELSE ims
OwnPrecondition(req) == Precondition(req.inm, req.ims)

\* handleCacheMiss up to the call of roundTripTimed.
HandleCacheMiss(c, locals) ==
    IF locals.req.cc.onlyIfCached
    THEN Finish(c, [locals EXCEPT !.status = "TIMEOUT504"])
    ELSE Goto(c, "upstream", [locals EXCEPT !.start = now,
                                       !.cond = OwnPrecondition(locals.req)])

(***************************************************************************)
(* RoundTrip, up to the choice of a reference.  A request that the cache   *)
(* does not understand goes straight to the origin (lines 183-185);        *)
(* GetRefs that fails, or finds nothing, is a miss with no references      *)
(* (lines 187-190).                                                        *)
(***************************************************************************)
StartBypass(c, req) ==
    /\ ~ IsRequestMethodUnderstood(req)
    /\ Goto(c, "upstream", [NoCall EXCEPT !.req = req, !.start = now,
                                          !.cond = OwnPrecondition(req)])

StartNoRefs(c, req) ==
    /\ IsRequestMethodUnderstood(req)
    /\ refs[req.url] = <<>> \/ "getRefs" \in Faults
    /\ HandleCacheMiss(c, [NoCall EXCEPT !.req = req])

StartMatch(c, req) ==
    /\ IsRequestMethodUnderstood(req)
    /\ refs[req.url] # <<>>
    /\ \E sorted \in SortedRefs(refs[req.url]), i \in 0 .. Len(refs[req.url]) :
         LET locals == [NoCall EXCEPT !.req = req, !.refs = sorted, !.idx = i]
         IN  /\ IsFirstMatch(sorted, req.hdr, i)
             /\ IF i = 0 THEN HandleCacheMiss(c, locals) ELSE Goto(c, "lookup", locals)

Start(c) ==
    /\ pc[c] = "idle"
    /\ calls < MaxCalls
    /\ calls' = calls + 1
    /\ \E req \in Requests : \/ StartBypass(c, req)
                             \/ StartNoRefs(c, req)
                             \/ StartMatch(c, req)
    /\ UNCHANGED <<environment, cache, sharing, ghosts>>

-----------------------------------------------------------------------------
\* handleCacheHit, lines 305-331: what decides between serving and validating.
MustValidate(f, cc) == (f.isStale /\ cc.mustRevalidate) \/ cc.noCache = "all"

\* Mutation: the staleness of the response is not looked at.
ServesFromCacheAnyway(f, reqCC, cc) ==
    /\ ~ MustValidate(f, cc)
    /\ reqCC.onlyIfCached \/ ~ reqCC.noCache

ServesFromCache(f, reqCC, cc) ==
    \/ ~ f.isStale /\ cc.immutable /\ ~ reqCC.noCache
    \/ /\ ~ MustValidate(f, cc)
       /\ reqCC.onlyIfCached \/ (~ f.isStale /\ ~ reqCC.noCache)

\* Mutation: stale-while-revalidate has no end.
ServesWhileRevalidatingForever(f, reqCC, cc) ==
    /\ ~ ServesFromCache(f, reqCC, cc)
    /\ ~ MustValidate(f, cc)
    /\ f.isStale
    /\ IsDelta(cc.swr)
    /\ 0 <= Wrap(f.age - f.life)

\* Lines 333-339; the clock has not moved since the verdict.
ServesWhileRevalidating(f, reqCC, cc) ==
    /\ ~ ServesFromCache(f, reqCC, cc)
    /\ ~ MustValidate(f, cc)
    /\ f.isStale
    /\ IsDelta(cc.swr)
    /\ 0 <= Wrap(f.age - f.life)
    /\ Wrap(f.age - f.life) < DeltaValue(cc.swr)

\* SetAgeHeader on a response whose verdict was f.
SetAgeHeader(resp, f) ==
    [resp EXCEPT !.hdr.age = Larger(AgeAt(f, now), 0) \div Second]

\* serveFromCache
FromCache(stored, f) ==
    SetAgeHeader([stored EXCEPT !.hdr = StripListedFields(stored.hdr)], f)

(***************************************************************************)
(* withConditionalHeaders: a field is set when the stored response has     *)
(* what goes into it; otherwise the client's own stays in the request.     *)
(***************************************************************************)
Validator(req, stored) ==
    Precondition(IF stored.hdr.tagged THEN stored.tagOf ELSE req.inm,
                 IF stored.hdr.lastModified # Absent THEN stored.dateOf ELSE req.ims)

\* The entry of the reference that was chosen, and the verdict on it.
Selected(c) == entries[call[c].refs[call[c].idx].id]
Verdict(c)  == CalculateFreshness(Selected(c), call[c].req.cc, now)

\* handleCacheHit up to the verdict.
IsHit(c) == pc[c] = "lookup" /\ Selected(c) # Absent
WithStored(c) == [call[c] EXCEPT !.stored = Selected(c), !.fresh = Verdict(c)]

\* cache.Get fails or finds nothing (RoundTrip, lines 197-209).
LookupMiss(c) ==
    /\ pc[c] = "lookup"
    /\ Selected(c) = Absent \/ "get" \in Faults
    /\ HandleCacheMiss(c, call[c])
    /\ UNCHANGED <<environment, cache, sharing, calls, ghosts>>

LookupServe(c) ==
    /\ IsHit(c)
    /\ ServesFromCache(Verdict(c), call[c].req.cc,
                       ResponseDirectives(Selected(c).hdr))
    /\ Finish(c, [WithStored(c) EXCEPT
                    !.resp = FromCache(Selected(c), Verdict(c)), !.status = "HIT"])
    /\ UNCHANGED <<environment, cache, sharing, calls, ghosts>>

LookupValidate(c) ==
    /\ IsHit(c)
    /\ ~ ServesFromCache(Verdict(c), call[c].req.cc,
                         ResponseDirectives(Selected(c).hdr))
    /\ ~ ServesWhileRevalidating(Verdict(c), call[c].req.cc,
                                 ResponseDirectives(Selected(c).hdr))
    /\ Goto(c, "upstream",
            [WithStored(c) EXCEPT !.start = now,
                                  !.cond = Validator(call[c].req, Selected(c))])
    /\ UNCHANGED <<environment, cache, sharing, calls, ghosts>>

(***************************************************************************)
(* handleStaleWhileRevalidate: the client gets the stored response as it   *)
(* is, and a new goroutine, whose RevalidationContext has no Refs and      *)
(* Go's zero value for RefIndex, shares that response with it.             *)
(***************************************************************************)
BackgroundCall(c) ==
    [NoCall EXCEPT !.req = call[c].req, !.idx = 1, !.stored = Selected(c),
                   !.fresh = Verdict(c),
                   !.cond = Validator(call[c].req, Selected(c))]

LookupStale(c) ==
    \E w \in Workers :
      /\ IsHit(c)
      /\ pc[w] = "idle"
      /\ ServesWhileRevalidating(Verdict(c), call[c].req.cc,
                                 ResponseDirectives(Selected(c).hdr))
      /\ pc' = [pc EXCEPT ![c] = "done", ![w] = "launched"]
      /\ call' = [call EXCEPT ![c] = [WithStored(c) EXCEPT !.resp = Selected(c),
                                                           !.status = "STALE"],
                              ![w] = BackgroundCall(c)]
      /\ ctx' = [ctx EXCEPT ![w] = "live"]
      /\ body' = [body EXCEPT ![w] = "unread"]
      /\ UNCHANGED <<environment, cache, calls, ghosts>>

\* backgroundRevalidate up to its request, which it sends when it is scheduled.
BackgroundSend(w) ==
    /\ pc[w] = "launched"
    /\ Goto(w, "upstream", [call[w] EXCEPT !.start = now])
    /\ UNCHANGED <<environment, cache, sharing, calls, ghosts>>

-----------------------------------------------------------------------------
(***************************************************************************)
(* The origin, which is outside the repository.  It answers with any       *)
(* header and status; a 304 only to a request that asks about its current  *)
(* version.  An unsafe request that it does not refuse changes             *)
(* the target and what Location and Content-Location name.                 *)
(***************************************************************************)
Changed(req, reply) ==
    IF IsUnsafeMethod(req.method) /\ IsNonErrorStatus(reply.code)
    THEN {req.url} \cup { reply.locs[i] : i \in 1 .. Len(reply.locs) }
    ELSE {}

Bumped(urls) == [u \in Urls |-> IF u \in urls THEN ver[u] + 1 ELSE ver[u]]

OriginResponse(req, reply, start) ==
    LET version == Bumped(Changed(req, reply))[req.url]
    IN  [code |-> reply.code, hdr |-> OriginHeader(reply, now, reply.up),
         reqAt |-> start, respAt |-> 0,
         ver |-> version, tagOf |-> version, dateOf |-> version, for |-> req.hdr,
         born |-> now - reply.up, whole |-> reply.code # 304, sized |-> reply.sized,
         locs |-> reply.locs]

OriginReply(p) ==
    /\ pc[p] = "upstream"
    /\ \E reply \in Replies :
         LET req == call[p].req IN
         /\ reply.code = 304 => call[p].cond = ver[req.url]
         /\ \A u \in Changed(req, reply) : ver[u] < MaxVersion
         /\ ver' = Bumped(Changed(req, reply))
         /\ Goto(p, "reply", [call[p] EXCEPT
                                !.resp = OriginResponse(req, reply, call[p].start),
                                !.effect = Bumped(Changed(req, reply))])
    /\ UNCHANGED <<now, cache, sharing, calls, ghosts>>

\* The resource changes without this cache having a part in it.
OriginUpdate(u) ==
    /\ ver[u] < MaxVersion
    /\ ver' = [ver EXCEPT ![u] = @ + 1]
    /\ UNCHANGED <<now, cache, pc, call, sharing, calls, ghosts>>

UpstreamFail(p) ==
    /\ pc[p] \in {"upstream", "reply"}
    /\ "upstream" \in Faults \/ (p \in Workers /\ ctx[p] = "done")
    /\ Finish(p, [call[p] EXCEPT !.status = "ERROR", !.resp = Absent])
    /\ UNCHANGED <<environment, cache, sharing, calls, ghosts>>

-----------------------------------------------------------------------------
\* The answer as roundTripTimed returns it.
Received(p) ==
    [call[p].resp EXCEPT !.respAt = now, !.hdr = FixDateHeader(call[p].resp.hdr, now)]

\* The invalidation that InvalidateCache carries out, in its order.
InvalidationPlan(req, resp) ==
    LET indexOps(u) == << [op |-> "refs", id |-> Absent, url |-> u] >>
        keyOps(u)   == << [op |-> "key", id |-> Absent, url |-> u] >>
        locOps(i)   == IF Len(resp.locs) >= i /\ Origin[resp.locs[i]] = Origin[req.url]
                       THEN indexOps(resp.locs[i]) \o keyOps(resp.locs[i])
                       ELSE <<>>
    IN  indexOps(req.url) \o locOps(1) \o locOps(2) \o keyOps(req.url)

\* handleUnrecognizedMethod
ReceiveBypass(c) ==
    /\ pc[c] = "reply"
    /\ ~ IsRequestMethodUnderstood(call[c].req)
    /\ LET resp   == [call[c].resp EXCEPT !.respAt = now]
           locals == [call[c] EXCEPT !.resp = resp, !.status = "BYPASS"]
       IN  IF IsUnsafeMethod(call[c].req.method) /\ IsNonErrorStatus(resp.code)
           THEN Goto(c, "invalidate",
                     [locals EXCEPT !.plan = InvalidationPlan(call[c].req, resp)])
           ELSE Finish(c, locals)
    /\ UNCHANGED <<environment, cache, sharing, calls, ghosts>>

\* handleCacheMiss from the answer on.
ReceiveMiss(c) ==
    /\ pc[c] = "reply"
    /\ IsRequestMethodUnderstood(call[c].req)
    /\ call[c].stored = Absent
    /\ LET resp   == Received(c)
           locals == [call[c] EXCEPT !.resp = resp, !.status = "MISS"]
       IN  IF CanStoreResponse(resp.code, resp.hdr, call[c].req.cc)
           THEN Goto(c, "set", locals)
           ELSE Finish(c, locals)
    /\ UNCHANGED <<environment, cache, sharing, calls, ghosts>>

\* A validation was answered (and, in the background, in time: lines 433-438).
IsValidation(p) ==
    /\ pc[p] = "reply"
    /\ call[p].stored # Absent
    /\ p \in Workers => ctx[p] = "live"

\* HandleValidationResponse, lines 78-94.
Freshened(p) ==
    LET stored == call[p].stored
        answer == Received(p)
    IN  [stored EXCEPT !.hdr = MergeResponseHeaders(stored.hdr, answer.hdr),
                       !.tagOf  = IF answer.hdr.tagged THEN answer.tagOf ELSE @,
                       !.dateOf = IF answer.hdr.lastModified # Absent THEN answer.dateOf
                                                                      ELSE @,
                       !.reqAt = call[p].start, !.respAt = now,
                       !.for = answer.for, !.born = answer.born]

\* Mutation: any answer but an error is taken for a confirmation.
ReceiveNotModifiedLoosely(p) ==
    /\ IsValidation(p)
    /\ IsNonErrorStatus(call[p].resp.code)
    /\ Goto(p, "set", [call[p] EXCEPT !.resp = Freshened(p), !.status = "REVALIDATED"])
    /\ UNCHANGED <<environment, cache, sharing, calls, ghosts>>

ReceiveNotModified(p) ==
    /\ IsValidation(p)
    /\ call[p].resp.code = 304
    /\ Goto(p, "set", [call[p] EXCEPT !.resp = Freshened(p), !.status = "REVALIDATED"])
    /\ UNCHANGED <<environment, cache, sharing, calls, ghosts>>

\* Lines 100-111.
ServesOnError(p) ==
    /\ IsStaleErrorAllowed(call[p].resp.code)
    /\ CanStaleOnError(call[p].fresh, ResponseDirectives(call[p].resp.hdr), now)

ReceiveError(p) ==
    /\ IsValidation(p)
    /\ ServesOnError(p)
    /\ Finish(p, [call[p] EXCEPT !.resp = SetAgeHeader(call[p].stored, call[p].fresh),
                                 !.status = "STALE"])
    /\ UNCHANGED <<environment, cache, sharing, calls, ghosts>>

\* Lines 116-131; an unsafe method never gets here, the guard of line 123 is dead.
ReceiveFull(p) ==
    /\ IsValidation(p)
    /\ call[p].resp.code # 304
    /\ ~ ServesOnError(p)
    /\ IF CanStoreResponse(call[p].resp.code, Received(p).hdr, call[p].req.cc)
       THEN Goto(p, "set", [call[p] EXCEPT !.resp = Received(p), !.status = "MISS"])
       ELSE Finish(p, [call[p] EXCEPT !.resp = Received(p), !.status = "BYPASS"])
    /\ UNCHANGED <<environment, cache, sharing, calls, ghosts>>

\* Mutation: an answer that is too late is asked for again.
ReceiveLateRetries(w) ==
    /\ pc[w] = "reply"
    /\ ctx[w] = "done"
    /\ Goto(w, "upstream", [call[w] EXCEPT !.resp = Absent])
    /\ UNCHANGED <<environment, cache, sharing, calls, ghosts>>

\* backgroundRevalidate drops an answer that comes after its context is done.
ReceiveLate(w) ==
    /\ pc[w] = "reply"
    /\ ctx[w] = "done"
    /\ Finish(w, NoCall)
    /\ UNCHANGED <<environment, cache, sharing, calls, ghosts>>

-----------------------------------------------------------------------------
(***************************************************************************)
(* StoreResponse: write the response, then the index.                      *)
(*                                                                         *)
(* MarshalBinary reads the body to its end.  The body of an entry that is  *)
(* revalidated in the background is also in the client's hands: once the   *)
(* client has closed it, or has read some of a body whose length is known, *)
(* marshalling fails; what is left of a body of unknown length is written. *)
(* The body of a fresh answer cannot be read when its context is done.     *)
(***************************************************************************)
SharesBody(p) == p \in Workers /\ call[p].status = "REVALIDATED"

\* Mutation: only a closed body is noticed.
BodyUnusableIfClosed(p) == SharesBody(p) /\ body[p] = "closed"

BodyUnusable(p) ==
    SharesBody(p) /\ (body[p] = "closed" \/ (body[p] = "read" /\ call[p].resp.sized))

BodyUnreadable(p) ==
    p \in Workers /\ call[p].status = "MISS" /\ ctx[p] = "done"

NewRef(p) == MakeRef(call[p].req.url, call[p].resp.hdr, call[p].req.hdr)

Marshalled(p) ==
    [call[p].resp EXCEPT !.whole = @ /\ (SharesBody(p) => body[p] = "unread")]

SetEntry(p) ==
    /\ pc[p] = "set"
    /\ ~ BodyUnusable(p)
    /\ entries' = [entries EXCEPT ![NewRef(p).id] = Marshalled(p)]
    /\ Goto(p, "setrefs", call[p])
    /\ UNCHANGED <<environment, refs, sharing, calls, ghosts>>

\* Line 76: the error of cache.Set is dropped, and the index written all the same.
SetEntryFails(p) ==
    /\ pc[p] = "set"
    /\ BodyUnusable(p) \/ BodyUnreadable(p) \/ "set" \in Faults
    /\ Goto(p, "setrefs", call[p])
    /\ failed' = [failed EXCEPT ![call[p].req.url] = TRUE]
    /\ UNCHANGED <<environment, cache, sharing, calls, done, raced>>

SetRefs(p) ==
    /\ pc[p] = "setrefs"
    /\ \/ refs' = [refs EXCEPT ![call[p].req.url] =
                                 UpdateRefs(call[p].refs, call[p].idx, NewRef(p))]
       \/ "setRefs" \in Faults /\ UNCHANGED refs
    /\ Finish(p, call[p])
    /\ UNCHANGED <<environment, entries, sharing, calls, ghosts>>

-----------------------------------------------------------------------------
(***************************************************************************)
(* InvalidateCache and invalidateLocationHeaders, one cache operation at a *)
(* time.  An operation that is in gone is skipped, whether or not it had   *)
(* succeeded.                                                              *)
(***************************************************************************)
NextOp(c) == Head(call[c].plan)

IsInvalidating(c, op) ==
    pc[c] = "invalidate" /\ call[c].plan # <<>> /\ NextOp(c).op = op

Advance(c) ==
    LET locals == [call[c] EXCEPT !.plan = Tail(@), !.gone = @ \cup {NextOp(c)}]
    IN  IF locals.plan = <<>> THEN Finish(c, locals) ELSE Goto(c, "invalidate", locals)

InvalidateGetRefs(c) ==
    /\ IsInvalidating(c, "refs")
    /\ \E index \in {refs[NextOp(c).url]} \cup (IF "getRefs" \in Faults THEN {<<>>} ELSE {}) :
         Goto(c, "invalidate",
              [call[c] EXCEPT !.plan =
                 [i \in 1 .. Len(index) |->
                    [op |-> "id", id |-> index[i].id, url |-> NextOp(c).url]] \o Tail(@)])
    /\ UNCHANGED <<environment, cache, sharing, calls, ghosts>>

InvalidateSkip(c) ==
    /\ IsInvalidating(c, "id") \/ IsInvalidating(c, "key")
    /\ NextOp(c) \in call[c].gone \/ "delete" \in Faults
    /\ Advance(c)
    /\ UNCHANGED <<environment, cache, sharing, calls, ghosts>>

InvalidateEntry(c) ==
    /\ IsInvalidating(c, "id")
    /\ NextOp(c) \notin call[c].gone
    /\ entries' = [entries EXCEPT ![NextOp(c).id] = Absent]
    /\ Advance(c)
    /\ UNCHANGED <<environment, refs, sharing, calls, ghosts>>

\* A GET for u that may still write what it has read, here or at the origin.
GetUnderWay(q, u) ==
    /\ pc[q] \notin {"idle", "done"}
    /\ IsRequestMethodUnderstood(call[q].req)
    /\ call[q].req.url = u

\* Mutation: the entries are deleted and their index is not.
InvalidateKeyKept(c) ==
    LET u == NextOp(c).url IN
    /\ IsInvalidating(c, "key")
    /\ NextOp(c) \notin call[c].gone
    /\ Advance(c)
    /\ done' = [done EXCEPT ![u] = Larger(@, call[c].effect[u])]
    /\ raced' = [raced EXCEPT ![u] = \E q \in Procs : GetUnderWay(q, u)]
    /\ failed' = [failed EXCEPT ![u] = FALSE]
    /\ UNCHANGED <<environment, cache, sharing, calls>>

InvalidateKey(c) ==
    LET u == NextOp(c).url IN
    /\ IsInvalidating(c, "key")
    /\ NextOp(c) \notin call[c].gone
    /\ refs' = [refs EXCEPT ![u] = <<>>]
    /\ Advance(c)
    /\ done' = [done EXCEPT ![u] = Larger(@, call[c].effect[u])]
    /\ raced' = [raced EXCEPT ![u] = \E q \in Procs : GetUnderWay(q, u)]
    /\ failed' = [failed EXCEPT ![u] = FALSE]
    /\ UNCHANGED <<environment, entries, sharing, calls>>

-----------------------------------------------------------------------------
\* The client cancels the request it was served, or swrTimeout has passed.
ContextDone(w) ==
    /\ pc[w] # "idle"
    /\ ctx[w] = "live"
    /\ ctx' = [ctx EXCEPT ![w] = "done"]
    /\ UNCHANGED <<environment, cache, pc, call, body, calls, ghosts>>

\* The client reads from, and closes, the body that it was served.
ReadBody(w) ==
    /\ pc[w] # "idle"
    /\ body[w] = "unread"
    /\ body' = [body EXCEPT ![w] = "read"]
    /\ UNCHANGED <<environment, cache, pc, call, ctx, calls, ghosts>>

CloseBody(w) ==
    /\ pc[w] # "idle"
    /\ body[w] # "closed"
    /\ body' = [body EXCEPT ![w] = "closed"]
    /\ UNCHANGED <<environment, cache, pc, call, ctx, calls, ghosts>>

Tick ==
    /\ now < MaxTime
    /\ now' = now + 1
    /\ UNCHANGED <<ver, cache, pc, call, sharing, calls, ghosts>>

\* The instance has made all its calls.
Quiescent ==
    /\ calls = MaxCalls
    /\ \A p \in Procs : pc[p] = "idle"
    /\ UNCHANGED vars

\* What a goroutine does once it is under way, and what it waits for.
ProcStep(p) ==
    \/ OriginReply(p) \/ UpstreamFail(p)
    \/ ReceiveNotModified(p) \/ ReceiveError(p) \/ ReceiveFull(p)
    \/ SetEntry(p) \/ SetEntryFails(p) \/ SetRefs(p)

ClientStep(c) ==
    \/ ProcStep(c)
    \/ LookupMiss(c) \/ LookupServe(c) \/ LookupValidate(c) \/ LookupStale(c)
    \/ ReceiveBypass(c) \/ ReceiveMiss(c)
    \/ InvalidateGetRefs(c) \/ InvalidateSkip(c) \/ InvalidateEntry(c) \/ InvalidateKey(c)

WorkerStep(w) == BackgroundSend(w) \/ ProcStep(w) \/ ReceiveLate(w)

Next ==
    \/ \E c \in Clients : Start(c) \/ Return(c) \/ ClientStep(c)
    \/ \E w \in Workers : WorkerStep(w) \/ ContextDone(w) \/ ReadBody(w) \/ CloseBody(w)
    \/ \E u \in Urls : OriginUpdate(u)
    \/ Tick
    \/ Quiescent

Spec == Init /\ [][Next]_vars

(***************************************************************************)
(* A background goroutine is scheduled, operations on the cache return,    *)
(* and upstream answers or fails.  Nothing is asked of the clients, of the *)
(* context, or of the clock.                                               *)
(***************************************************************************)
FairSpec == Spec /\ \A w \in Workers : WF_vars(WorkerStep(w))

-----------------------------------------------------------------------------
TypeOK ==
    /\ now \in Nat
    /\ ver \in [Urls -> Nat]
    /\ refs \in [Urls -> Seq(Ref)]
    /\ entries \in [Ids -> Response \cup {Absent}]
    /\ pc \in [Procs -> Locations]
    /\ call \in [Procs -> Call]
    /\ \A p \in Procs : pc[p] \in {"set", "setrefs"} => call[p].resp \in Response
    /\ ctx \in [Workers -> {"live", "done"}]
    /\ body \in [Workers -> {"unread", "read", "closed"}]
    /\ calls \in Nat
    /\ done \in [Urls -> Nat]
    /\ raced \in [Urls -> BOOLEAN]
    /\ failed \in [Urls -> BOOLEAN]

(***************************************************************************)
(* InvalidateCache does its work.  When the invalidation that an unsafe    *)
(* request caused has ended and no GET for that URL was under way at that  *)
(* moment, nothing older than that request is ever reachable through the   *)
(* index again, whatever GETs and background revalidations come after.     *)
(* The exception is a write of a response that fails: StoreResponse drops  *)
(* the error (line 76) and indexes whatever is there under that ID, which  *)
(* may be a response that a GET left unindexed before the invalidation.    *)
(***************************************************************************)
ReachableSince(u, index) ==
    \A i \in 1 .. Len(index) :
        entries[index[i].id] # Absent => entries[index[i].id].ver >= done[u]

InvalidationEffective ==
    \A u \in Urls : ~ raced[u] /\ ~ failed[u] => ReachableSince(u, refs[u])

(***************************************************************************)
(* A response that comes from the cache was generated, or last confirmed,  *)
(* for a request that agrees with this one on every field that its own     *)
(* Vary names: the chain of index, hash and entry never hands out another  *)
(* variant, even when goroutines overwrite each other's index.             *)
(***************************************************************************)
Agree(vary, a, b) == \A f \in vary : FieldValue(a, f) = FieldValue(b, f)

VarySound ==
    \A c \in Clients :
        pc[c] = "done" /\ call[c].status \in {"HIT", "STALE", "REVALIDATED"}
        => Agree(call[c].resp.hdr.vary, call[c].resp.for, call[c].req.hdr)

(***************************************************************************)
(* A response served without asking the origin, to a request that does not *)
(* ask for less, is really younger than its max-age, or, when it goes out  *)
(* as STALE, than max-age and stale-while-revalidate together.  The age    *)
(* here is that of the content, through any number of stores and 304s.     *)
(***************************************************************************)
RealAge(c) == call[c].fresh.ts - call[c].resp.born

UsableWithoutContact ==
    \A c \in Clients :
        LET cc == ResponseDirectives(call[c].resp.hdr)
            rq == call[c].req.cc
        IN  /\ pc[c] = "done"
            /\ call[c].status \in {"HIT", "STALE"}
            /\ call[c].start = Absent
            /\ rq.maxStale = Absent /\ ~ rq.onlyIfCached /\ rq.maxAge # 0
            /\ IsDelta(cc.maxAge) /\ cc.maxAge > 0
            => RealAge(c) < (cc.maxAge * Second) + (Second - 1)
                            + (IF call[c].status = "STALE" THEN cc.swr * Second ELSE 0)

(***************************************************************************)
(* A response marked REVALIDATED ("revalidated with origin server",        *)
(* header.go, line 63) shows the version that the origin had when it       *)
(* answered the validation.  So it is for clients that send no precondition *)
(* of their own: such a field stays in the request when the stored         *)
(* response has nothing to put in its place, and the 304 is then about the *)
(* client's copy.                                                          *)
(***************************************************************************)
RevalidatedIsCurrent ==
    \A c \in Clients :
        pc[c] = "done" /\ call[c].status = "REVALIDATED"
        => call[c].resp.ver = call[c].effect[call[c].req.url]

(***************************************************************************)
(* With one call at a time, and as long as a resource keeps its Vary, each *)
(* stored response can be found through the index of its URL, so that it   *)
(* can be served, replaced and invalidated, also when exchanges, reads and *)
(* writes of responses fail.  When the Vary changes, updating a reference  *)
(* leaves the response that it referred to behind.                         *)
(***************************************************************************)
EveryEntryIndexed ==
    (\A p \in Procs : pc[p] \in {"idle", "done"})
    => \A id \in Ids : entries[id] # Absent
         => \E i \in 1 .. Len(refs[id.url]) : refs[id.url][i].id = id

(***************************************************************************)
(* As long as a resource keeps its Vary, its index has one reference for   *)
(* each variant and does not grow with the number of requests, also when   *)
(* the stored response that a reference leads to cannot be read, or was    *)
(* never written.  Each answer with Vary "*", which never matches, does    *)
(* add a reference.                                                        *)
(***************************************************************************)
IndexedOnce ==
    \A u \in Urls : \A i, j \in 1 .. Len(refs[u]) :
        refs[u][i].id = refs[u][j].id => i = j

(***************************************************************************)
(* A stored 200 whose length is known has the whole body that the origin   *)
(* sent, although the client that got it stale reads and closes the very   *)
(* body that the background revalidation stores again.  Of a body of       *)
(* unknown length, what the client has left is stored.                     *)
(***************************************************************************)
StoredBodiesWhole ==
    \A id \in Ids :
        entries[id] # Absent /\ entries[id].code = 200 /\ entries[id].sized
        => entries[id].whole

(***************************************************************************)
(* StoreResponse updates or appends one reference (responsestorerer.go,    *)
(* lines 28-30), so that an index only ever shrinks by being deleted.      *)
(***************************************************************************)
StoreKeepsOtherVariants ==
    [][\A u \in Urls : refs'[u] = <<>> \/ Len(refs'[u]) >= Len(refs[u])]_vars

(***************************************************************************)
(* "The no-store directive must not be present in the response/request     *)
(* headers" of what is stored (cacheabilityevaluator.go, line 48).         *)
(***************************************************************************)
NoStoreNeverStored ==
    \A id \in Ids : entries[id] # Absent
        => ~ ResponseDirectives(entries[id].hdr).noStore

(***************************************************************************)
(* stale-if-error "applies to both requests and responses" (README.md,     *)
(* line 306): when the origin answers a validation with an error, and the  *)
(* request or the stored response allows its being served stale at that    *)
(* moment, the client does not get the error.                              *)
(***************************************************************************)
StaleIfErrorHonoured ==
    \A c \in Clients :
        /\ pc[c] = "done"
        /\ call[c].status \in {"MISS", "BYPASS"}
        /\ call[c].stored # Absent
        /\ IsStaleErrorAllowed(call[c].resp.code)
        => \A d \in {call[c].req.cc.staleIfError,
                     ResponseDirectives(call[c].stored.hdr).staleIfError} :
             IsDelta(d) => AgeAt(call[c].fresh, call[c].resp.respAt)
                             > call[c].fresh.life + DeltaValue(d)

(***************************************************************************)
(* Every background revalidation ends: the goroutine that line 402 starts  *)
(* is not leaked, whatever fails, when its context ends, and whatever the  *)
(* client does with the response and with later calls.                     *)
(***************************************************************************)
RevalidationEnds ==
    \A w \in Workers : pc[w] # "idle" ~> pc[w] = "idle"
=============================================================================
