# A TLA+ model of httpcache

This directory holds a verification project for `github.com/bartventer/httpcache`,
an `http.RoundTripper` that caches responses as RFC 9111 describes. The modules are
translated from the Go source; the TLC configurations check them on small instances;
the proof modules hold theorems, checked by TLAPS, for every value of the constants.
`PROJECT.json` lists components, runs, hazards, findings and theorems, and maps each
definition to the lines it models.

To repeat a run: `tlc -workers 2 -config Race.cfg MCTransport`. To repeat a proof:
`tlapm TransportProofs.tla`.

## The system

| Component | Source | State | Operations |
|---|---|---|---|
| caching transport | `roundtripper.go`, `helpers.go` | none of its own; the locals of each goroutine | `RoundTrip`, `handleCacheMiss`, `handleUnrecognizedMethod`, `handleCacheHit`, `handleStaleWhileRevalidate`, `backgroundRevalidate` |
| validation response handler | `internal/validationresponsehandler.go` | none | `HandleValidationResponse`: 304, stale-if-error, full answer |
| response storer, response cache | `internal/responsestorerer.go`, `responsecache.go`, `entry.go` | in the backend: an index per URL and an entry per response ID | `StoreResponse` (two writes), `Get`, `Set`, `GetRefs`, `SetRefs`, `Delete` |
| invalidator | `internal/cacheinvalidator.go` | none | `InvalidateCache` (a sequence of reads and deletes) |
| freshness calculator | `internal/freshness.go` | none | `CalculateFreshness`, `calculateCurrentAge` |
| cacheability, stale-if-error policies | `internal/cacheabilityevaluator.go`, `requestmethodchecker.go` | none | `CanStoreResponse`, `CanStaleOnError`, `IsRequestMethodUnderstood` |
| directives, headers | `internal/ccdirectives.go`, `helpers.go`, `header.go`, `quotedstring.go` | none | what each directive means; `TrimmedCSV`, `ParseQuotedString`, `parseDirectives`; `fixDateHeader`, `mergeResponseHeaders`, `removeHopByHopHeaders`, `SetAgeHeader` |
| Vary | `internal/varymatcher.go`, `normalization.go` | none | `VaryHeadersMatch`, `Resolve`, `normalizeHeaderValue`, `VaryKey` |
| URL keys | `pkg/urlkey`, `internal/urlkeyer.go`, `internal/urlutil` | none | `Normalize`, `SplitHostPort`, `sameOrigin` |
| in-memory cache | `store/memcache` | a map under an `RWMutex` | `Get`, `Set`, `Delete` |
| file system cache | `store/fscache` | a directory tree | `Get`, `Set`, `Delete`, `Keys`, each a goroutine and a timeout |
| driver interface | `store/driver` | abstract | what a `Conn` promises |
| registry and store facade | `store/internal/registry`, `store/cache.go` | a map from schemes to drivers | `Open`, `RegisterDriver` |
| key API | `store/expapi` | none; it opens a cache for each request | handlers that list, show and delete keys |
| options, logging | see `PROJECT.json` | — | not modelled, see below |

How they interact. A client goroutine calls `RoundTrip`. It reads the index of the URL
from the backend, picks a reference by Vary, reads the entry, and serves it, validates
it upstream, or serves it stale and starts a goroutine that validates it. Answers are
stored with two writes, the entry and then the index as it was read before the exchange,
changed in one place. Answers to unsafe requests delete, one operation after the other.
There is **no lock above the backend**: every read, write and delete of one goroutine
interleaves with those of all the others, and the index is read long before it is written
back. The background goroutine shares the `http.Response` it validates with the client it
was served to.

What is hard here, and what would be correct:

* *Lost and resurrected state.* What an invalidation removed must not become reachable
  again later (`InvalidationEffective`). The code does not keep this for GETs that are under
  way while the index is deleted, which write back the index they read; the property is
  about all others.
* *Chains of 304s and stores.* The header and times of an entry are put together from
  several answers; age must not be underestimated (`AgeNeverUnderestimated`,
  `UsableWithoutContact`), staleness must not go away by itself (`StaleStaysStale`).
* *Variants.* The index is sorted, rewritten and overwritten; a client must still never
  get another client's variant (`VarySound`), and no entry may be lost to the index
  (`EveryEntryIndexed`).
* *Widths.* Durations are 64-bit nanoseconds; delta-seconds are multiplied into them
  (`FreshOnlyWithinAllowance`).
* *Ignored failures, timeouts, contexts.* Errors of writes are dropped; file system calls
  outlive the call that started them (`IntactReads`, `ReadsLastWrite`, `KeysListed`); a
  background goroutine must still end (`RevalidationEnds`).
* *Several caches on one directory.* Each request to the key API opens a cache of its own
  beside the program's, with the key in its DSN or with none: it must not take a cache it
  cannot read for one without the key (`StatusTruthful`), and nothing that was to be
  encrypted may be on disk in clear (`SealedOnDisk`).
* *Spelling.* Keys of URLs and of variants are made from text that clients write in many
  ways. One key for two resources, or two variants, serves the wrong response
  (`ResourcesApart`, `VariantsApart`, `OffersSurvive`); two keys for one resource leave
  behind what an invalidation should have removed (`KeyOfResource`, `OriginOfResource`).
  A directive misread lets through what was forbidden (`DirectivesReadBack`).
* *Shared memory.* Slices passed in and out of the in-memory cache (`IsConn`,
  `MapExclusive`); the body that a client reads while the background revalidation stores
  it again (`StoredBodiesWhole`).

`PROJECT.json` lists these as hazards with the line each bites at.

## The modules

| Module | Models | Notes |
|---|---|---|
| `Directives` | `ccdirectives.go` | a Cache-Control field as a record; `Absent` is no directive, `Bare` one whose value cannot be used; `Wrap` is 64-bit arithmetic with width `MaxDuration` |
| `Headers` | `helpers.go`, `header.go` | the fields the cache looks at; fixing of Date, merge of a 304 |
| `Freshness` | `freshness.go` | the verdict, as operators |
| `Cacheability` | `cacheabilityevaluator.go`, `requestmethodchecker.go` | the decisions, as operators |
| `StoredResponse` | one response over its life | variables `now`, `entry`, `born`; actions `Receive`, `Freshen`, `Tick` |
| `VaryIndex` | `varymatcher.go`, parts of `responsestorerer.go` | references, sorting, matching, update of an index |
| `Transport` | `roundtripper.go`, `validationresponsehandler.go`, `responsestorerer.go`, `cacheinvalidator.go` | the composition; see below |
| `Conn` | `driver.go` | the abstract backend: calls, each taking effect at one moment on a map |
| `MemCache` | `memcache.go` | lock, heap of slices, callers that keep using their slices |
| `FileNamer` | `filenamer.go` | how a key becomes a path, and back |
| `FsCache` | `fscache.go`, `encrypt.go` | one action per system call; timeouts, failures, crashes |
| `Opening` | `registry.go`, `cache.go`, options and `Open` of `fscache.go` | from a DSN to the possible results of opening it |
| `KeyApi` | `expapi.go` over `FsCache` and `Opening` | the composition; a program and the handlers on one directory |
| `Text` | `helpers.go`, `quotedstring.go`, `ccdirectives.go` | lists, quoted strings and directives, as folds over letters |
| `Normalization` | `normalization.go` | offers with parameters and qualities; the text of the Vary hash |
| `UrlKey` | `urlkey.go`, `urlutil.go`, `sameOrigin` | keys of URLs, over bytes |
| `HopByHop` | `helpers.go` | which fields of an answer and of a 304 are stored |
| `Texts` | what clients and origins write | one input, written item by item, with what is meant by it; the properties of the four modules before it |
| `MC...` | — | constants for TLC |
| `Folding` | — | induction over numbers; what a fold over a sequence, and the joining of sequences, compute |
| `...Proofs` | — | theorems and proofs |

**Transport.** `pc[p]` is where goroutine `p` is, `call[p]` its local variables. One
action ends where the code makes its next operation on the backend or on upstream, so
that everything between two such operations is one step and everything else may
interleave there: `Start` (method check, read of the index), the four `Lookup` actions
(read of the entry, verdict, and one of: miss, serve, validate, serve stale and launch),
`OriginReply` and `UpstreamFail` (the exchange), the `Receive` actions (what the answer
leads to), `SetEntry`, `SetEntryFails` and `SetRefs` (`StoreResponse`),
`InvalidateGetRefs`, `InvalidateSkip`, `InvalidateEntry`, `InvalidateKey`, and
`BackgroundSend`, `ContextDone`, `ReceiveLate`, `ReadBody`, `CloseBody` for background
revalidation. Contents are version numbers: `ver[u]` is what the origin has, a response
carries the version it shows. `done`, `raced` and `failed` are ghosts: the version the
last completed invalidation was for, whether a GET overlapped its end, and whether a
write of a response failed since.

**FsCache.** Each call appends a goroutine to `tasks`; its location `at` is the system
call it is about to make. The caller waits in `waits`, and leaves at its timeout while
the goroutine goes on. Files are inodes with blocks and a set of inodes that are not
synced; a crash may leave any prefix of the blocks of those. Directory entries are taken
to survive a crash once the system call that made them has returned. Encryption is
modelled by what GCM gives: a read succeeds only on exactly the blocks that one Set
sealed under one nonce. A call is made through one of the open caches, `Conns`: records
of the encryptor's key, the options and whether encryption was asked for.

**KeyApi.** `Opening!OpenConn` gives, for a DSN, the results that the registry, `fromURL`,
the options and `initialize` can have. A step of the program opens a cache and calls
`Set`; a request to a handler opens the cache of its DSN and calls `Get`, `Delete` or
`Keys` (`ServeByCall`), or is answered at once when nothing opens or what opens is an
in-memory cache (`ServeAtOnce`). `ServeEnd` turns the result into a status. Everything in
between is `FsCache`.

**Texts.** The text algorithms have no state, so `Texts` gives them inputs. Each input is
described by its meaning, e.g. a resource with its octets, and by a way to write it, e.g.
which letters are escaped; the definitions of `Texts` spell it out, the operators of
`Text`, `Normalization`, `UrlKey` and `HopByHop` read it, and the properties compare what
was read with what was meant. Nothing in a property looks at how the code works.

**MemCache** has the map, a heap of slices and the two sides of the lock; its refinement
mapping to `Conn` takes the contents of the mapped slices for the abstract map, and lets
a call take effect where the lock is held (`GetFind`, `SetStore`, `DeleteKey`). A Set
whose slice was changed by its caller during the call would break it; the interface
forbids that, and `Fill` happens between calls only.

## Runs

The passing runs together take about ten minutes. Bounds are named constants
(`MaxTime`, `MaxVersion`, `MaxCalls`, `MaxTransit`, `MaxSkew`, `MaxCrashes`). Where a
run ends because they are used up, a `Quiescent` step stands for that, so that deadlock
stays checked; only `StoredResponse`, whose clock simply stops, and `Texts`, whose input is
complete at some point, switch it off.

| Run | Instance | Checks |
|---|---|---|
| `stored` | two clock units a second, 7-bit durations, skew −2..4, transit up to 3, delta-seconds that overflow to negative and to small positive values | `TypeOK`, `AgeNeverUnderestimated`, `FreshOnlyWithinAllowance`, `StaleStaysStale` |
| `Race` | 2 clients, 3 calls, 3 versions, two variants a Vary that changes between none, a field, `*`, and a field with `*`; time stands still | `TypeOK`, `InvalidationEffective`, `RevalidatedIsCurrent`, `VarySound` |
| `Variants` | 1 client, 3 calls, values that normalise to each other, 3 URLs of 2 origins that answers name in Location fields, failing reads, writes and exchanges, time 0..1 | `VarySound`, `EveryEntryIndexed`, `IndexedOnce` |
| `Serving` | 1 client, 3 calls, all kinds of directives, preconditions of the client's own, time 0..3 | `UsableWithoutContact` |
| `Background` | 1 client, 3 calls, 1 background revalidation at a time, POSTs, contexts that end, failing exchanges, index operations and deletes, time 0..2 | `InvalidationEffective`, `UsableWithoutContact`, `StoredBodiesWhole`, `RevalidationEnds` |
| `MemRefines` | 2 callers, 2 keys, 6 slices | `MapExclusive`, `IsConn` |
| `FsEncrypted` | 1 caller, 3 calls that overlap because the caller leaves at timeouts, two keys one of whose files is the other's directory, failing writes, a crash anywhere | `TypeOK`, `IntactReads`, `NoGoroutineStuck` |
| `KeyApi` | 1 goroutine that stores or serves requests, 3 calls, DSNs with and without encryption, without a usable key, name or driver, failing system calls, a crash anywhere | `ReadsLastWrite`, `KeysListed`, `StatusTruthful`, `SealedOnDisk` |
| `Texts` | 2 directives with arguments of up to 2 letters, 3 offers, 2 selections of values for one or two of 3 fields, the name of one of which begins that of another, 2 of about 220 addresses, 3 answers | `DirectivesReadBack`, `OrderHasNoMeaning`, `OffersSurvive`, `VariantsApart`, `KeyOfResource`, `ResourcesApart`, `OriginOfResource`, `StoredEndToEnd` |

Why the bounds are enough. The shortest histories that go wrong when a line of the code
is changed (the mutants of `PROJECT.json`, one for each property) need at most two
goroutines on one URL, three calls and two versions; the bounds are those. Three
calls by two clients allow: store, then invalidate while another GET writes back what it
read before. Two units of time allow a response to be fresh, stale within the allowance,
and stale beyond it; `Serving` has a third for lifetimes of two. Six slices
are one in the map for each key, one in the hand of each caller and one being copied for
each. The two file names are of the least lengths at which one is whole and one split
(limit 3, fragments of 2, against 255 and 48 in the code). One value is enough in
both file system runs, where two Sets are told apart by their nonce, and a Set in clear
from an encrypted one by having none. One caller is enough in `FsEncrypted`: after a
timeout its goroutine goes on beside the next, so that all three calls overlap in every
way. In `Texts` a property relates two inputs, or a neighbour
and its neighbour: two directives, URLs or selections are all that can disagree, three
offers give sorting and compaction a middle, three answers a 304 on top of a 304. The
letters are those that some branch of the code looks at, and one or two others.

Symmetry is used for callers, keys and slices that no definition tells apart, and only in
runs without liveness.

Fairness. `Transport!FairSpec` has weak fairness of each background goroutine: the Go
scheduler runs it, operations of the backend return, and upstream answers or fails (its
request carries a context with `swrTimeout`). Nothing is asked of the clients, who need
not call again, return, or read their body; of the context, which may end or not; or of
the clock. No other run assumes fairness.

### Runs that show a disagreement

Each checks one property that quotes a comment, a test or the README of the repository,
and TLC finds a behaviour of the code that breaks it. The quotations are in the findings
of `PROJECT.json`.

| Run | What the run shows |
|---|---|
| `SwrIndex` | a background revalidation drops the other variants from the index |
| `NoStore304` | a 304 with `no-store` is merged and stored |
| `StaleIfError` | `stale-if-error` of the request and of the stored response has no effect |

Where the properties of the passing runs make an exception, it is for something the code
does, and the definition or its hazard says so:

* `InvalidationEffective` leaves out URLs for which a write failed since:
  `StoreResponse` drops the error and indexes whatever is under that ID
  (`responsestorerer.go:76`). It also leaves out URLs of which a GET was under way when the
  index was deleted: that GET may write back the index it read before, with references to
  responses that are not deleted yet or are stored again.
* `FreshOnlyWithinAllowance` leaves out `max-age=0`, which `freshness.go:144` takes for
  no `max-age`; `UsableWithoutContact` also leaves out requests with `max-age=0`,
  `max-stale` or `only-if-cached`, which ask for less.
* `EveryEntryIndexed` is for resources that keep their Vary: a reference that is updated
  to another Vary leaves its response behind.
* `RevalidatedIsCurrent` is, in the run `Race`, for clients without an `If-None-Match` or
  `If-Modified-Since` of their own. `withConditionalHeaders` replaces such a field by what
  the stored response has and leaves it in the request when that has nothing in its place,
  so that the answer may be a 304 about another version: with a GET that has `ims |-> 2` and
  `no-cache` among the requests of `Race`, and an answer without a tag, TLC finds a
  response of version 1 sent as REVALIDATED. The run `Serving` has such requests; its
  property takes the 304 for the confirmation that the cache takes it for.
* `StoredBodiesWhole` is for bodies of known length; of another, what the client has not
  read yet is stored.
* `IndexedOnce` leaves out references with Vary `*`: they match nothing, so that each such
  answer adds one more.
* `IntactReads` is checked for an encrypted cache: without encryption, Get may return a
  part of a value that is being written (`Set` truncates the file and writes in place).
* `StatusTruthful` leaves out the in-memory driver, of which each request opens an empty
  cache.
* `OffersSurvive` leaves out quality zero, which the code drops when written `0` or `0.0`
  and raises to 0.001 otherwise, and two offers of one main value: the comment at
  `normalization.go:215` says that one is kept for each main value, the code keeps one of
  each run of neighbours.
* `VariantsApart` leaves out what `Mistakable` describes, because `makeVaryHash` writes
  names and values without a separator: a value in which a name can be read, and a name that
  together with what follows it reads as a longer one. `Vary: Foo` with the value `-Barx` and
  `Vary: Foo-Bar` with the value `x` give one text. That the hash of different texts differs
  is not claimed (the code keeps 64 bits of it); `Transport` assumes it.
* `UsableWithoutContact` is about ages, and not about `no-cache` and `must-revalidate` where
  they conflict with other directives.
* `KeyOfResource` leaves out escaped dot segments, which are decoded after dot segments
  were removed.
* `Confused` lists what `ResourcesApart` leaves out: a port within or behind an IPv6
  address, whose brackets are dropped; an empty query against none; and octets beyond
  ASCII in a query (`KeyOfResource` leaves these out, too), which `isUnreserved` takes for
  letters of Latin-1 and writes as UTF-8. URLs with a malformed escape and opaque URLs are
  not in the instance.
* `DirectivesReadBack` is about one line of the field and names as they are written; the
  code does not fold their case and reads the first line only. Arguments are compared with
  their quotes, which the code takes off that of `no-cache` only: `max-age="60"` has no value.
* `ReadsLastWrite` is for callers that wait for their answers, since a Set that timed
  out goes on, and for keys whose files are not in each other's way: a key whose name
  ends at a fragment boundary is a file where a longer key needs a directory.

## Proofs

Eight modules hold theorems. The assumptions are the named `ASSUME`s of the modules that
declare the constants: the sentinels are no numbers, `Second` and `MaxDuration` are
positive with room for at least a second, clients and workers are different goroutines,
requests and answers are well-formed records, hashes of different resolved fields differ
(`HashAssumption`), times of `StoredResponse` stay within the range of a duration,
different keys have different encodings in the alphabet of file names and there is a key
(`NamerAssumption`), the system calls that may fail are those that `FsCache` lets fail
(`OptionsAssumption`), the open caches and the ways to open one are well-formed records
(`FsCache`, `UseAssumption` and `OpeningAssumption` of the key API).
For the texts they say what inputs are: the letters that the code looks at are letters
(`LetterAssumption`); a directive has a token for its name, and a token, a text to be quoted
or, if it is `no-cache`, a list of tokens for its argument, and a separator has a comma
(`DirectivesAssumption`); an offer is a record of a main, parameters and a quality that is
`Refused` or from 0 to `MaxQ`, and the number of `*` in a main, or in what it is an alias
for, is a natural number (`OffersAssumption`); a selection has nonempty texts for its names,
and for each of them a text as its value (`SelectionsAssumption`); a resource has a scheme,
a host without upper case letters in which colons are just those of an IPv6 address, a port
of digits, at least one segment, none of them `.` or `..`, and a query that is marked as
present when it is not empty (`AddressesAssumption`).
Where a theorem needs more, its own `ASSUME` says so, and the
table repeats it.

| Theorem | Property | For | Hypothesis beside the assumptions |
|---|---|---|---|
| `TypeCorrect`, `AgeSound`, `StaleSticks`, `FreshSound` | `TypeOK`, `AgeNeverUnderestimated`, `StaleStaysStale`, `FreshOnlyWithinAllowance` of `StoredResponse` | any answers, clocks, skews, delays, directives | none |
| `TransportTypeCorrect` | `TypeOK` of `Transport` | any goroutines, URLs, requests, answers, faults | none |
| `InvalidationSound` | `InvalidationEffective` | the same | none |
| `VariantsSound`, `BodiesWhole` | `VarySound`, `StoredBodiesWhole` | the same | none |
| `RevalidationSound` | `RevalidatedIsCurrent` | the same | no request has an If-None-Match or If-Modified-Since of its own (`NoOwnPrecondition`) |
| `ServedIsYoung` | `UsableWithoutContact` | the same | `InRange`: no answer is near 292 years old |
| `IndexSoundOnce` | `IndexedOnce` | the same | `KeepsVary`: what is stored keeps its Vary, which is not just `*` |
| `NoneLost` | `EveryEntryIndexed` | one client, no background revalidation, any URLs, requests, answers | `KeepsVary`, and operations on the index and deletions succeed |
| `MapSafe`, `MemCacheIsConn` | `MapExclusive`, `IsConn` | any callers, keys, values, slices | none |
| `NamesApart`, `NamesDecode` | — (no run: the runs have two keys) | any keys, name limit and fragment length | none |
| `FsTypeCorrect` | `TypeOK` of `FsCache` | any callers, caches, keys, timeouts, failures, crashes | none |
| `SealedReadsSound` | — (stronger than `IntactReads`: caches with and without encryption) | the same | none |
| `ReadsIntact` | `IntactReads` | the same | every cache encrypts |
| `ApiImplementsFsCache` | — (`ApiSpec` implements `Spec` of `FsCache`) | any DSNs and requests | none |
| `SealedOnDiskSound` | `SealedOnDisk` | the same | none |
| `LastWriteRead` | `ReadsLastWrite` | any keys, values, caches, calls, crashes and failing writes | `OneCaller`: one caller, no timeouts, system calls that read do not fail, no file where another key needs a directory; timeouts of caches are positive |
| `KeysAreListed` | `KeysListed` | the same | the same |
| `StatusIsTruthful` | `StatusTruthful` | the same, and any DSNs and requests | `OneCaller`, and removing and walking do not fail |
| `DirectivesRead` | `DirectivesReadBack` | any number of directives, names, arguments and separators of any length, any text in quotes | none |
| `OrderIgnored` | `OrderHasNoMeaning` | any number of offers and parameters, any order of them, each class of fields | none |
| `OffersKept` | `OffersSurvive` | any number of offers and parameters | none |
| `VariantsDiffer` | `VariantsApart` | any number of fields with any names, also such that begin others, values of any length | none |
| `OriginDecided` | `OriginOfResource` | any hosts and ports, however written | none |
| `KeysOfResource` | `KeyOfResource` | hosts, paths and queries of any length, however written | none |
| `KeysApart` | `ResourcesApart` | the same | none |
| `HeaderStored` | `StoredEndToEnd` | any fields and any number of 304s | none |

The hypotheses of `LastWriteRead`, `KeysAreListed` and `StatusIsTruthful` are what the
exceptions above say of `ReadsLastWrite`, and that no read fails: the properties promise an
answer, where the code answers such a failure with an error. `SerialAssumption` of `MCKeyApi`
states that the instance of the run `KeyApi` meets them, and TLC evaluates it.
`StatusIsTruthful` has no hypothesis on timeouts of caches: the options replace one that is
not positive, which is proved (`OpensAsAsked`).

The arguments, module by module:

* `FreshnessProofs`: lemmas on the operators: wrap-around arithmetic, bounds of delta
  values, of the heuristic and of the lifetime, monotonicity of the verdict in the age; that
  an age never comes out below what Date, Age and the clock account for (`AgeCovers`), and
  that overflow only ever shortens an allowance (`WrapShrinks`, `AllowanceShrinks`).
* `StoredResponseProofs`. That the age is not underestimated follows from no property of
  the current header alone; the inductive invariant `IInv` adds `Timely` (request, response
  and clock are in order and near each other) and `Accounted` (the Date and Age fields
  together account for the time since the content was generated, to the second).
  `StaleSticks` needs only that the age grows with the clock and never leaves the range in
  which the comparisons are monotone. `FreshSound` combines the age with `FreshMeansYoung`.
* `TransportProofs`. `TypeInv` says more than `TypeOK`: which local variables are set at
  which location (`LocalsOK`). For `InvalidationSound`: that nothing old is in the index is
  not inductive, because goroutines bring back what they have read. `InvalInv` adds: an index has IDs of its own
  URL only (`OwnInv`); an invalidation acts for a version the origin has reached
  (`PastInv`); and whatever a GET under way carries — the index it read, the entry it
  validates, the answer, the entry behind the reference it is about to write — is new
  enough as well (`CarryInv`).
* `ServingProofs`. `ServeInv` has a part for the index (a reference's ID is the key of its
  resolved fields), one for the entries (an entry is under the ID of its own Vary and of
  the request it is for) and one for each goroutine at each location. A reference that
  matches then leads to an entry whose Vary names just the fields that were compared,
  because hashes do not collide: that is `VarySound`, and nothing in it depends on which
  goroutine wrote last. `AgeInv` says of each response that is kept anywhere that its Age
  field covers the time from its content to the request that brought it; a 304 without an
  Age keeps the old one, which is too much and so still covers. `RevalidationSound` rests on
  the tag and the date of a kept response being those of its version (`Genuine`), which a
  304 to a client's own precondition would break.
* `ServingProofs`, about the index. `KeepInv(V)`: index and copies of it have one reference
  for each variant, and the reference that a call will replace is the one for its request, or there is none.
  `CoverInv`, for one caller: a call carries all that the index leads to; at most the
  response that is being stored is not indexed; and an invalidation deletes an index only
  after the responses that it has read from it.
* `MemCacheProofs`. The invariant is typing, which locals are set where (`LocalInv`), who
  holds the lock (`LockInv`), that no slice has two owners among map, hands and calls
  (`OwnInv`), and that a copy holds what was copied until it is published (`CopyInv`). Each
  step then maps to a step of `Conn` or to a stutter, lemma by lemma.
* `FsCacheProofs`. `NamesApart` and `NamesDecode` come first, because a file could otherwise
  have blocks of two keys, and `Keys` could list what was never stored. `FsInv` then says which system calls an operation makes in which state
  (`ControlInv`); that an inode in the tree, and one that a goroutine has open, was made
  for the key of that path (`TreeInv`, `OpenInv`); that blocks with a nonce were sealed by
  the Set of that number and for that key, in a file and in a reader's buffer (`DataInv`,
  `BufInv`); that blocks without one come from a cache without encryptor (`ClearInv`); and
  what a successful Get has (`GetInv`). `SealedOnDiskSound` adds that a cache for which
  encryption was asked has a key (`ConnsOpen`), which is about opening.
* `FsCacheProofs`, about one caller. What the properties promise depends on the history, which `tasks` keeps.
  `SeqInv` says that at most the last call is under way (`SerialInv`); that the path of a
  key leads to what the last change of it has left, synced, if that change succeeded, and
  to nothing if there was none (`FileInv`); and what each call has found so far and will
  answer, location by location (`CallsInv`), where a call that is over keeps its answer
  whatever happens later. A Set that fails, or a crash before its sync, ends what `FileInv`
  promises for that key until the next Set or Delete succeeds. For the handlers, `ApiInv`
  adds which call a request waits for (`ServedInv`) and that the reply is the status of
  that call's result (`ReplyInv`).

* `Folding`. The prover cannot instantiate an induction theorem whose property is an operator,
  but it can one whose property is a set: `Least` and `Induction` are about sets of numbers
  and follow from the well-foundedness of `<`. From them: a fold over a sequence is the last
  state of a run, a function from positions to states in which each follows from the one
  before (`FoldBy`), there is such a run (`FoldRun`), a fold over two texts one after the other
  is one fold after the other (`FoldConcat`), and two lists of words with one text are one
  list when it can be seen from what follows where the first word ends (`FlattenApart`). The
  module has its own definitions of `FoldLeft` and `FlattenSeq`, so that each loop can take an
  instance of it without one of the whole library; `TextsProofs` shows that they are the
  library's (`ReadingIs` to `FlattenIs`).
* `TextsProofs`. `Spec` only collects items, so that the theorems are about what the operators
  compute for them (`AlwaysWritten`).
  * *Directives.* A text is quiet in a mode of the reader if reading it only appends it to the
    current part. Tokens, quoted pairs and quoted strings are quiet (`QuietConcat` and after
    it), a separator with a comma ends a part, and blanks are trimmed: a list is read as it
    was written. What is unescaped is what was quoted.
  * *Offers.* `Insert` puts an element where its order wants it (`SortedInsert`), so that
    `InOrder` gives a sorted sequence in which everything is as often as before (`SortRun`).
    There is one such sequence only, when elements of which neither precedes the other are
    equal (`SortedIsUnique`): this is what the tie-breaks of the comparison are for
    (`PartsAreOrdered`). Another order of offers, or of parameters, changes no count
    (`CountShuffled`), and so no value. With different mains nothing is dropped
    (`CompactKeeps`).
  * *Vary.* The text that is hashed is a name, its value, the next name and so on. Where no
    name can be mistaken, the longest name that can be read at the beginning is the first
    one, and the next place at which a name can be read is where its value ends
    (`WordRead`). So two equal texts have the same first name and value (`FirstWord`), and
    by induction over the number of names they are of one selection (`HashTextsDiffer`).
  * *Escapes.* `N(s)` is `normalizePercentEncoding` of `s`; its recursion over positions is
    shown to depend only on the rest of the text (`FromShift`). `Normal(x, y)`: `x` gives `y`
    whatever follows it. Each way to write an octet is normal for one canonical form, hence
    so is each way to write a segment or a query; how many bytes a form has is seen from its
    first, so that canonical texts can be taken apart.
  * *Paths.* A path is cut at its slashes; the loop that removes dot segments leaves
    segments that are not dots as they are, and what a style writes before them comes to
    nothing, or to `.` for an escaped dot (`StyleDots`, `DotsRemoved`).
  * *Keys.* A host is cut at its last colon when digits follow (`HostReadBack`), which decides
    origins. A key (`KeyIs`) is cut at the first slash and, behind the path, at the first
    question mark (`KeyCut`); a host and a port that is written are cut at the colon, of which
    only an IPv6 address has several (`AuthoritiesApart`): that is where `Confused` is needed.
  * *Headers.* The recursion of `StoredHeader` over the answers, by `Induction`.

Only model-checked: `RevalidationEnds` and `NoGoroutineStuck`, because the prover does not
do fairness or `ENABLED`.

## Not modelled

* The user and password of a URL, which `urlkey.go` leaves out of the key.
* Parsing of dates and numbers, and the part of `net/url` that parses a URL: the models
  start from what these deliver. Values that are only lower-cased or trimmed before they
  are compared (`Content-Type`, `User-Agent`, dates, `Authorization`). In `Transport`,
  normalisation of a value is a parameter, any function, and the Vary hash is assumed to
  have no collisions; `Texts` checks the algorithms by themselves.
* Logging, tracing, options of the transport (they are constants of the models) and the
  formats of index and entries on the backend.
* `RegisterDriver`, which `init` functions call before there is a second goroutine, and
  the listing of drivers.
* The data race on the header map of a response that is shared by a client and a
  background revalidation: its consequences are not bounded by anything in the source.
* A stored response that varies on `If-None-Match` or another field the cache sets itself.
* Loss of directory entries at power failure, and modification times as such.
* An `Open` of the file system cache that has timed out and whose `initialize` goes on.
* Tests, mocks, the acceptance suite and the example.

## Plan

Written: the core (`Directives` to `Transport`), the two backends and `Conn`, opening and
the key handlers, the text algorithms, and the eight proof modules above. Next:

1. Proofs: `LastWriteRead` for callers whose keys are different.
2. `Transport` over `FsCache` in the places where the two meet: an entry that times out, a
   key that cannot be stored.
