------------------------------ MODULE MemCache ------------------------------
(***************************************************************************)
(* The in-memory cache (store/memcache/memcache.go): a map from keys to    *)
(* byte slices under a sync.RWMutex.                                       *)
(*                                                                         *)
(* A slice is an address of the heap; two holders of one address see each  *)
(* other's changes.  A caller has one slice at hand: it fills it, passes   *)
(* it to Set, and takes the one that Get returns in its place.             *)
(***************************************************************************)
EXTENDS Naturals

CONSTANTS Callers,   \* goroutines that use the cache
          Keys,      \* keys
          Values,    \* what a slice may hold
          Slices     \* addresses of slices

ASSUME MemAssumption == Values \subseteq Nat \ {0} /\ 0 \notin Slices

VARIABLES heap,    \* the contents of each slice
          store,   \* the map of the cache: the slice of each key, or 0
          held,    \* the slice that each caller has at hand
          writer,  \* mu: the callers that have locked it, at most one
          readers, \* mu: the callers that have read-locked it
          pc,      \* where each caller is
          call     \* the operation and its local variables

lock == <<writer, readers>>
vars == <<heap, store, held, writer, readers, pc, call>>

Operations == {"get", "set", "delete"}

NoCall == [op |-> "none", key |-> 0, slice |-> 0, res |-> "none"]

Call == [op : Operations, key : Keys, slice : {0} \cup Slices,
         res : {"none", "ok", "notexist"}] \cup {NoCall}

Locations == {"idle", "called", "locked", "copied", "found", "returning"}

\* Slices that nothing refers to: what make may return.
Unused == Slices \ ({ store[k] : k \in Keys } \cup { held[c] : c \in Callers }
                    \cup { call[c].slice : c \in Callers })

Init ==
    /\ heap \in [Slices -> Values]
    /\ store = [k \in Keys |-> 0]
    /\ held \in [Callers -> Slices]
    /\ \A c, d \in Callers : held[c] = held[d] => c = d
    /\ writer = {} /\ readers = {}
    /\ pc = [c \in Callers |-> "idle"]
    /\ call = [c \in Callers |-> NoCall]

Goto(c, where, locals) ==
    /\ pc' = [pc EXCEPT ![c] = where]
    /\ call' = [call EXCEPT ![c] = locals]

\* Between calls a caller fills its slice as it likes.
Fill(c, val) ==
    /\ pc[c] = "idle"
    /\ heap' = [heap EXCEPT ![held[c]] = val]
    /\ UNCHANGED <<store, held, lock, pc, call>>

Invoke(c, op, key) ==
    /\ pc[c] = "idle"
    /\ Goto(c, "called", [op |-> op, key |-> key, slice |-> 0, res |-> "none"])
    /\ UNCHANGED <<heap, store, held, lock>>

\* Mutation: only Set locks for writing.
LockDeleteShared(c) ==
    /\ pc[c] = "called"
    /\ writer = {}
    /\ IF call[c].op \in {"get", "delete"}
       THEN readers' = readers \cup {c} /\ UNCHANGED writer
       ELSE readers = {} /\ writer' = {c} /\ UNCHANGED readers
    /\ Goto(c, "locked", call[c])
    /\ UNCHANGED <<heap, store, held>>

\* mu.RLock in Get, mu.Lock in Set and Delete.
Lock(c) ==
    /\ pc[c] = "called"
    /\ writer = {}
    /\ IF call[c].op = "get"
       THEN readers' = readers \cup {c} /\ UNCHANGED writer
       ELSE readers = {} /\ writer' = {c} /\ UNCHANGED readers
    /\ Goto(c, "locked", call[c])
    /\ UNCHANGED <<heap, store, held>>

-----------------------------------------------------------------------------
\* Get: the map is read, then the slice found is copied.
GetFind(c) ==
    /\ pc[c] = "locked" /\ call[c].op = "get"
    /\ LET slice == store[call[c].key] IN
       IF slice = 0
       THEN Goto(c, "returning", [call[c] EXCEPT !.res = "notexist"])
       ELSE Goto(c, "found", [call[c] EXCEPT !.res = "ok", !.slice = slice])
    /\ UNCHANGED <<heap, store, held, lock>>

\* Mutation: Get returns the slice that is in the map.
GetCopyShared(c) ==
    /\ pc[c] = "found"
    /\ Goto(c, "returning", call[c])
    /\ UNCHANGED <<heap, store, held, lock>>

GetCopy(c) ==
    /\ pc[c] = "found"
    /\ \E cp \in Unused :
          /\ heap' = [heap EXCEPT ![cp] = heap[call[c].slice]]
          /\ Goto(c, "returning", [call[c] EXCEPT !.slice = cp])
    /\ UNCHANGED <<store, held, lock>>

\* Set: the caller's slice is copied, then the copy is put into the map.
SetCopy(c) ==
    /\ pc[c] = "locked" /\ call[c].op = "set"
    /\ \E cp \in Unused :
          /\ heap' = [heap EXCEPT ![cp] = heap[held[c]]]
          /\ Goto(c, "copied", [call[c] EXCEPT !.slice = cp])
    /\ UNCHANGED <<store, held, lock>>

SetStore(c) ==
    /\ pc[c] = "copied"
    /\ store' = [store EXCEPT ![call[c].key] = call[c].slice]
    /\ Goto(c, "returning", [call[c] EXCEPT !.res = "ok", !.slice = 0])
    /\ UNCHANGED <<heap, held, lock>>

DeleteKey(c) ==
    /\ pc[c] = "locked" /\ call[c].op = "delete"
    /\ LET key == call[c].key IN
       /\ store' = [store EXCEPT ![key] = 0]
       /\ Goto(c, "returning",
               [call[c] EXCEPT !.res = IF store[key] = 0 THEN "notexist" ELSE "ok"])
    /\ UNCHANGED <<heap, held, lock>>

\* The deferred unlock, and the return to the caller.
Return(c) ==
    /\ pc[c] = "returning"
    /\ writer' = writer \ {c}
    /\ readers' = readers \ {c}
    /\ held' = IF call[c].slice = 0 THEN held ELSE [held EXCEPT ![c] = call[c].slice]
    /\ Goto(c, "idle", NoCall)
    /\ UNCHANGED <<heap, store>>

CallerStep(c) ==
    \/ \E val \in Values : Fill(c, val)
    \/ \E op \in Operations, key \in Keys : Invoke(c, op, key)
    \/ Lock(c)
    \/ GetFind(c) \/ GetCopy(c)
    \/ SetCopy(c) \/ SetStore(c)
    \/ DeleteKey(c)
    \/ Return(c)

Next == \E c \in Callers : CallerStep(c)

Spec == Init /\ [][Next]_vars

-----------------------------------------------------------------------------
TypeOK ==
    /\ heap \in [Slices -> Values]
    /\ store \in [Keys -> {0} \cup Slices]
    /\ held \in [Callers -> Slices]
    /\ writer \subseteq Callers /\ readers \subseteq Callers
    /\ pc \in [Callers -> Locations]
    /\ call \in [Callers -> Call]

(***************************************************************************)
(* While a Set or a Delete is between its lock and its unlock, no other    *)
(* call is: a Go map that is changed while another goroutine uses it stops *)
(* the program.                                                            *)
(***************************************************************************)
MapExclusive ==
    \A c, d \in Callers :
        /\ pc[c] \notin {"idle", "called"} /\ call[c].op \in {"set", "delete"}
        /\ pc[d] \notin {"idle", "called"}
        => c = d

(***************************************************************************)
(* What the cache looks like from outside: a key has the contents of its   *)
(* slice, and a call has taken effect once the map was read or changed.    *)
(***************************************************************************)
Map == [k \in Keys |-> IF store[k] = 0 THEN 0 ELSE heap[store[k]]]

PendOf(c) ==
    CASE pc[c] = "idle" -> [phase |-> "idle"]
      [] pc[c] \in {"called", "locked", "copied"} ->
           [phase |-> "called", op |-> call[c].op, key |-> call[c].key,
            val |-> IF call[c].op = "set" THEN heap[held[c]] ELSE 0]
      [] pc[c] \in {"found", "returning"} ->
           [phase |-> "done", op |-> call[c].op, key |-> call[c].key,
            res |-> call[c].res,
            val |-> IF call[c].slice = 0 THEN 0 ELSE heap[call[c].slice]]

Pend == [c \in Callers |-> PendOf(c)]

C == INSTANCE Conn WITH map <- Map, pend <- Pend

(***************************************************************************)
(* The cache is a Conn: whatever callers do with the slices they passed or *)
(* were given, and however their calls overlap, each call takes effect at  *)
(* one moment on a map that nothing else changes.                          *)
(***************************************************************************)
IsConn == C!Spec
=============================================================================
