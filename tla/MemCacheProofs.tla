--------------------------- MODULE MemCacheProofs ---------------------------
(***************************************************************************)
(* Proofs about MemCache: its map is used exclusively, and it implements   *)
(* the abstract Conn.                                                      *)
(***************************************************************************)
EXTENDS MemCache, TLAPS

\* What each location says of the local variables.
LocalInv ==
    \A c \in Callers :
        /\ pc[c] = "idle" => call[c] = NoCall
        /\ pc[c] # "idle" => call[c].op \in Operations /\ call[c].key \in Keys
        /\ pc[c] \in {"called", "locked"} => call[c].slice = 0 /\ call[c].res = "none"
        /\ pc[c] = "copied" => call[c].op = "set" /\ call[c].slice # 0
        /\ pc[c] = "found" => /\ call[c].op = "get" /\ call[c].slice # 0
                              /\ call[c].res = "ok"
        /\ pc[c] = "returning" =>
              /\ call[c].res \in {"ok", "notexist"}
              /\ call[c].slice # 0 <=> call[c].op = "get" /\ call[c].res = "ok"

\* Who is inside has the lock that its operation needs.
LockInv ==
    /\ writer # {} => readers = {}
    /\ \A c, d \in writer : c = d
    /\ \A c \in Callers :
          IF pc[c] \in {"idle", "called"}
          THEN c \notin writer /\ c \notin readers
          ELSE IF call[c].op = "get" THEN c \in readers ELSE c \in writer

(***************************************************************************)
(* Who may share a slice with whom.  The slice at hand is the caller's     *)
(* own; a copy that is not yet handed over is nobody else's.  Only what    *)
(* Get found in the map is shared, and it is read, never written.          *)
(***************************************************************************)
OwnInv ==
    /\ \A c, d \in Callers : held[c] = held[d] => c = d
    /\ \A c \in Callers, k \in Keys : held[c] # store[k]
    /\ \A c, d \in Callers : call[c].slice # held[d]
    /\ \A c \in Callers : pc[c] \in {"copied", "returning"} /\ call[c].slice # 0 =>
          /\ \A k \in Keys : call[c].slice # store[k]
          /\ \A d \in Callers : call[d].slice = call[c].slice => c = d

\* The copy that Set is about to store is still what the caller passed.
CopyInv ==
    \A c \in Callers : pc[c] = "copied" => heap[call[c].slice] = heap[held[c]]

Inv == TypeOK /\ LocalInv /\ LockInv /\ OwnInv /\ CopyInv

LEMMA InitInv == Init => Inv
  BY MemAssumption
     DEF Init, Inv, TypeOK, LocalInv, LockInv, OwnInv, CopyInv, NoCall, Call, Locations

\* The two outcomes of GetFind.
LEMMA GetFindCases ==
    ASSUME NEW c \in Callers, GetFind(c)
    PROVE  /\ pc[c] = "locked" /\ call[c].op = "get"
           /\ UNCHANGED <<heap, store, held, writer, readers>>
           /\ \/ /\ store[call[c].key] = 0
                 /\ pc' = [pc EXCEPT ![c] = "returning"]
                 /\ call' = [call EXCEPT ![c] = [call[c] EXCEPT !.res = "notexist"]]
              \/ /\ store[call[c].key] # 0
                 /\ pc' = [pc EXCEPT ![c] = "found"]
                 /\ call' = [call EXCEPT ![c] =
                               [call[c] EXCEPT !.res = "ok", !.slice = store[call[c].key]]]
  BY DEF GetFind, Goto, lock

\* A caller that is in a call has the record of one.
LEMMA InCall ==
    ASSUME Inv, NEW c \in Callers, pc[c] # "idle"
    PROVE  call[c] \in [op : Operations, key : Keys, slice : {0} \cup Slices,
                        res : {"none", "ok", "notexist"}]
  BY DEF Inv, TypeOK, LocalInv, Call, NoCall, Operations

LEMMA TypeStep == Inv /\ [Next]_vars => TypeOK'
<1> SUFFICES ASSUME Inv, [Next]_vars PROVE TypeOK'
  OBVIOUS
<1> USE MemAssumption DEF Inv, TypeOK
<1>1. CASE UNCHANGED vars
  BY <1>1 DEF vars
<1>2. ASSUME NEW c \in Callers, CallerStep(c) PROVE TypeOK'
  <2>1. ASSUME NEW val \in Values, Fill(c, val) PROVE TypeOK'
    BY <2>1 DEF Fill, lock
  <2>2. ASSUME NEW op \in Operations, NEW key \in Keys, Invoke(c, op, key) PROVE TypeOK'
    BY <2>2 DEF Invoke, Goto, Call, Locations, lock
  <2>0. ASSUME pc[c] # "idle"
        PROVE  call[c] \in [op : Operations, key : Keys, slice : {0} \cup Slices,
                            res : {"none", "ok", "notexist"}]
    BY <2>0, InCall
  <2>3. CASE Lock(c)
    BY <2>3 DEF Lock, Goto, Locations
  <2>4. CASE GetFind(c)
    <3>1. CASE /\ store[call[c].key] = 0
               /\ pc' = [pc EXCEPT ![c] = "returning"]
               /\ call' = [call EXCEPT ![c] = [call[c] EXCEPT !.res = "notexist"]]
      BY <2>0, <2>4, <3>1, GetFindCases DEF Call, Locations
    <3>2. CASE /\ store[call[c].key] # 0
               /\ pc' = [pc EXCEPT ![c] = "found"]
               /\ call' = [call EXCEPT ![c] =
                             [call[c] EXCEPT !.res = "ok", !.slice = store[call[c].key]]]
      BY <2>0, <2>4, <3>2, GetFindCases DEF Call, Locations
    <3> QED BY <2>4, <3>1, <3>2, GetFindCases
  <2>5. CASE GetCopy(c)
    BY <2>0, <2>5 DEF GetCopy, Goto, Call, Locations, lock, Unused, LocalInv
  <2>6. CASE SetCopy(c)
    BY <2>0, <2>6 DEF SetCopy, Goto, Call, Locations, lock, Unused
  <2>7. CASE SetStore(c)
    BY <2>0, <2>7 DEF SetStore, Goto, Call, Locations, lock
  <2>8. CASE DeleteKey(c)
    BY <2>0, <2>8 DEF DeleteKey, Goto, Call, Locations, lock
  <2>9. CASE Return(c)
    BY <2>0, <2>9 DEF Return, Goto, Call, Locations
  <2> QED BY <1>2, <2>1, <2>2, <2>3, <2>4, <2>5, <2>6, <2>7, <2>8, <2>9 DEF CallerStep
<1> QED BY <1>1, <1>2 DEF Next

LEMMA LocalStep == Inv /\ [Next]_vars => LocalInv'
<1> SUFFICES ASSUME Inv, [Next]_vars PROVE LocalInv'
  OBVIOUS
<1> USE DEF Inv, TypeOK, LocalInv
<1>1. CASE UNCHANGED vars
  BY <1>1 DEF vars
<1>2. ASSUME NEW c \in Callers, CallerStep(c) PROVE LocalInv'
  <2>0. ASSUME pc[c] # "idle"
        PROVE  call[c] \in [op : Operations, key : Keys, slice : {0} \cup Slices,
                            res : {"none", "ok", "notexist"}]
    BY <2>0, InCall
  <2>1. ASSUME NEW val \in Values, Fill(c, val) PROVE LocalInv'
    BY <2>1 DEF Fill
  <2>2. ASSUME NEW op \in Operations, NEW key \in Keys, Invoke(c, op, key) PROVE LocalInv'
    BY <2>2 DEF Invoke, Goto
  <2>3. CASE Lock(c)
    BY <2>0, <2>3 DEF Lock, Goto
  <2>4. CASE GetFind(c)
    <3>1. CASE /\ store[call[c].key] = 0
               /\ pc' = [pc EXCEPT ![c] = "returning"]
               /\ call' = [call EXCEPT ![c] = [call[c] EXCEPT !.res = "notexist"]]
      BY ZenonT(60), <2>0, <2>4, <3>1, GetFindCases
    <3>2. CASE /\ store[call[c].key] # 0
               /\ pc' = [pc EXCEPT ![c] = "found"]
               /\ call' = [call EXCEPT ![c] =
                             [call[c] EXCEPT !.res = "ok", !.slice = store[call[c].key]]]
      BY ZenonT(60), <2>0, <2>4, <3>2, GetFindCases
    <3> QED BY <2>4, <3>1, <3>2, GetFindCases
  <2>5. CASE GetCopy(c)
    BY <2>0, <2>5, MemAssumption DEF GetCopy, Goto, Unused
  <2>6. CASE SetCopy(c)
    BY <2>0, <2>6, MemAssumption DEF SetCopy, Goto, Unused
  <2>7. CASE SetStore(c)
    BY <2>0, <2>7 DEF SetStore, Goto
  <2>8. CASE DeleteKey(c)
    BY <2>0, <2>8 DEF DeleteKey, Goto
  <2>9. CASE Return(c)
    BY <2>9 DEF Return, Goto
  <2> QED BY <1>2, <2>1, <2>2, <2>3, <2>4, <2>5, <2>6, <2>7, <2>8, <2>9 DEF CallerStep
<1> QED BY <1>1, <1>2 DEF Next

LEMMA LockStep == Inv /\ [Next]_vars => LockInv'
<1> SUFFICES ASSUME Inv, [Next]_vars PROVE LockInv'
  OBVIOUS
<1> USE DEF Inv, TypeOK, LockInv
<1>1. CASE UNCHANGED vars
  BY <1>1 DEF vars
<1>2. ASSUME NEW c \in Callers, CallerStep(c) PROVE LockInv'
  <2>0. ASSUME pc[c] # "idle"
        PROVE  call[c] \in [op : Operations, key : Keys, slice : {0} \cup Slices,
                            res : {"none", "ok", "notexist"}]
    BY <2>0, InCall
  <2>1. ASSUME NEW val \in Values, Fill(c, val) PROVE LockInv'
    BY <2>1 DEF Fill, lock
  <2>2. ASSUME NEW op \in Operations, NEW key \in Keys, Invoke(c, op, key) PROVE LockInv'
    BY <2>2 DEF Invoke, Goto, lock
  <2>3. CASE Lock(c)
    BY <2>0, <2>3 DEF Lock, Goto
  <2>4. CASE GetFind(c)
    <3>1. CASE /\ store[call[c].key] = 0
               /\ pc' = [pc EXCEPT ![c] = "returning"]
               /\ call' = [call EXCEPT ![c] = [call[c] EXCEPT !.res = "notexist"]]
      BY <2>0, <2>4, <3>1, GetFindCases
    <3>2. CASE /\ store[call[c].key] # 0
               /\ pc' = [pc EXCEPT ![c] = "found"]
               /\ call' = [call EXCEPT ![c] =
                             [call[c] EXCEPT !.res = "ok", !.slice = store[call[c].key]]]
      BY <2>0, <2>4, <3>2, GetFindCases
    <3> QED BY <2>4, <3>1, <3>2, GetFindCases
  <2>5. CASE GetCopy(c)
    BY <2>0, <2>5 DEF GetCopy, Goto, lock
  <2>6. CASE SetCopy(c)
    BY <2>0, <2>6 DEF SetCopy, Goto, lock
  <2>7. CASE SetStore(c)
    BY <2>0, <2>7 DEF SetStore, Goto, lock
  <2>8. CASE DeleteKey(c)
    BY <2>0, <2>8 DEF DeleteKey, Goto, lock
  <2>9. CASE Return(c)
    BY <2>9 DEF Return, Goto
  <2> QED BY <1>2, <2>1, <2>2, <2>3, <2>4, <2>5, <2>6, <2>7, <2>8, <2>9 DEF CallerStep
<1> QED BY <1>1, <1>2 DEF Next

LEMMA OwnStep == Inv /\ [Next]_vars => OwnInv'
<1> SUFFICES ASSUME Inv, [Next]_vars PROVE OwnInv'
  OBVIOUS
<1> USE DEF Inv, TypeOK, OwnInv
<1>1. CASE UNCHANGED vars
  BY <1>1 DEF vars
<1>2. ASSUME NEW c \in Callers, CallerStep(c) PROVE OwnInv'
  <2>0. ASSUME pc[c] # "idle"
        PROVE  call[c] \in [op : Operations, key : Keys, slice : {0} \cup Slices,
                            res : {"none", "ok", "notexist"}]
    BY <2>0, InCall
  <2>1. ASSUME NEW val \in Values, Fill(c, val) PROVE OwnInv'
    BY <2>1 DEF Fill, lock
  <2>2. ASSUME NEW op \in Operations, NEW key \in Keys, Invoke(c, op, key) PROVE OwnInv'
    BY <2>2, MemAssumption DEF Invoke, Goto, lock
  <2>3. CASE Lock(c)
    BY <2>0, <2>3 DEF Lock, Goto
  <2>4. CASE GetFind(c)
    <3>1. CASE /\ store[call[c].key] = 0
               /\ pc' = [pc EXCEPT ![c] = "returning"]
               /\ call' = [call EXCEPT ![c] = [call[c] EXCEPT !.res = "notexist"]]
      <4>1. /\ UNCHANGED <<held, store>>
            /\ call'[c].slice = 0
            /\ \A d \in Callers \ {c} : call'[d] = call[d] /\ pc'[d] = pc[d]
        BY ZenonT(60), <2>0, <2>4, <3>1, GetFindCases DEF LocalInv
      <4> QED BY <4>1, MemAssumption
    <3>2. CASE /\ store[call[c].key] # 0
               /\ pc' = [pc EXCEPT ![c] = "found"]
               /\ call' = [call EXCEPT ![c] =
                             [call[c] EXCEPT !.res = "ok", !.slice = store[call[c].key]]]
      <4>1. /\ UNCHANGED <<held, store>>
            /\ pc'[c] = "found"
            /\ \E k \in Keys : call'[c].slice = store[k]
            /\ \A d \in Callers \ {c} : call'[d] = call[d] /\ pc'[d] = pc[d]
        BY <2>0, <2>4, <3>2, GetFindCases DEF LocalInv
      <4> QED BY <4>1
    <3> QED BY <2>4, <3>1, <3>2, GetFindCases
  <2>5. CASE GetCopy(c)
    BY <2>0, <2>5 DEF GetCopy, Goto, lock, Unused
  <2>6. CASE SetCopy(c)
    BY <2>0, <2>6 DEF SetCopy, Goto, lock, Unused
  <2>7. CASE SetStore(c)
    BY <2>0, <2>7, MemAssumption DEF SetStore, Goto, lock, LocalInv
  <2>8. CASE DeleteKey(c)
    BY <2>0, <2>8, MemAssumption DEF DeleteKey, Goto, lock, LocalInv
  <2>9. CASE Return(c)
    BY <2>9, MemAssumption DEF Return, Goto, NoCall, LocalInv
  <2> QED BY <1>2, <2>1, <2>2, <2>3, <2>4, <2>5, <2>6, <2>7, <2>8, <2>9 DEF CallerStep
<1> QED BY <1>1, <1>2 DEF Next

LEMMA CopyStep == Inv /\ [Next]_vars => CopyInv'
<1> SUFFICES ASSUME Inv, [Next]_vars PROVE CopyInv'
  OBVIOUS
<1> USE DEF Inv, TypeOK, CopyInv
<1>1. CASE UNCHANGED vars
  BY <1>1 DEF vars
<1>2. ASSUME NEW c \in Callers, CallerStep(c) PROVE CopyInv'
  <2>0. ASSUME pc[c] # "idle"
        PROVE  call[c] \in [op : Operations, key : Keys, slice : {0} \cup Slices,
                            res : {"none", "ok", "notexist"}]
    BY <2>0, InCall
  <2>1. ASSUME NEW val \in Values, Fill(c, val) PROVE CopyInv'
    BY <2>1 DEF Fill, OwnInv
  <2>2. ASSUME NEW op \in Operations, NEW key \in Keys, Invoke(c, op, key) PROVE CopyInv'
    BY <2>2 DEF Invoke, Goto
  <2>3. CASE Lock(c)
    BY <2>3 DEF Lock, Goto
  <2>4. CASE GetFind(c)
    BY ZenonT(60), <2>4, GetFindCases
  <2>5. CASE GetCopy(c)
    <3>1. PICK cp \in Unused : heap' = [heap EXCEPT ![cp] = heap[call[c].slice]]
      BY <2>5 DEF GetCopy
    <3> QED BY <2>0, <2>5, <3>1 DEF GetCopy, Goto, Unused
  <2>6. CASE SetCopy(c)
    <3>1. PICK cp \in Unused :
            /\ heap' = [heap EXCEPT ![cp] = heap[held[c]]]
            /\ Goto(c, "copied", [call[c] EXCEPT !.slice = cp])
      BY <2>6 DEF SetCopy
    <3>2. heap'[call'[c].slice] = heap[held[c]] /\ heap'[held'[c]] = heap[held[c]]
      BY <2>0, <2>6, <3>1 DEF SetCopy, Goto, Unused
    <3>3. ASSUME NEW d \in Callers \ {c}, pc'[d] = "copied"
          PROVE  heap'[call'[d].slice] = heap'[held'[d]]
      BY <2>6, <3>1, <3>3 DEF SetCopy, Goto, Unused
    <3> QED BY <3>2, <3>3
  <2>7. CASE SetStore(c)
    BY <2>7 DEF SetStore, Goto
  <2>8. CASE DeleteKey(c)
    BY <2>8 DEF DeleteKey, Goto
  <2>9. CASE Return(c)
    BY <2>9 DEF Return, Goto
  <2> QED BY <1>2, <2>1, <2>2, <2>3, <2>4, <2>5, <2>6, <2>7, <2>8, <2>9 DEF CallerStep
<1> QED BY <1>1, <1>2 DEF Next

LEMMA InvHolds == Spec => []Inv
<1>1. Inv /\ [Next]_vars => Inv'
  BY TypeStep, LocalStep, LockStep, OwnStep, CopyStep DEF Inv
<1> QED BY InitInv, <1>1, PTL DEF Spec

(***************************************************************************)
(* No call is inside while a Set or a Delete is: the mutex of memCache is  *)
(* held by every method from its first line to its return.                 *)
(***************************************************************************)
THEOREM MapSafe == Spec => []MapExclusive
<1>1. Inv => MapExclusive
  BY DEF Inv, LockInv, MapExclusive, TypeOK
<1> QED BY <1>1, InvHolds, PTL

-----------------------------------------------------------------------------
LEMMA InitRefines == Init => C!Init
  BY DEF Init, C!Init, C!Idle, Map, Pend, PendOf

\* A step that changes nothing that can be seen from outside.
LEMMA Invisible ==
    ASSUME \A k \in Keys : Map'[k] = Map[k],
           \A d \in Callers : PendOf(d)' = PendOf(d)
    PROVE  UNCHANGED C!vars
  BY DEF C!vars, Map, Pend

\* A step that changes what is seen of one caller only.
LEMMA OneCaller ==
    ASSUME NEW c \in Callers, NEW p, PendOf(c)' = p,
           \A d \in Callers \ {c} : PendOf(d)' = PendOf(d)
    PROVE  Pend' = [Pend EXCEPT ![c] = p]
  BY DEF Pend

\* A new copy of contents is not seen by the others.
LEMMA FreshCopy ==
    ASSUME Inv, NEW cp \in Unused, NEW v, heap' = [heap EXCEPT ![cp] = v],
           UNCHANGED <<store, held>>
    PROVE  /\ \A k \in Keys : Map'[k] = Map[k]
           /\ \A d \in Callers : /\ heap'[held[d]] = heap[held[d]]
                                 /\ heap'[call[d].slice] = heap[call[d].slice]
  BY DEF Inv, TypeOK, Map, Unused

\* What is seen of a caller depends on these only.
LEMMA SameCaller ==
    ASSUME NEW d \in Callers, pc'[d] = pc[d], call'[d] = call[d],
           heap'[held'[d]] = heap[held[d]],
           heap'[call'[d].slice] = heap[call[d].slice]
    PROVE  PendOf(d)' = PendOf(d)
  BY DEF PendOf

LEMMA FillRefines ==
    ASSUME Inv, NEW c \in Callers, NEW val \in Values, Fill(c, val)
    PROVE  UNCHANGED C!vars
<1> USE DEF Inv, TypeOK, OwnInv, Fill
<1>1. \A k \in Keys : Map'[k] = Map[k]
  BY DEF Map
<1>2. \A d \in Callers \ {c} : PendOf(d)' = PendOf(d)
  BY SameCaller
<1>3. PendOf(c)' = PendOf(c)
  BY DEF PendOf
<1> QED BY <1>1, <1>2, <1>3, Invisible

LEMMA InvokeRefines ==
    ASSUME Inv, NEW c \in Callers, NEW op \in Operations, NEW key \in Keys,
           Invoke(c, op, key)
    PROVE  C!Next
<1> USE DEF Inv, TypeOK, Invoke, Goto
<1> DEFINE val == IF op = "set" THEN heap[held[c]] ELSE 0
<1>1. Map' = Map
  BY DEF Map
<1>2. \A d \in Callers \ {c} : PendOf(d)' = PendOf(d)
  BY SameCaller
<1>3. PendOf(c)' = [phase |-> "called", op |-> op, key |-> key, val |-> val]
  BY DEF PendOf
<1>4. Pend[c] = C!Idle
  BY DEF Pend, PendOf, C!Idle
<1>5. C!Invoke(c, op, key, val)
  BY <1>1, <1>2, <1>3, <1>4, OneCaller DEF C!Invoke
<1> QED BY <1>5 DEF C!Next, Operations

LEMMA LockRefines ==
    ASSUME Inv, NEW c \in Callers, Lock(c)
    PROVE  UNCHANGED C!vars
<1> USE DEF Inv, TypeOK, Lock, Goto
<1>1. \A k \in Keys : Map'[k] = Map[k]
  BY DEF Map
<1>2. \A d \in Callers \ {c} : PendOf(d)' = PendOf(d)
  BY SameCaller
<1>3. PendOf(c)' = PendOf(c)
  BY DEF PendOf
<1> QED BY <1>1, <1>2, <1>3, Invisible

LEMMA GetFindRefines ==
    ASSUME Inv, NEW c \in Callers, GetFind(c)
    PROVE  C!Act(c)
<1> USE DEF Inv, TypeOK
<1> DEFINE key == call[c].key
<1>1. /\ pc[c] = "locked" /\ call[c].op = "get" /\ key \in Keys /\ call[c].slice = 0
      /\ UNCHANGED <<heap, store, held>>
  BY GetFindCases DEF LocalInv
<1>2. Pend[c] = [phase |-> "called", op |-> "get", key |-> key, val |-> 0]
  BY <1>1 DEF Pend, PendOf
<1>3. Map' = Map
  BY <1>1 DEF Map
<1>4. \A d \in Callers \ {c} : PendOf(d)' = PendOf(d)
  <2>1. \A d \in Callers \ {c} : pc'[d] = pc[d] /\ call'[d] = call[d]
    BY ZenonT(60), GetFindCases
  <2> QED BY <1>1, <2>1, SameCaller
<1>5. PendOf(c)' = C!Answer("get", key, Map[key])
  <2>0. call[c] \in [op : Operations, key : Keys, slice : {0} \cup Slices,
                     res : {"none", "ok", "notexist"}]
    BY <1>1, InCall
  <2>1. CASE store[key] = 0
    <3>1. pc'[c] = "returning" /\ call'[c] = [call[c] EXCEPT !.res = "notexist"]
      BY <2>1, GetFindCases
    <3> QED BY <1>1, <2>0, <2>1, <3>1 DEF PendOf, C!Answer, Map
  <2>2. CASE store[key] # 0
    <3>1. /\ pc'[c] = "found"
          /\ call'[c] = [call[c] EXCEPT !.res = "ok", !.slice = store[key]]
      BY ZenonT(60), <2>2, GetFindCases
    <3>2. Map[key] = heap[store[key]] /\ Map[key] # 0
      BY <1>1, <2>2, MemAssumption DEF Map
    <3> QED BY <1>1, <2>0, <2>2, <3>1, <3>2 DEF PendOf, C!Answer
  <2> QED BY <2>1, <2>2
<1> QED BY <1>2, <1>3, <1>4, <1>5, OneCaller DEF C!Act

LEMMA GetCopyRefines ==
    ASSUME Inv, NEW c \in Callers, GetCopy(c)
    PROVE  UNCHANGED C!vars
<1> USE DEF Inv, TypeOK
<1>0. /\ pc[c] = "found" /\ call[c].slice # 0
      /\ call[c] \in [op : Operations, key : Keys, slice : {0} \cup Slices,
                      res : {"none", "ok", "notexist"}]
  BY InCall DEF GetCopy, LocalInv
<1>1. PICK cp \in Unused :
        /\ heap' = [heap EXCEPT ![cp] = heap[call[c].slice]]
        /\ Goto(c, "returning", [call[c] EXCEPT !.slice = cp])
  BY DEF GetCopy
<1>2. \A k \in Keys : Map'[k] = Map[k]
  BY <1>1, FreshCopy DEF GetCopy
<1>3. \A d \in Callers \ {c} : PendOf(d)' = PendOf(d)
  <2>1. /\ UNCHANGED <<store, held>>
        /\ \A d \in Callers \ {c} : pc'[d] = pc[d] /\ call'[d] = call[d]
    BY <1>1 DEF GetCopy, Goto
  <2>2. \A d \in Callers : /\ heap'[held[d]] = heap[held[d]]
                          /\ heap'[call[d].slice] = heap[call[d].slice]
    BY <1>1, <2>1, FreshCopy
  <2> QED BY <2>1, <2>2, SameCaller
<1>4. /\ pc'[c] = "returning" /\ call'[c] = [call[c] EXCEPT !.slice = cp]
      /\ cp # 0 /\ heap'[cp] = heap[call[c].slice]
  BY <1>0, <1>1, MemAssumption DEF Goto, Unused
<1>5. PendOf(c)' = PendOf(c)
  BY <1>0, <1>4 DEF PendOf
<1> QED BY <1>2, <1>3, <1>5, Invisible

LEMMA SetCopyRefines ==
    ASSUME Inv, NEW c \in Callers, SetCopy(c)
    PROVE  UNCHANGED C!vars
<1> USE DEF Inv, TypeOK
<1>0. /\ pc[c] = "locked" /\ call[c].op = "set"
      /\ call[c] \in [op : Operations, key : Keys, slice : {0} \cup Slices,
                      res : {"none", "ok", "notexist"}]
  BY InCall DEF SetCopy
<1>1. PICK cp \in Unused :
        /\ heap' = [heap EXCEPT ![cp] = heap[held[c]]]
        /\ Goto(c, "copied", [call[c] EXCEPT !.slice = cp])
  BY DEF SetCopy
<1>2. \A k \in Keys : Map'[k] = Map[k]
  BY <1>1, FreshCopy DEF SetCopy
<1>3. \A d \in Callers \ {c} : PendOf(d)' = PendOf(d)
  <2>1. /\ UNCHANGED <<store, held>>
        /\ \A d \in Callers \ {c} : pc'[d] = pc[d] /\ call'[d] = call[d]
    BY <1>1 DEF SetCopy, Goto
  <2>2. \A d \in Callers : /\ heap'[held[d]] = heap[held[d]]
                          /\ heap'[call[d].slice] = heap[call[d].slice]
    BY <1>1, <2>1, FreshCopy
  <2> QED BY <2>1, <2>2, SameCaller
<1>4. heap'[held[c]] = heap[held[c]] /\ held' = held
  BY <1>1, FreshCopy DEF SetCopy
<1>5. PendOf(c)' = PendOf(c)
  BY <1>0, <1>1, <1>4 DEF PendOf, Goto
<1> QED BY <1>2, <1>3, <1>5, Invisible

LEMMA SetStoreRefines ==
    ASSUME Inv, NEW c \in Callers, SetStore(c)
    PROVE  C!Act(c)
<1> USE DEF Inv, TypeOK
<1> DEFINE key == call[c].key
           slice == call[c].slice
<1>1. /\ pc[c] = "copied" /\ call[c].op = "set" /\ key \in Keys /\ slice \in Slices
      /\ call[c] \in [op : Operations, key : Keys, slice : {0} \cup Slices,
                      res : {"none", "ok", "notexist"}]
      /\ heap[slice] = heap[held[c]]
  BY InCall DEF SetStore, LocalInv, CopyInv
<1>2. Pend[c] = [phase |-> "called", op |-> "set", key |-> key, val |-> heap[slice]]
  BY <1>1 DEF Pend, PendOf
<1>3. /\ pc' = [pc EXCEPT ![c] = "returning"]
      /\ call' = [call EXCEPT ![c] = [call[c] EXCEPT !.res = "ok", !.slice = 0]]
      /\ store' = [store EXCEPT ![key] = slice]
      /\ UNCHANGED <<heap, held>>
  BY DEF SetStore, Goto
<1>4. Map' = [Map EXCEPT ![key] = heap[slice]]
  BY <1>1, <1>3, MemAssumption DEF Map
<1>5. \A d \in Callers \ {c} : PendOf(d)' = PendOf(d)
  BY <1>3, SameCaller
<1>6. PendOf(c)' = C!Answer("set", key, Map[key])
  BY <1>1, <1>3 DEF PendOf, C!Answer
<1> QED BY <1>2, <1>4, <1>5, <1>6, OneCaller DEF C!Act

LEMMA DeleteKeyRefines ==
    ASSUME Inv, NEW c \in Callers, DeleteKey(c)
    PROVE  C!Act(c)
<1> USE DEF Inv, TypeOK
<1> DEFINE key == call[c].key
           res == IF store[key] = 0 THEN "notexist" ELSE "ok"
<1>1. /\ pc[c] = "locked" /\ call[c].op = "delete" /\ key \in Keys /\ call[c].slice = 0
      /\ call[c] \in [op : Operations, key : Keys, slice : {0} \cup Slices,
                      res : {"none", "ok", "notexist"}]
  BY InCall DEF DeleteKey, LocalInv
<1>2. Pend[c] = [phase |-> "called", op |-> "delete", key |-> key, val |-> 0]
  BY <1>1 DEF Pend, PendOf
<1>3. /\ pc' = [pc EXCEPT ![c] = "returning"]
      /\ call' = [call EXCEPT ![c] = [call[c] EXCEPT !.res = res]]
      /\ store' = [store EXCEPT ![key] = 0]
      /\ UNCHANGED <<heap, held>>
  BY DEF DeleteKey, Goto
<1>4. Map' = [Map EXCEPT ![key] = 0]
  BY <1>1, <1>3 DEF Map
<1>5. \A d \in Callers \ {c} : PendOf(d)' = PendOf(d)
  BY <1>3, SameCaller
<1>6. PendOf(c)' = C!Answer("delete", key, Map[key])
  <2>1. res = IF Map[key] # 0 THEN "ok" ELSE "notexist"
    BY <1>1, MemAssumption DEF Map
  <2> QED BY <1>1, <1>3, <2>1 DEF PendOf, C!Answer
<1> QED BY <1>2, <1>4, <1>5, <1>6, OneCaller DEF C!Act

LEMMA ReturnRefines ==
    ASSUME Inv, NEW c \in Callers, Return(c)
    PROVE  C!Respond(c)
<1> USE DEF Inv, TypeOK, Return, Goto
<1>1. Map' = Map
  BY DEF Map
<1>2. \A d \in Callers \ {c} : PendOf(d)' = PendOf(d)
  BY SameCaller
<1>3. PendOf(c)' = C!Idle
  BY DEF PendOf, C!Idle
<1>4. Pend[c].phase = "done"
  BY DEF Pend, PendOf
<1> QED BY <1>1, <1>2, <1>3, <1>4, OneCaller DEF C!Respond

LEMMA StepRefines == Inv /\ [Next]_vars => [C!Next]_(C!vars)
<1> SUFFICES ASSUME Inv, [Next]_vars PROVE [C!Next]_(C!vars)
  OBVIOUS
<1>1. CASE UNCHANGED vars
  BY <1>1 DEF vars, C!vars, Map, Pend, PendOf
<1>2. ASSUME NEW c \in Callers, CallerStep(c) PROVE [C!Next]_(C!vars)
  BY <1>2, FillRefines, InvokeRefines, LockRefines, GetFindRefines, GetCopyRefines,
     SetCopyRefines, SetStoreRefines, DeleteKeyRefines, ReturnRefines
     DEF CallerStep, C!Next
<1> QED BY <1>1, <1>2 DEF Next

(***************************************************************************)
(* The in-memory cache is a Conn for any callers, keys, values and slices: *)
(* GetFind, SetStore and DeleteKey are the moments at which the methods    *)
(* take effect, and what callers do with their slices is not seen.         *)
(***************************************************************************)
THEOREM MemCacheIsConn == Spec => IsConn
  BY InvHolds, InitRefines, StepRefines, PTL DEF Spec, IsConn, C!Spec
=============================================================================
