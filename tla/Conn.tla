-------------------------------- MODULE Conn --------------------------------
(***************************************************************************)
(* What a cache backend promises its callers (interface driver.Conn): each *)
(* call of Get, Set and Delete takes effect at one moment between the call *)
(* and its return, on one map from keys to values.                         *)
(***************************************************************************)
EXTENDS Naturals

CONSTANTS Callers,   \* goroutines that use the cache
          Keys,      \* keys
          Values     \* values, none of them 0

VARIABLES map,    \* the value of each key, or 0
          pend    \* the call of each caller

vars == <<map, pend>>

Idle == [phase |-> "idle"]

Init ==
    /\ map = [k \in Keys |-> 0]
    /\ pend = [c \in Callers |-> Idle]

Invoke(c, op, key, val) ==
    /\ pend[c] = Idle
    /\ pend' = [pend EXCEPT ![c] = [phase |-> "called", op |-> op, key |-> key, val |-> val]]
    /\ UNCHANGED map

\* What a call answers when the key has value v: its result and, for Get, v.
Answer(op, key, v) ==
    [phase |-> "done", op |-> op, key |-> key,
     res |-> IF op = "set" \/ v # 0 THEN "ok" ELSE "notexist",
     val |-> IF op = "get" THEN v ELSE 0]

\* The moment at which the call takes effect.
Act(c) ==
    /\ pend[c].phase = "called"
    /\ LET p == pend[c] IN
       /\ pend' = [pend EXCEPT ![c] = Answer(p.op, p.key, map[p.key])]
       /\ map' = CASE p.op = "set"    -> [map EXCEPT ![p.key] = p.val]
                   [] p.op = "delete" -> [map EXCEPT ![p.key] = 0]
                   [] p.op = "get"    -> map

Respond(c) ==
    /\ pend[c].phase = "done"
    /\ pend' = [pend EXCEPT ![c] = Idle]
    /\ UNCHANGED map

Next ==
    \E c \in Callers :
        \/ \E key \in Keys, val \in Values : Invoke(c, "set", key, val)
        \/ \E key \in Keys, op \in {"get", "delete"} : Invoke(c, op, key, 0)
        \/ Act(c)
        \/ Respond(c)

Spec == Init /\ [][Next]_vars
=============================================================================
