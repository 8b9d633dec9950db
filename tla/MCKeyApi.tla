------------------------------ MODULE MCKeyApi ------------------------------
(***************************************************************************)
(* An instance of KeyApi for TLC: one goroutine that now stores something  *)
(* and now serves a request; DSNs with and without encryption, of which    *)
(* some have no usable key, no name, a negative timeout or another driver. *)
(***************************************************************************)
EXTENDS KeyApi

MCSize == [v \in Values |-> v]

MCEncoded ==
    [k \in Keys |-> CASE k = "short" -> <<1, 2, 3>>
                      [] k = "longer" -> <<1, 2, 3, 4, 5>>]

Clear == [scheme |-> "fscache", appname |-> TRUE, encrypt |-> "", key |-> 0,
          timeout |-> -1, updateMTime |-> ""]
Sealed == [Clear EXCEPT !.encrypt = "on", !.key = 1, !.timeout = 7]
Keyless == [Clear EXCEPT !.encrypt = "aesgcm"]

MCProgramDsns == {Clear, Sealed, Keyless}
MCApiDsns == {Clear, Sealed, [Keyless EXCEPT !.appname = FALSE],
              [Clear EXCEPT !.scheme = "memcache"], [Clear EXCEPT !.scheme = "none"]}

\* The caches that these ask for, also where they do not open.
MCConns == { O!FsConn(dsn) : dsn \in MCProgramDsns \cup MCApiDsns }

\* The instance is one to which the theorems about one caller apply.
ASSUME SerialAssumption ==
    /\ \E c \in Callers : Callers = {c}
    /\ ~ Timeouts
    /\ Faults \cap {"open", "read", "chtimes", "remove", "walk"} = {}
    /\ \A k, l \in Keys : FileName(k) \notin Ancestors(FileName(l))
    /\ \A conn \in Conns : conn.timeout > 0
=============================================================================
