------------------------------- MODULE KeyApi -------------------------------
(***************************************************************************)
(* The HTTP handlers that list, show and delete cached keys (store/expapi) *)
(* while a program stores responses in the same file system cache.  Each   *)
(* request opens the cache of its DSN anew and makes one call.             *)
(*                                                                         *)
(* served[c] is the request whose handler runs in goroutine c; reply is    *)
(* the answer that the last step sent, if it sent one, with the number of  *)
(* the call it is about, or 0.                                             *)
(***************************************************************************)
EXTENDS FsCache

CONSTANTS ProgramDsns,  \* DSNs with which the program opens its caches
          ApiDsns,      \* DSNs in requests to the handlers
          Drivers, EnvKey, DefaultTimeout, InitFails

O == INSTANCE Opening

ASSUME OpeningAssumption ==
    /\ ProgramDsns \cup ApiDsns \subseteq O!Dsn
    /\ Drivers \subseteq {"fscache", "memcache"}
    /\ EnvKey \in Nat \cup {O!BadKeyText}
    /\ DefaultTimeout \in Nat \ {0}
    /\ InitFails \in BOOLEAN

\* The handlers and the program use every operation, on the caches that open.
ASSUME UseAssumption ==
    /\ Operations = {"get", "set", "delete", "keys"}
    /\ \A dsn \in ProgramDsns \cup ApiDsns :
          dsn.scheme = "fscache" /\ ~ O!OptionError(dsn) => O!FsConn(dsn) \in Conns

VARIABLES served, reply

apiVars == <<vars, served, reply>>

NoRequest == [op |-> "none"]
NoReply == [op |-> "none", scheme |-> "none", status |-> 0, n |-> 0]

ApiInit ==
    /\ Init
    /\ served = [c \in Callers |-> NoRequest]
    /\ reply = NoReply

Requests ==
    [op : {"get", "delete"}, dsn : ApiDsns, key : Keys, prefix : {{}}]
    \cup [op : {"keys"}, dsn : ApiDsns, key : {NoKey}, prefix : Prefixes]

\* Mutation: the error of the cache hides that the key does not exist.
StatusOpaque(op, out) ==
    IF out # "ok" THEN 500 ELSE IF op = "delete" THEN 204 ELSE 200

\* The status for the result of Keys, Get or Delete.
Status(op, out) ==
    CASE out = "ok"       -> IF op = "delete" THEN 204 ELSE 200
      [] out = "notexist" -> 404
      [] OTHER            -> 500

\* What the handlers answer on a new in-memory cache, which is no KeyLister.
MemStatus(op) == IF op = "keys" THEN 501 ELSE Status(op, "notexist")

Reply(req, status, n) == [op |-> req.op, scheme |-> req.dsn.scheme, status |-> status, n |-> n]
NoAnswer == reply' = NoReply

\* The answers to a request that is over without a call of a file system cache.
AtOnce(req) ==
    { Reply(req, IF opened.ok THEN MemStatus(req.op) ELSE 500, 0) :
        opened \in { o \in O!OpenConn(req.dsn) : o.ok => o.driver = "memcache" } }

AllAtOnce == UNION { AtOnce(req) : req \in Requests }

\* connHandler, when the cache does not open or is an in-memory cache.
ServeAtOnce(c) ==
    /\ Free(c)
    /\ reply' \in AllAtOnce
    /\ UNCHANGED <<vars, served>>

\* connHandler, then list, retrieve or destroy up to their call.
ServeByCall(c, req) ==
    /\ Free(c)
    /\ \E opened \in O!OpenConn(req.dsn) :
         /\ opened.ok /\ opened.driver = "fscache"
         /\ Call(c, opened.conn, req.op, req.key, 0, req.prefix)
    /\ served' = [served EXCEPT ![c] = req]
    /\ NoAnswer

\* The call returns and the handler answers.
ServeEnd(c) ==
    /\ served[c] # NoRequest
    /\ Answered(c)
    /\ reply' = Reply(served[c], Status(served[c].op, tasks'[waits[c]].out), waits[c])
    /\ served' = [served EXCEPT ![c] = NoRequest]

\* The program stores something with a cache it has opened.
ProgramSet(c) ==
    /\ Free(c)
    /\ \E dsn \in ProgramDsns : \E opened \in O!OpenConn(dsn) :
         /\ opened.ok /\ opened.driver = "fscache"
         /\ \E key \in Keys, val \in Values : Call(c, opened.conn, "set", key, val, {})
    /\ NoAnswer /\ UNCHANGED served

ProgramReturn(c) ==
    /\ served[c] = NoRequest
    /\ Answered(c)
    /\ NoAnswer /\ UNCHANGED served

ApiNext ==
    \/ \E c \in Callers : \/ ServeAtOnce(c) \/ (\E req \in Requests : ServeByCall(c, req))
                          \/ ServeEnd(c) \/ ProgramSet(c) \/ ProgramReturn(c)
    \/ \E n \in 1 .. Len(tasks) : SystemCall(n) /\ NoAnswer /\ UNCHANGED served
    \/ Crash /\ served' = [c \in Callers |-> NoRequest] /\ NoAnswer
    \/ Quiescent /\ UNCHANGED <<served, reply>>

ApiSpec == ApiInit /\ [][ApiNext]_apiVars

-----------------------------------------------------------------------------
(***************************************************************************)
(* An answer says what is so, to a program that waits for its answers: 404 *)
(* when nothing is stored under the key and only then, 204 when there was  *)
(* something to delete, and 200 when the value can be shown.  A cache that *)
(* cannot be opened or decrypted is an error (500) and never makes a key   *)
(* seem to be missing.  Not so for an in-memory cache: a handler opens one *)
(* of its own, in which every key is missing.                              *)
(***************************************************************************)
StatusTruthful ==
    LET n == reply.n
        key == tasks[n].key
        absent == \/ Mutations(n, key) = {}
                  \/ \E m \in Mutations(n, key) : LeftBy(n, key, m) /\ tasks[m].op = "delete"
        present(m) == LeftBy(n, key, m) /\ tasks[m].op = "set"
    IN  IF n = 0
        THEN reply.scheme # "memcache" => reply.status \in {0, 500}
        ELSE /\ reply.op \in {"get", "delete"} =>
                  /\ absent => reply.status = 404
                  /\ \A m \in Mutations(n, key) : present(m) =>
                       reply.status = CASE reply.op = "delete" -> 204
                                        [] reply.op = "get" /\ Readable(n, m) -> 200
                                        [] OTHER -> 500
             /\ reply.op = "keys" => reply.status = 200

(***************************************************************************)
(* Whoever asks for encryption gets it or an error: whatever is on disk in *)
(* clear was written through a cache that was opened without asking for    *)
(* it, wherever the key is looked for, and whatever other caches are open  *)
(* on the same directory.                                                  *)
(***************************************************************************)
SealedOnDisk ==
    \A i \in Inodes : \A j \in DOMAIN data[i] :
        LET block == data[i][j] IN
        block.val # 0 /\ block.nonce = 0 =>
            \E m \in 1 .. Len(tasks) : /\ tasks[m].op = "set" /\ tasks[m].val = block.val
                                       /\ ~ tasks[m].conn.sealed
=============================================================================
