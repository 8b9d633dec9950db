------------------------------- MODULE FsCache -------------------------------
(***************************************************************************)
(* The file system cache (store/fscache).                                  *)
(*                                                                         *)
(* Each call of Get, Set, Delete or Keys starts a goroutine that does the  *)
(* work and a select that waits for its result or for the timeout.  A call *)
(* that times out returns; its goroutine goes on.  tasks[n] is the         *)
(* goroutine of the n-th call.  The kernel makes one system call atomic,   *)
(* never two, and a crash may come between any two.                        *)
(*                                                                         *)
(* Contents are sequences of blocks.  A file is an inode, numbered by the  *)
(* call that created it, that open files keep alive after it is unlinked.  *)
(*                                                                         *)
(* An open cache is a record: enc is 0 without an encryptor, and names the *)
(* key of the encryptor otherwise; updateMTime and timeout are its options *)
(* and sealed says whether encryption was asked for when it was opened.    *)
(***************************************************************************)
EXTENDS Integers, FileNamer

CONSTANTS Callers,      \* goroutines that use the cache
          Values,       \* what they store
          Size,         \* number of blocks of each value
          MaxSize,      \* bound on that number
          Operations,   \* the operations that they call
          Prefixes,     \* the prefixes they list, as sets of keys
          Conns,        \* the open caches (fsCache) on one directory
          Timeouts,     \* whether an operation may outlast its timeout
          Faults,       \* locations at which a system call may fail
          MaxCalls,     \* bound on the calls
          MaxCrashes    \* bound on the crashes

ASSUME ValuesAssumption ==
    /\ Values \subseteq Nat \ {0}
    /\ MaxSize \in Nat
    /\ Size \in [Values -> 1 .. MaxSize]
ASSUME OptionsAssumption ==
    /\ Timeouts \in BOOLEAN
    /\ Operations \subseteq {"get", "set", "delete", "keys"}
    /\ Prefixes \subseteq SUBSET Keys
    /\ Faults \subseteq {"mkdir", "create", "write", "sync", "open", "read", "chtimes",
                         "remove", "walk"}
ASSUME ConnsAssumption ==
    Conns \subseteq [enc : Nat, sealed : BOOLEAN, updateMTime : BOOLEAN, timeout : Int]
ASSUME CallsAssumption == MaxCalls \in Nat /\ MaxCrashes \in Nat

VARIABLES tasks,    \* the goroutines, in the order of their calls
          waits,    \* the call each caller waits for, or 0
          tree,     \* what each path is: Missing, Directory or an inode
          data,     \* the blocks of each inode
          dirty,    \* inodes with changes that are not synced
          crashes   \* number of crashes so far

files == <<tree, data, dirty>>
vars  == <<tasks, waits, tree, data, dirty, crashes>>

Missing   == 0
Directory == -1
Inodes    == 1 .. MaxCalls

\* A block of a value, under the nonce it was sealed with; a hole in a file.
Block == [val : Nat, at : Nat, nonce : Nat]
Hole  == [val |-> 0, at |-> 0, nonce |-> 0]

Locations == {"mkdir", "create", "write", "sync", "open", "read", "chtimes",
              "remove", "walk", "done", "gone"}
Results   == {"none", "ok", "notexist", "error", "timeout"}

(***************************************************************************)
(* pos counts the blocks read or written; todo are the paths the walk has  *)
(* still to visit and found the keys it has.  res is what the goroutine    *)
(* sends on its channel and out what the caller is given.                  *)
(***************************************************************************)
Task == [op : Operations, key : Keys, val : {0} \cup Values, prefix : SUBSET Keys,
         conn : Conns, at : Locations, file : {Missing} \cup Inodes, pos : Nat,
         buf : Seq(Block), todo : SUBSET Paths, found : SUBSET Keys,
         res : Results, out : Results]

Init ==
    /\ tasks = <<>>
    /\ waits = [c \in Callers |-> 0]
    /\ tree = [p \in Paths |-> Missing]
    /\ data = [i \in Inodes |-> <<>>]
    /\ dirty = {}
    /\ crashes = 0

-----------------------------------------------------------------------------
\* Where the goroutine of an operation starts.
Entrance(op) == CASE op = "set" -> "mkdir" [] op = "get" -> "open"
                  [] op = "delete" -> "remove" [] op = "keys" -> "walk"

\* A caller that waits for nothing may call, up to the bound on the calls.
Free(c) == waits[c] = 0 /\ Len(tasks) < MaxCalls

\* A caller calls the cache: the goroutine starts and the caller waits.
\* A prefix is modelled by the keys that have it.
Call(c, conn, op, key, val, prefix) ==
    /\ Free(c)
    /\ tasks' = Append(tasks,
          [op |-> op, key |-> key, val |-> val, prefix |-> prefix,
           conn |-> conn, at |-> Entrance(op), file |-> Missing, pos |-> 0, buf |-> <<>>,
           todo |-> IF op = "keys" THEN Paths ELSE {}, found |-> {},
           res |-> "none", out |-> "none"])
    /\ waits' = [waits EXCEPT ![c] = Len(tasks) + 1]
    /\ UNCHANGED <<files, crashes>>

\* The goroutine goes to its next system call.
Goto(n, where) == tasks' = [tasks EXCEPT ![n].at = where]

\* Mutation: the channel has no buffer, so that a send waits for a receiver.
EndUnbuffered(n, res) ==
    /\ \E c \in Callers : waits[c] = n
    /\ tasks' = [tasks EXCEPT ![n].at = "done", ![n].res = res]

\* It sends its result; the channel has room for it if nobody receives.
End(n, res) == tasks' = [tasks EXCEPT ![n].at = "done", ![n].res = res]

At(n, where)  == tasks[n].at = where
Name(n)       == FileName(tasks[n].key)

\* A component of the path that should be a directory is a file.
UnderFile(path) == \E p \in Ancestors(path) : tree[p] \in Inodes

\* What Set writes: each call of Encrypt draws a nonce of its own.
Content(n) ==
    [i \in 1 .. Size[tasks[n].val] |->
        [val |-> tasks[n].val, at |-> i,
         nonce |-> IF tasks[n].conn.enc = 0 THEN 0 ELSE n]]

\* Mutation: decryption without authentication.
DecryptsAnything(enc, blocks) == enc # 0 => Len(blocks) > 0

(***************************************************************************)
(* Decrypt authenticates: only what Encrypt returned under the same key,   *)
(* and all of it, opens.  Without an encryptor everything is read as it is.*)
(***************************************************************************)
Decrypts(enc, blocks) ==
    enc # 0 => \E n \in 1 .. Len(tasks) : /\ tasks[n].op = "set" /\ tasks[n].conn.enc = enc
                                         /\ blocks = Content(n)

(***************************************************************************)
(* set: MkdirAll, Create (which truncates), Write and Sync.                *)
(***************************************************************************)
SetMkdir(n) ==
    /\ At(n, "mkdir")
    /\ IF UnderFile(Name(n))
       THEN End(n, "error") /\ UNCHANGED tree
       ELSE /\ Goto(n, "create")
            /\ tree' = [p \in Paths |->
                          IF p \in Ancestors(Name(n)) THEN Directory ELSE tree[p]]
    /\ UNCHANGED <<waits, data, dirty, crashes>>

\* Mutation: a directory is taken for a file.
CreateFailsParent(n) == \E p \in Ancestors(Name(n)) : tree[p] # Directory

\* The path cannot be created: it is a directory, or its parent is gone.
CreateFails(n) ==
    \/ tree[Name(n)] = Directory
    \/ \E p \in Ancestors(Name(n)) : tree[p] # Directory

SetCreate(n) ==
    /\ At(n, "create")
    /\ IF CreateFails(n)
       THEN End(n, "error") /\ UNCHANGED files
       ELSE LET file == IF tree[Name(n)] = Missing THEN n ELSE tree[Name(n)] IN
            /\ tasks' = [tasks EXCEPT ![n].at = "write", ![n].file = file]
            /\ tree' = [tree EXCEPT ![Name(n)] = file]
            /\ data' = [data EXCEPT ![file] = <<>>]
            /\ dirty' = dirty \cup {file}
    /\ UNCHANGED <<waits, crashes>>

\* The blocks of a file after one more is written at a position.
Written(blocks, pos, block) ==
    [i \in 1 .. (IF pos > Len(blocks) THEN pos ELSE Len(blocks)) |->
        IF i = pos THEN block ELSE IF i <= Len(blocks) THEN blocks[i] ELSE Hole]

SetWrite(n) ==
    /\ At(n, "write")
    /\ LET t == tasks[n]  pos == t.pos + 1 IN
       /\ tasks' = [tasks EXCEPT ![n].pos = pos,
                      ![n].at = IF pos = Len(Content(n)) THEN "sync" ELSE "write"]
       /\ data' = [data EXCEPT ![t.file] = Written(@, pos, Content(n)[pos])]
       /\ dirty' = dirty \cup {t.file}
    /\ UNCHANGED <<waits, tree, crashes>>

\* Mutation: Set answers without waiting for the disk.
SetSyncSkipped(n) ==
    /\ At(n, "sync")
    /\ End(n, "ok")
    /\ UNCHANGED <<waits, files, crashes>>

SetSync(n) ==
    /\ At(n, "sync")
    /\ End(n, "ok")
    /\ dirty' = dirty \ {tasks[n].file}
    /\ UNCHANGED <<waits, tree, data, crashes>>

(***************************************************************************)
(* get: Open, ReadAll, Decrypt and, on a hit, Chtimes by name.  A          *)
(* directory opens but cannot be read.                                     *)
(***************************************************************************)
GetOpen(n) ==
    /\ At(n, "open")
    /\ CASE UnderFile(Name(n)) \/ tree[Name(n)] = Directory -> End(n, "error")
         [] ~ UnderFile(Name(n)) /\ tree[Name(n)] = Missing -> End(n, "notexist")
         [] OTHER -> tasks' = [tasks EXCEPT ![n].at = "read",
                                            ![n].file = tree[Name(n)]]
    /\ UNCHANGED <<waits, files, crashes>>

GetRead(n) ==
    /\ At(n, "read")
    /\ LET t == tasks[n] IN
       IF t.pos < Len(data[t.file])
       THEN tasks' = [tasks EXCEPT ![n].pos = @ + 1,
                                   ![n].buf = Append(@, data[t.file][t.pos + 1])]
       ELSE IF ~ Decrypts(t.conn.enc, t.buf) THEN End(n, "error")
       ELSE IF t.conn.updateMTime THEN Goto(n, "chtimes")
       ELSE End(n, "ok")
    /\ UNCHANGED <<waits, files, crashes>>

GetChtimes(n) ==
    /\ At(n, "chtimes")
    /\ End(n, IF UnderFile(Name(n)) \/ tree[Name(n)] = Missing THEN "error" ELSE "ok")
    /\ UNCHANGED <<waits, files, crashes>>

\* delete: Remove unlinks a file, and removes a directory that is empty.
IsEmpty(path) == \A p \in Paths : path \in Ancestors(p) => tree[p] = Missing

DeleteRemove(n) ==
    /\ At(n, "remove")
    /\ CASE UnderFile(Name(n)) -> End(n, "error") /\ UNCHANGED tree
         [] ~ UnderFile(Name(n)) /\ tree[Name(n)] = Missing ->
              End(n, "notexist") /\ UNCHANGED tree
         [] tree[Name(n)] = Directory /\ ~ IsEmpty(Name(n)) ->
              End(n, "error") /\ UNCHANGED tree
         [] OTHER -> End(n, "ok") /\ tree' = [tree EXCEPT ![Name(n)] = Missing]
    /\ UNCHANGED <<waits, data, dirty, crashes>>

\* Mutation: the directories that hold split names are not entered.
KeysAtTop(path, prefix) ==
    IF tree[path] \in Inodes /\ Len(path) = 1
    THEN {KeyFromFileName(path)} \cap prefix ELSE {}

\* The keys that a visit of a path adds: none for a directory (see IsDir).
KeysAt(path, prefix) ==
    IF tree[path] \in Inodes THEN {KeyFromFileName(path)} \cap prefix ELSE {}

\* keys: the walk visits the paths one by one, in a fixed order.
KeysVisit(n) ==
    /\ At(n, "walk")
    /\ tasks[n].todo # {}
    /\ LET path == CHOOSE p \in tasks[n].todo : TRUE IN
       tasks' = [tasks EXCEPT ![n].todo = @ \ {path},
                              ![n].found = @ \cup KeysAt(path, tasks[n].prefix)]
    /\ UNCHANGED <<waits, files, crashes>>

KeysEnd(n) ==
    /\ At(n, "walk")
    /\ tasks[n].todo = {}
    /\ End(n, "ok")
    /\ UNCHANGED <<waits, files, crashes>>

\* A system call fails and the goroutine gives up; what it wrote stays.
SystemError(n) ==
    /\ tasks[n].at \in Faults
    /\ End(n, "error")
    /\ UNCHANGED <<waits, files, crashes>>

(***************************************************************************)
(* The caller's select: the result, or the timeout, which may win even     *)
(* when the result is there.                                               *)
(***************************************************************************)
Collect(c) ==
    /\ waits[c] # 0
    /\ At(waits[c], "done")
    /\ tasks' = [tasks EXCEPT ![waits[c]].out = tasks[waits[c]].res]
    /\ waits' = [waits EXCEPT ![c] = 0]
    /\ UNCHANGED <<files, crashes>>

Timeout(c) ==
    /\ waits[c] # 0
    /\ Timeouts \/ tasks[waits[c]].conn.timeout <= 0
    /\ tasks' = [tasks EXCEPT ![waits[c]].out = "timeout"]
    /\ waits' = [waits EXCEPT ![c] = 0]
    /\ UNCHANGED <<files, crashes>>

(***************************************************************************)
(* The machine stops and starts again.  Nothing of the process is left;    *)
(* of a file that was not synced, any first part of its blocks is.         *)
(***************************************************************************)
Crash ==
    /\ crashes < MaxCrashes
    /\ crashes' = crashes + 1
    /\ tasks' = [n \in 1 .. Len(tasks) |->
                   IF At(n, "done") THEN tasks[n] ELSE [tasks[n] EXCEPT !.at = "gone"]]
    /\ waits' = [c \in Callers |-> 0]
    /\ \E kept \in [dirty -> 0 .. MaxSize] :
          data' = [i \in Inodes |->
                     IF i \in dirty /\ kept[i] < Len(data[i])
                     THEN SubSeq(data[i], 1, kept[i]) ELSE data[i]]
    /\ dirty' = {}
    /\ UNCHANGED tree

\* The bound on the calls is reached and all of them are over.
Quiescent ==
    /\ Len(tasks) = MaxCalls
    /\ \A c \in Callers : waits[c] = 0
    /\ \A n \in 1 .. Len(tasks) : tasks[n].at \in {"done", "gone"}
    /\ UNCHANGED vars

SystemCall(n) ==
    \/ SetMkdir(n) \/ SetCreate(n) \/ SetWrite(n) \/ SetSync(n)
    \/ GetOpen(n) \/ GetRead(n) \/ GetChtimes(n)
    \/ DeleteRemove(n) \/ KeysVisit(n) \/ KeysEnd(n)
    \/ SystemError(n)

\* The key of a call of Keys, which has none.
NoKey == CHOOSE key \in Keys : TRUE

\* The calls that callers make.
Invocations ==
    { call \in [op : {"set"}, key : Keys, val : Values, prefix : {{}}]
              \cup [op : {"get", "delete"}, key : Keys, val : {0}, prefix : {{}}]
              \cup [op : {"keys"}, key : {NoKey}, val : {0}, prefix : Prefixes] :
        call.op \in Operations }

Calls(c, conn) ==
    \E call \in Invocations : Call(c, conn, call.op, call.key, call.val, call.prefix)

Answered(c) == Collect(c) \/ Timeout(c)

Next ==
    \/ \E c \in Callers : (\E conn \in Conns : Calls(c, conn)) \/ Answered(c)
    \/ \E n \in 1 .. Len(tasks) : SystemCall(n)
    \/ Crash
    \/ Quiescent

Spec == Init /\ [][Next]_vars

-----------------------------------------------------------------------------
TypeOK ==
    /\ tasks \in Seq(Task) /\ Len(tasks) <= MaxCalls
    /\ waits \in [Callers -> 0 .. Len(tasks)]
    /\ tree \in [Paths -> {Missing, Directory} \cup Inodes]
    /\ data \in [Inodes -> Seq(Block)]
    /\ dirty \subseteq Inodes
    /\ crashes \in 0 .. MaxCrashes

(***************************************************************************)
(* No goroutine is ever stuck: until it has sent its result there is a     *)
(* step it can take, also when its caller has left at the timeout and      *)
(* nobody will receive what it sends.                                      *)
(***************************************************************************)
NoGoroutineStuck ==
    \A n \in 1 .. Len(tasks) :
        tasks[n].at \notin {"done", "gone"} => ENABLED SystemCall(n)

(***************************************************************************)
(* A Get that succeeds returns what some Set of the same key was given,    *)
(* all of it and nothing else, whatever other calls, timeouts, failures    *)
(* and crashes come between the system calls of the two.                   *)
(***************************************************************************)
IntactReads ==
    \A n \in 1 .. Len(tasks) :
        tasks[n].op = "get" /\ tasks[n].out = "ok" =>
            \E m \in 1 .. Len(tasks) : /\ tasks[m].op = "set"
                                       /\ tasks[m].key = tasks[n].key
                                       /\ tasks[n].buf = Content(m)

\* The calls before n that may change what the cache has for a key.
Mutations(n, key) ==
    { m \in 1 .. n - 1 : tasks[m].op \in {"set", "delete"} /\ tasks[m].key = key }

\* The last of them, m, was answered: the cache has what m left.
LeftBy(n, key, m) ==
    /\ m \in Mutations(n, key)
    /\ \A l \in Mutations(n, key) : l <= m
    /\ tasks[m].out \in {"ok", "notexist"}

\* Get of a cache without encryptor returns also what is encrypted, as it is.
Readable(n, m) == tasks[n].conn.enc \in {0, tasks[m].conn.enc}

(***************************************************************************)
(* For a caller that waits for the answer of each call: Get returns what   *)
(* the last Set of the key was given once that Set has succeeded, also     *)
(* after a crash, or an error when it cannot decrypt that; and it reports  *)
(* that the key does not exist once a Delete has succeeded, or when        *)
(* nothing was ever set.                                                   *)
(***************************************************************************)
ReadsLastWrite ==
    \A n \in 1 .. Len(tasks) :
        tasks[n].op = "get" /\ tasks[n].out \notin {"none", "timeout"} =>
            /\ \A m \in 1 .. n - 1 : LeftBy(n, tasks[n].key, m) =>
                  CASE tasks[m].op = "delete" -> tasks[n].out = "notexist"
                    [] tasks[m].op = "set" /\ Readable(n, m) ->
                         tasks[n].out = "ok" /\ tasks[n].buf = Content(m)
                    [] OTHER -> tasks[n].out = "error"
            /\ Mutations(n, tasks[n].key) = {} => tasks[n].out = "notexist"

(***************************************************************************)
(* For such a caller, Keys lists a key with the prefix exactly when the    *)
(* last call that was answered left the key in the cache, and recovers     *)
(* also the keys whose names are split over directories.                   *)
(***************************************************************************)
KeysListed ==
    \A n \in 1 .. Len(tasks) : tasks[n].op = "keys" /\ tasks[n].out = "ok" =>
        \A key \in Keys, m \in 1 .. n - 1 : LeftBy(n, key, m) =>
            (key \in tasks[n].found <=> key \in tasks[n].prefix /\ tasks[m].op = "set")
=============================================================================
