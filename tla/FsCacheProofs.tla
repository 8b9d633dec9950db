---------------------------- MODULE FsCacheProofs ----------------------------
(***************************************************************************)
(* Proofs about FsCache and KeyApi, for any keys, values, callers, open    *)
(* caches, failures and crashes; then, for one caller that waits for its   *)
(* answers, that it reads what it last wrote, is listed the keys it stored *)
(* and is told what happened.                                              *)
(***************************************************************************)
EXTENDS KeyApi, SequenceTheorems, TLAPS

-----------------------------------------------------------------------------
(***************************************************************************)
(* File names.  The letters of a text are in its fragments, in order, and  *)
(* the fragments tell how many there are: so they tell the text.           *)
(***************************************************************************)

\* How many fragments there are, and where the i-th one starts and ends.
Parts(text) == (Len(text) + FragmentSize - 1) \div FragmentSize
First(i) == (i - 1) * FragmentSize + 1
Last(text, i) == IF i * FragmentSize < Len(text) THEN i * FragmentSize ELSE Len(text)

LEMMA PartsBounds ==
    ASSUME NEW n \in Nat
    PROVE  LET c == (n + FragmentSize - 1) \div FragmentSize
           IN  /\ c \in Nat
               /\ (c - 1) * FragmentSize < n \/ c = 0
               /\ n <= c * FragmentSize
BY NamerAssumption

LEMMA PartOfLetter ==
    ASSUME NEW n \in Nat, NEW j \in 1 .. n
    PROVE  LET i == ((j - 1) \div FragmentSize) + 1
               c == (n + FragmentSize - 1) \div FragmentSize
           IN  /\ i \in 1 .. c
               /\ (i - 1) * FragmentSize < j
               /\ j <= i * FragmentSize
<1> DEFINE F == FragmentSize
           q == (j - 1) \div F
           c == (n + F - 1) \div F
<1>1. F \in Nat /\ F > 0
  BY NamerAssumption
<1>2. q \in Nat /\ q * F <= j - 1 /\ j - 1 < q * F + F
  BY <1>1
<1>3. c \in Nat /\ n <= c * F
  BY PartsBounds
<1> HIDE DEF F, q, c
<1>4. (q + 1) * F = q * F + F
  BY <1>1, <1>2
<1>5. q < c
  <2>1. SUFFICES ASSUME c <= q PROVE FALSE
    BY <1>2, <1>3
  <2>2. c * F <= q * F
    BY <1>1, <1>2, <1>3, <2>1
  <2> QED BY <1>1, <1>2, <1>3, <2>2
<1>6. q + 1 \in 1 .. c /\ ((q + 1) - 1) * F < j /\ j <= (q + 1) * F
  <2>1. (q + 1) - 1 = q
    BY <1>2
  <2> QED BY <1>1, <1>2, <1>3, <1>4, <1>5, <2>1
<1> QED BY <1>6 DEF q, c, F

LEMMA FragmentsAre ==
    ASSUME NEW t \in Seq(Nat)
    PROVE  /\ Parts(t) \in Nat
           /\ Parts(t) = 0 \/ (Parts(t) - 1) * FragmentSize < Len(t)
           /\ Len(t) <= Parts(t) * FragmentSize
           /\ Fragments(t) = [i \in 1 .. Parts(t) |-> SubSeq(t, First(i), Last(t, i))]
           /\ Len(Fragments(t)) = Parts(t)
<1>1. /\ Parts(t) \in Nat
      /\ Parts(t) = 0 \/ (Parts(t) - 1) * FragmentSize < Len(t)
      /\ Len(t) <= Parts(t) * FragmentSize
  BY PartsBounds DEF Parts
<1>2. Fragments(t) = [i \in 1 .. Parts(t) |-> SubSeq(t, First(i), Last(t, i))]
  BY DEF Fragments, Parts, First, Last
<1> QED BY <1>1, <1>2

LEMMA TimesMonotone ==
    ASSUME NEW a \in Nat, NEW b \in Nat, NEW c \in Nat, a <= b
    PROVE  a * c <= b * c
<1>1. PICK d \in Nat : b = a + d
  <2>1. b - a \in Nat /\ b = a + (b - a)
    OBVIOUS
  <2> QED BY <2>1
<1>2. b * c = a * c + d * c /\ d * c \in Nat /\ a * c \in Nat
  BY <1>1
<1> QED BY <1>2

\* A fragment has all the letters from its first to its last.
LEMMA FragmentLetters ==
    ASSUME NEW t \in Seq(Nat), NEW i \in 1 .. Parts(t)
    PROVE  /\ First(i) \in 1 .. Len(t) /\ Last(t, i) \in First(i) .. Len(t)
           /\ Len(Fragments(t)[i]) = Last(t, i) - First(i) + 1
           /\ \A j \in First(i) .. Last(t, i) :
                Fragments(t)[i][j - First(i) + 1] = t[j]
<1> DEFINE p == (i - 1) * FragmentSize
           q == (Parts(t) - 1) * FragmentSize
<1>1. Parts(t) \in Nat /\ q < Len(t) /\ i \in Nat
  BY FragmentsAre
<1>2. p \in Nat /\ q \in Nat /\ p <= q /\ i * FragmentSize = p + FragmentSize
  <2>1. /\ i - 1 \in Nat /\ Parts(t) - 1 \in Nat /\ i - 1 <= Parts(t) - 1
        /\ FragmentSize \in Nat
    BY <1>1, NamerAssumption
  <2>2. p <= q
    BY <2>1, TimesMonotone
  <2>3. p \in Nat /\ q \in Nat /\ i * FragmentSize = p + FragmentSize
    BY <1>1, <2>1
  <2> QED BY <2>2, <2>3
<1>3. First(i) = p + 1 /\ Last(t, i) = IF p + FragmentSize < Len(t) THEN p + FragmentSize ELSE Len(t)
  BY <1>2 DEF First, Last
<1> HIDE DEF p, q
<1>4. First(i) \in 1 .. Len(t) /\ Last(t, i) \in First(i) .. Len(t)
  BY <1>1, <1>2, <1>3, NamerAssumption
<1>5. Fragments(t)[i] = SubSeq(t, First(i), Last(t, i))
  <2>1. Fragments(t) = [l \in 1 .. Parts(t) |-> SubSeq(t, First(l), Last(t, l))]
    BY FragmentsAre
  <2> QED BY <2>1, Zenon
<1>6. \A j \in First(i) .. Last(t, i) : t[j] \in Nat
  BY <1>4
<1>7. /\ Len(Fragments(t)[i]) = Last(t, i) - First(i) + 1
      /\ \A l \in 1 .. Last(t, i) - First(i) + 1 :
            Fragments(t)[i][l] = t[First(i) + l - 1]
  <2>1. First(i) \in Int /\ Last(t, i) \in Int /\ First(i) <= Last(t, i)
    BY <1>4
  <2> HIDE DEF First, Last
  <2>2. /\ Len(SubSeq(t, First(i), Last(t, i))) =
             IF First(i) <= Last(t, i) THEN Last(t, i) - First(i) + 1 ELSE 0
        /\ \A l \in 1 .. Last(t, i) - First(i) + 1 :
             SubSeq(t, First(i), Last(t, i))[l] = t[First(i) + l - 1]
    BY <1>6, <2>1, SubSeqProperties
  <2> QED BY <1>5, <2>1, <2>2
<1>8. ASSUME NEW j \in First(i) .. Last(t, i)
      PROVE  Fragments(t)[i][j - First(i) + 1] = t[j]
  <2> DEFINE l == j - First(i) + 1
  <2>1. l \in 1 .. Last(t, i) - First(i) + 1 /\ First(i) + l - 1 = j
    BY <1>4
  <2> QED BY <1>7, <2>1
<1> QED BY <1>4, <1>7, <1>8

LEMMA SameFragments ==
    ASSUME NEW a \in Seq(Nat), NEW b \in Seq(Nat), Fragments(a) = Fragments(b)
    PROVE  a = b
<1> DEFINE c == Parts(a)
<1>1. c = Parts(b) /\ c \in Nat
  <2>1. Len(Fragments(a)) = Parts(a) /\ Parts(a) \in Nat
    BY FragmentsAre
  <2>2. Len(Fragments(b)) = Parts(b)
    BY FragmentsAre
  <2> QED BY <2>1, <2>2
<1>2. Len(a) = Len(b)
  <2>1. CASE c = 0
    BY <1>1, <2>1, FragmentsAre, NamerAssumption
  <2>2. CASE c # 0
    <3>1. Last(a, c) = Len(a) /\ Last(b, c) = Len(b)
      BY <1>1, FragmentsAre, NamerAssumption DEF Last
    <3>2. c \in 1 .. Parts(a) /\ c \in 1 .. Parts(b)
      BY <1>1, <2>2
    <3>3. /\ Len(Fragments(a)[c]) = Len(a) - First(c) + 1
          /\ Len(Fragments(b)[c]) = Len(b) - First(c) + 1
      BY <3>1, <3>2, FragmentLetters
    <3>4. First(c) \in Int
      BY <1>1, NamerAssumption DEF First
    <3> QED BY <3>3, <3>4
  <2> QED BY <2>1, <2>2
<1>3. ASSUME NEW j \in 1 .. Len(a) PROVE a[j] = b[j]
  <2> DEFINE i == ((j - 1) \div FragmentSize) + 1
  <2>1. i \in 1 .. c /\ (i - 1) * FragmentSize < j /\ j <= i * FragmentSize
    BY PartOfLetter DEF Parts
  <2> HIDE DEF i, c
  <2>2. i \in Nat /\ First(i) <= j /\ j <= Last(a, i) /\ j <= Last(b, i)
    BY <1>1, <1>2, <2>1, NamerAssumption DEF First, Last
  <2>3. i \in 1 .. Parts(a) /\ i \in 1 .. Parts(b)
    BY <1>1, <2>1 DEF c
  <2>4. /\ First(i) \in 1 .. Len(a) /\ Last(a, i) \in First(i) .. Len(a)
        /\ \A x \in First(i) .. Last(a, i) : Fragments(a)[i][x - First(i) + 1] = a[x]
    BY <2>3, FragmentLetters
  <2>5. /\ First(i) \in 1 .. Len(b) /\ Last(b, i) \in First(i) .. Len(b)
        /\ \A x \in First(i) .. Last(b, i) : Fragments(b)[i][x - First(i) + 1] = b[x]
    BY <2>3, FragmentLetters
  <2>6. j \in First(i) .. Last(a, i) /\ j \in First(i) .. Last(b, i)
    BY <2>2, <2>4, <2>5
  <2>7. Fragments(a)[i][j - First(i) + 1] = a[j]
    BY <2>4, <2>6
  <2>8. Fragments(b)[i][j - First(i) + 1] = b[j]
    BY <2>5, <2>6
  <2> QED BY <2>7, <2>8
<1> QED BY <1>2, <1>3, SeqEqual

(***************************************************************************)
(* Different keys have different files: fileName never gives two keys the  *)
(* same path, whether their names are split or not.                        *)
(***************************************************************************)
THEOREM NamesApart ==
    \A k, l \in Keys : FileName(k) = FileName(l) => k = l
<1> SUFFICES ASSUME NEW k \in Keys, NEW l \in Keys, FileName(k) = FileName(l)
             PROVE  Encoded[k] = Encoded[l]
  BY NamerAssumption
<1> DEFINE a == Encoded[k]
           b == Encoded[l]
<1>1. a \in Seq(Nat) /\ b \in Seq(Nat)
  BY NamerAssumption
<1>2. FileName(k) \in {<<a>>, Fragments(a)} /\ FileName(l) \in {<<b>>, Fragments(b)}
  BY DEF FileName
<1> HIDE DEF a, b
<1>3. ASSUME NEW s \in Seq(Nat), NEW t \in Seq(Nat), <<s>> = Fragments(t) PROVE s = t
  <2>1. Parts(t) = 1 /\ Fragments(t)[1] = s
    <3>1. Len(Fragments(t)) = Parts(t)
      BY FragmentsAre
    <3>2. Len(<<s>>) = 1 /\ <<s>>[1] = s
      OBVIOUS
    <3> QED BY <1>3, <3>1, <3>2
  <2>2. Len(t) <= FragmentSize /\ 1 \in 1 .. Parts(t)
    BY <1>3, <2>1, FragmentsAre, NamerAssumption
  <2>3. First(1) = 1 /\ Last(t, 1) = Len(t)
    BY <1>3, <2>2, NamerAssumption DEF First, Last
  <2>4. Len(s) = Len(t) /\ \A j \in 1 .. Len(t) : s[j] = t[j]
    <3>1. /\ Len(Fragments(t)[1]) = Last(t, 1) - First(1) + 1
          /\ \A j \in First(1) .. Last(t, 1) : Fragments(t)[1][j - First(1) + 1] = t[j]
      BY <2>2, FragmentLetters
    <3>2. ASSUME NEW j \in 1 .. Len(t) PROVE s[j] = t[j]
      <4>1. j \in First(1) .. Last(t, 1) /\ j - First(1) + 1 = j
        BY <2>3
      <4> QED BY <2>1, <3>1, <4>1
    <3>3. Len(t) \in Nat /\ Len(s) = Last(t, 1) - First(1) + 1
      BY <1>3, <2>1, <3>1
    <3>4. Len(s) = Len(t)
      BY <2>3, <3>3
    <3> QED BY <3>2, <3>4
  <2> QED BY <1>3, <2>4, SeqEqual
<1>4. <<a>> = <<b>> => a = b
  OBVIOUS
<1>5. a = b
  BY <1>1, <1>2, <1>3, <1>4, SameFragments
<1> QED BY <1>5 DEF a, b

-----------------------------------------------------------------------------
\* The fragments of a name are joined from the left.
Cat(a, b) == a \o b
Loop == INSTANCE Folding WITH Step <- Cat

\* The fragments, one after the other, are the text.
LEMMA FragmentsJoin ==
    ASSUME NEW t \in Seq(Nat), Len(t) > 0
    PROVE  Seqs!FlattenSeq(Fragments(t)) = t
<1> DEFINE n == Parts(t)
           g == [i \in 1 .. n |-> SubSeq(t, 1, Last(t, i))]
<1>1. n \in Nat \ {0} /\ Len(Fragments(t)) = n
  BY FragmentsAre, NamerAssumption
<1>2. Last(t, n) = Len(t) /\ First(1) = 1
  <2>1. Len(t) <= n * FragmentSize
    BY FragmentsAre
  <2>2. n * FragmentSize \in Int /\ First(1) = 1
    BY <1>1, NamerAssumption DEF First
  <2> HIDE DEF n
  <2> QED BY <2>1, <2>2 DEF Last
<1>3. \A i \in 1 .. n : First(i) \in 1 .. Len(t) /\ Last(t, i) \in First(i) .. Len(t)
  BY FragmentLetters
<1>4. \A i \in 1 .. n : Fragments(t)[i] = SubSeq(t, First(i), Last(t, i))
  <2>1. Fragments(t) = [i \in 1 .. n |-> SubSeq(t, First(i), Last(t, i))]
    BY FragmentsAre
  <2> QED BY <2>1
<1>5. \A i \in 2 .. n : First(i) = Last(t, i - 1) + 1
  <2> SUFFICES ASSUME NEW i \in 2 .. n PROVE First(i) = Last(t, i - 1) + 1
    OBVIOUS
  <2>1. First(i) = (i - 1) * FragmentSize + 1 /\ First(i) <= Len(t)
    BY <1>1, <1>3 DEF First
  <2>2. (i - 1) * FragmentSize \in Int
    BY <1>1, NamerAssumption
  <2> QED BY <2>1, <2>2 DEF Last
<1> HIDE DEF n
<1>6. g[1] = Fragments(t)[1]
  <2>1. 1 \in 1 .. n
    BY <1>1
  <2>2. g[1] = SubSeq(t, 1, Last(t, 1)) /\ Fragments(t)[1] = SubSeq(t, First(1), Last(t, 1))
    BY <1>4, <2>1
  <2> QED BY <1>2, <2>2
<1>7. ASSUME NEW i \in 2 .. n PROVE g[i] = g[i - 1] \o Fragments(t)[i]
  <2> DEFINE k == Last(t, i - 1)
             l == Last(t, i)
  <2>1. i \in 1 .. n /\ i - 1 \in 1 .. n
    BY <1>1
  <2>5. k \in First(i - 1) .. Len(t) /\ First(i - 1) \in 1 .. Len(t)
        /\ l \in First(i) .. Len(t) /\ First(i) = k + 1
    BY <1>3, <1>5, <2>1
  <2>6. k \in 0 .. l /\ l \in 0 .. Len(t)
    BY <2>5
  <2>2. g[i] = SubSeq(t, 1, l) /\ g[i - 1] = SubSeq(t, 1, k)
    BY <2>1
  <2>3. Fragments(t)[i] = SubSeq(t, k + 1, l)
    BY <1>4, <2>1, <2>5
  <2> HIDE DEF k, l
  <2>4. SubSeq(t, 1, l) = SubSeq(t, 1, k) \o SubSeq(t, k + 1, l)
    BY <2>6
  <2> QED BY <2>2, <2>3, <2>4
<1> HIDE DEF g
<1>8. Loop!IsFlat(g, Fragments(t), n)
  BY <1>1, <1>6, <1>7 DEF Loop!IsFlat
<1>9. Seqs!FlattenSeq(Fragments(t)) = g[n]
  <2>1. Loop!Flat(Fragments(t)) = g[n]
    BY Zenon, <1>1, <1>8, Loop!FlattenBy
  <2> QED BY <2>1 DEF Seqs!FlattenSeq, Loop!Flat, Loop!TheFlat
<1>10. g[n] = SubSeq(t, 1, Len(t))
  BY <1>1, <1>2 DEF g
<1> QED BY <1>9, <1>10

(***************************************************************************)
(* The name of a file gives its key back, whether it is split or not: Keys *)
(* reports keys, and never something that was not stored.                  *)
(***************************************************************************)
THEOREM NamesDecode == \A key \in Keys : KeyFromFileName(FileName(key)) = key
<1> SUFFICES ASSUME NEW key \in Keys PROVE KeyFromFileName(FileName(key)) = key
  OBVIOUS
<1> DEFINE a == Encoded[key]
<1>1. a \in Seq(Nat)
  BY NamerAssumption
<1>2. Seqs!FlattenSeq(FileName(key)) = a
  <2>1. CASE Len(a) <= NameLimit
    <3> DEFINE g == [i \in 1 .. 1 |-> a]
    <3>1. FileName(key) = <<a>> /\ 1 \in Nat \ {0}
      BY <2>1 DEF FileName
    <3>2. Loop!IsFlat(g, <<a>>, 1) /\ g[1] = a
      BY DEF Loop!IsFlat
    <3> HIDE DEF g, a
    <3>3. Loop!Flat(<<a>>) = a
      BY Zenon, <3>1, <3>2, Loop!FlattenBy
    <3> QED BY <3>1, <3>3 DEF Seqs!FlattenSeq, Loop!Flat, Loop!TheFlat
  <2>2. CASE ~ Len(a) <= NameLimit
    <3>1. FileName(key) = Fragments(a) /\ Len(a) > 0
      BY <1>1, <2>2, NamerAssumption DEF FileName
    <3> QED BY <1>1, <3>1, FragmentsJoin
  <2> QED BY <2>1, <2>2
<1>3. KeyFromFileName(FileName(key)) = CHOOSE k \in Keys : Encoded[k] = a
  BY <1>2 DEF KeyFromFileName
<1> QED BY <1>3, NamerAssumption

-----------------------------------------------------------------------------
(***************************************************************************)
(* The inductive invariant.  A goroutine is where its operation can be,    *)
(* with the file and the position that its next system call uses.  An      *)
(* inode has the number of the call that created it, so tasks[i].key is    *)
(* the key of the file i: names lead to inodes of their key, goroutines    *)
(* have open only files of their key, and what is sealed in a file, or was *)
(* read from it, was sealed by a Set of that key.                          *)
(***************************************************************************)
Started == 1 .. Len(tasks)

\* What a goroutine relies on at each of its system calls.
Control(t) ==
    /\ t.op = "set" => t.val \in Values
    /\ t.at \in {"mkdir", "create", "write", "sync"} => t.op = "set"
    /\ t.at \in {"open", "read", "chtimes"} => t.op = "get"
    /\ t.at = "remove" => t.op = "delete"
    /\ t.at = "walk" => t.op = "keys"
    /\ t.at \in {"mkdir", "create"} => t.pos = 0
    /\ t.at = "write" => t.pos < Size[t.val]
    /\ t.at \in {"write", "sync", "read"} => t.file # Missing
    /\ t.at \notin {"done", "gone"} => t.res = "none" /\ t.out \in {"none", "timeout"}

\* The file is one that a call with the same key created.
SameKey(i, key) == i \in Started /\ tasks[i].key = key

\* A block that was sealed was sealed by a Set of the key.
SealedFor(block, key) ==
    block.nonce # 0 => SameKey(block.nonce, key) /\ tasks[block.nonce].op = "set"

\* The blocks in a file were sealed for the key of the file.
FileSealed(i, blocks) ==
    \A j \in 1 .. Len(blocks) :
        blocks[j].nonce # 0 => i \in Started /\ SealedFor(blocks[j], tasks[i].key)

\* A block that is in clear was written through a cache without encryptor.
ClearFrom(block) ==
    block.val # 0 /\ block.nonce = 0 =>
        \E m \in Started : /\ tasks[m].op = "set" /\ tasks[m].val = block.val
                           /\ tasks[m].conn.enc = 0

\* What a Get with an encryptor has decrypted is what one Set of its key wrote.
Opened(n) ==
    \E m \in Started : /\ tasks[m].op = "set" /\ tasks[m].key = tasks[n].key
                       /\ tasks[n].buf = Content(m)

Succeeds(t) == t.op = "get" /\ t.conn.enc # 0 /\ (t.at = "chtimes" \/ "ok" \in {t.res, t.out})

ControlInv == \A n \in Started : Control(tasks[n])
TreeInv    == \A p \in Paths : tree[p] \in Inodes =>
                  tree[p] \in Started /\ FileName(tasks[tree[p]].key) = p
OpenInv    == \A n \in Started : tasks[n].file # Missing => SameKey(tasks[n].file, tasks[n].key)
DataInv    == \A i \in Inodes : FileSealed(i, data[i])
ClearInv   == \A i \in Inodes : \A j \in 1 .. Len(data[i]) : ClearFrom(data[i][j])
BufInv     == \A n \in Started : \A j \in 1 .. Len(tasks[n].buf) :
                  SealedFor(tasks[n].buf[j], tasks[n].key)
GetInv     == \A n \in Started : Succeeds(tasks[n]) => Opened(n)

FsInv == /\ TypeOK /\ ControlInv /\ TreeInv /\ OpenInv
         /\ DataInv /\ ClearInv /\ BufInv /\ GetInv

-----------------------------------------------------------------------------
(***************************************************************************)
(* What a step keeps.  No step takes a call back or changes what it was    *)
(* given, so that what is known of a file or a block stays known.          *)
(***************************************************************************)
SameCall(t, u) == t.op = u.op /\ t.key = u.key /\ t.val = u.val /\ t.conn = u.conn

Grows == /\ tasks \in Seq(Task) /\ tasks' \in Seq(Task)
         /\ Len(tasks) <= Len(tasks') /\ Len(tasks') <= MaxCalls
         /\ \A m \in Started : SameCall(tasks'[m], tasks[m])

LEMMA NameInPaths == \A key \in Keys : FileName(key) \in Paths
BY DEF Paths

LEMMA SizeIs == \A v \in Values : v \in Nat /\ Size[v] \in Nat \ {0}
BY ValuesAssumption

LEMMA ContentIs ==
    ASSUME tasks \in Seq(Task), NEW n \in Started, tasks[n].val \in Values
    PROVE  /\ Content(n) \in Seq(Block)
           /\ Len(Content(n)) = Size[tasks[n].val] /\ Size[tasks[n].val] \in Nat \ {0}
           /\ \A j \in 1 .. Size[tasks[n].val] :
                Content(n)[j] = [val |-> tasks[n].val, at |-> j,
                                 nonce |-> IF tasks[n].conn.enc = 0 THEN 0 ELSE n]
<1>1. tasks[n] \in Task /\ n \in Nat /\ tasks[n].val \in Nat
  BY ValuesAssumption DEF Started
<1>2. Size[tasks[n].val] \in Nat \ {0}
  BY ValuesAssumption
<1> DEFINE block(j) == [val |-> tasks[n].val, at |-> j,
                        nonce |-> IF tasks[n].conn.enc = 0 THEN 0 ELSE n]
<1>3. \A j \in 1 .. Size[tasks[n].val] : block(j) \in Block
  BY <1>1, <1>2 DEF Block
<1>4. Content(n) = [j \in 1 .. Size[tasks[n].val] |-> block(j)]
  BY DEF Content
<1> HIDE DEF block
<1>5. Content(n) \in Seq(Block) /\ Len(Content(n)) = Size[tasks[n].val]
  BY <1>2, <1>3, <1>4
<1>6. \A j \in 1 .. Size[tasks[n].val] : Content(n)[j] = block(j)
  BY <1>4
<1> QED BY <1>2, <1>5, <1>6 DEF block

LEMMA SameContent ==
    ASSUME Grows, NEW m \in Started
    PROVE  Content(m)' = Content(m)
BY DEF Grows, SameCall, Content

LEMMA StaysKnown ==
    ASSUME Grows
    PROVE  /\ \A m \in Started : m \in Started'
           /\ \A i, key : SameKey(i, key) => SameKey(i, key)'
           /\ \A block, key : SealedFor(block, key) => SealedFor(block, key)'
           /\ \A block : ClearFrom(block) => ClearFrom(block)'
<1>1. \A m \in Started : m \in Started'
  BY DEF Grows, Started
<1>2. \A i, key : SameKey(i, key) => SameKey(i, key)'
  BY <1>1 DEF Grows, SameCall, SameKey
<1>3. \A block, key : SealedFor(block, key) => SealedFor(block, key)'
  BY <1>1, <1>2 DEF Grows, SameCall, SealedFor, SameKey
<1>4. \A block : ClearFrom(block) => ClearFrom(block)'
  BY <1>1 DEF Grows, SameCall, ClearFrom
<1> QED BY <1>1, <1>2, <1>3, <1>4

LEMMA TreeStays ==
    ASSUME Grows, TreeInv,
           \A p \in Paths : tree'[p] \in Inodes =>
               \/ tree'[p] = tree[p]
               \/ tree'[p] \in Started /\ FileName(tasks[tree'[p]].key) = p
    PROVE  TreeInv'
<1> SUFFICES ASSUME NEW p \in Paths, tree'[p] \in Inodes
             PROVE  tree'[p] \in Started' /\ FileName(tasks'[tree'[p]].key) = p
  BY DEF TreeInv, Inodes
<1>1. tree'[p] \in Started /\ FileName(tasks[tree'[p]].key) = p
  BY DEF TreeInv
<1>2. tasks'[tree'[p]].key = tasks[tree'[p]].key
  BY <1>1 DEF Grows, SameCall
<1> QED BY <1>1, <1>2, StaysKnown

\* Every block of every file was there before, or is known to be in order.
LEMMA DataStays ==
    ASSUME Grows, DataInv, ClearInv, data \in [Inodes -> Seq(Block)],
           \A i \in Inodes : \A j \in 1 .. Len(data'[i]) :
               \/ j \in 1 .. Len(data[i]) /\ data'[i][j] = data[i][j]
               \/ /\ data'[i][j].nonce # 0 =>
                       i \in Started /\ SealedFor(data'[i][j], tasks[i].key)
                  /\ ClearFrom(data'[i][j])
    PROVE  DataInv' /\ ClearInv'
<1> SUFFICES ASSUME NEW i \in Inodes, NEW j \in 1 .. Len(data'[i])
             PROVE  /\ data'[i][j].nonce # 0 =>
                         i \in Started' /\ SealedFor(data[i][j], tasks[i].key)'
                    /\ ClearFrom(data[i][j])'
  BY DEF DataInv, ClearInv, FileSealed, Inodes
<1>1. /\ data'[i][j].nonce # 0 => i \in Started /\ SealedFor(data'[i][j], tasks[i].key)
      /\ ClearFrom(data'[i][j])
  BY DEF DataInv, ClearInv, FileSealed
<1>2. data'[i][j].nonce # 0 => i \in Started' /\ tasks'[i].key = tasks[i].key
  BY <1>1, StaysKnown DEF Grows, SameCall
<1>3. data'[i][j].nonce # 0 => SealedFor(data[i][j], tasks[i].key)'
  BY <1>1, <1>2, StaysKnown DEF Grows, SameCall, SealedFor, SameKey
<1>4. ClearFrom(data[i][j])'
  BY <1>1, StaysKnown DEF Grows, SameCall, ClearFrom
<1> QED BY <1>2, <1>3, <1>4

(***************************************************************************)
(* A step of one goroutine, from tasks[n] to t: what is to be shown of t   *)
(* for the invariants about goroutines to hold again.                      *)
(***************************************************************************)
Sound(n, t) ==
    /\ t \in Task /\ SameCall(t, tasks[n]) /\ Control(t)
    /\ t.file # Missing => SameKey(t.file, t.key)
    /\ \A j \in 1 .. Len(t.buf) : SealedFor(t.buf[j], t.key)
    /\ Succeeds(t) => \E m \in Started : /\ tasks[m].op = "set" /\ tasks[m].key = t.key
                                         /\ t.buf = Content(m)

LEMMA TaskMoves ==
    ASSUME FsInv, NEW n \in Started, NEW t, Sound(n, t), tasks' = [tasks EXCEPT ![n] = t]
    PROVE  /\ Grows /\ Len(tasks') = Len(tasks)
           /\ ControlInv' /\ OpenInv' /\ BufInv' /\ GetInv'
<1>1. /\ tasks \in Seq(Task) /\ n \in 1 .. Len(tasks) /\ t \in Task
      /\ Len(tasks) <= MaxCalls /\ Len(tasks) \in Nat
  BY DEF FsInv, TypeOK, Started, Sound
<1>2. /\ tasks' \in Seq(Task) /\ Len(tasks') = Len(tasks) /\ tasks'[n] = t
      /\ \A m \in Started : m # n => tasks'[m] = tasks[m]
  BY <1>1 DEF Started
<1>3. \A m \in Started : SameCall(tasks'[m], tasks[m])
  BY <1>2 DEF Sound, SameCall
<1>4. Grows /\ Started' = Started
  BY <1>1, <1>2, <1>3 DEF Grows, Started
<1>5. ControlInv'
  <2>1. \A m \in Started : Control(tasks'[m])
    BY <1>2 DEF FsInv, ControlInv, Sound
  <2> QED BY <1>4, <2>1 DEF ControlInv, Control
<1>6. OpenInv'
  <2> SUFFICES ASSUME NEW m \in Started, tasks'[m].file # Missing
               PROVE  SameKey(tasks[m].file, tasks[m].key)'
    BY <1>4 DEF OpenInv, Missing
  <2>1. SameKey(tasks'[m].file, tasks'[m].key)
    BY <1>2 DEF FsInv, OpenInv, Sound
  <2> QED BY <1>4, <2>1 DEF Grows, SameCall, SameKey
<1>7. BufInv'
  <2> SUFFICES ASSUME NEW m \in Started, NEW j \in 1 .. Len(tasks'[m].buf)
               PROVE  SealedFor(tasks[m].buf[j], tasks[m].key)'
    BY <1>4 DEF BufInv
  <2>1. SealedFor(tasks'[m].buf[j], tasks'[m].key)
    BY <1>2 DEF FsInv, BufInv, Sound
  <2> QED BY <1>4, <2>1 DEF Grows, SameCall, SealedFor, SameKey
<1>8. GetInv'
  <2> SUFFICES ASSUME NEW m \in Started, Succeeds(tasks'[m])
               PROVE  Opened(m)'
    BY <1>4 DEF GetInv, Succeeds
  <2>1. \E l \in Started : /\ tasks[l].op = "set" /\ tasks[l].key = tasks'[m].key
                           /\ tasks'[m].buf = Content(l)
    BY <1>2 DEF FsInv, GetInv, Opened, Sound
  <2>2. \A l \in Started : /\ Content(l)' = Content(l) /\ tasks'[l].op = tasks[l].op
                           /\ tasks'[l].key = tasks[l].key
    BY <1>4, SameContent DEF Grows, SameCall
  <2> QED BY <1>4, <2>1, <2>2 DEF Opened
<1> QED BY <1>2, <1>4, <1>5, <1>6, <1>7, <1>8

\* What TaskMoves shows, for the steps that use it.
Moved == /\ Grows /\ Len(tasks') = Len(tasks)
         /\ ControlInv' /\ OpenInv' /\ BufInv' /\ GetInv'

LEMMA OldSound ==
    ASSUME FsInv, NEW n \in Started
    PROVE  Sound(n, tasks[n])
BY DEF FsInv, TypeOK, Started, Sound, SameCall, ControlInv, OpenInv, BufInv, GetInv, Opened

LEMMA EndMoves ==
    ASSUME FsInv, NEW n \in Started, NEW res \in Results, End(n, res),
           tasks[n].op = "get" /\ tasks[n].conn.enc # 0 /\ res = "ok" => Opened(n)
    PROVE  Moved
<1> DEFINE t == [tasks[n] EXCEPT !.at = "done", !.res = res]
<1>1. tasks \in Seq(Task) /\ n \in 1 .. Len(tasks) /\ tasks[n] \in Task
  BY DEF FsInv, TypeOK, Started
<1>2. tasks' = [tasks EXCEPT ![n] = t]
  BY <1>1 DEF End
<1>3. t \in Task
  BY <1>1 DEF Task, Locations
<1>4. /\ t.op = tasks[n].op /\ t.key = tasks[n].key /\ t.val = tasks[n].val
      /\ t.conn = tasks[n].conn /\ t.file = tasks[n].file /\ t.buf = tasks[n].buf
      /\ t.out = tasks[n].out /\ t.at = "done" /\ t.res = res
  BY <1>1 DEF Task
<1> HIDE DEF t
<1>5. Sound(n, tasks[n])
  BY OldSound
<1>6. SameCall(t, tasks[n]) /\ Control(t)
  BY <1>4, <1>5 DEF SameCall, Control, Sound
<1>7. Succeeds(t) => \E m \in Started : /\ tasks[m].op = "set" /\ tasks[m].key = t.key
                                        /\ t.buf = Content(m)
  <2> SUFFICES ASSUME Succeeds(t) PROVE Opened(n)
    BY <1>4 DEF Opened
  <2>1. CASE res = "ok"
    BY <1>4, <2>1 DEF Succeeds
  <2>2. CASE res # "ok"
    BY <1>4, <1>5, <2>2 DEF Succeeds, Sound, Opened
  <2> QED BY <2>1, <2>2
<1>8. Sound(n, t)
  BY <1>3, <1>4, <1>5, <1>6, <1>7 DEF Sound
<1> QED BY <1>2, <1>8, TaskMoves DEF Moved

LEMMA GotoMoves ==
    ASSUME FsInv, NEW n \in Started, NEW where \in Locations, Goto(n, where),
           Control([tasks[n] EXCEPT !.at = where]),
           where = "chtimes" /\ tasks[n].conn.enc # 0 => Opened(n)
    PROVE  Moved
<1> DEFINE t == [tasks[n] EXCEPT !.at = where]
<1>1. tasks \in Seq(Task) /\ n \in 1 .. Len(tasks) /\ tasks[n] \in Task
  BY DEF FsInv, TypeOK, Started
<1>2. tasks' = [tasks EXCEPT ![n] = t] /\ t \in Task
  BY <1>1 DEF Goto, Task
<1>3. /\ t.op = tasks[n].op /\ t.key = tasks[n].key /\ t.val = tasks[n].val
      /\ t.conn = tasks[n].conn /\ t.file = tasks[n].file /\ t.buf = tasks[n].buf
      /\ t.out = tasks[n].out /\ t.at = where /\ t.res = tasks[n].res
  BY <1>1 DEF Task
<1>4. Control(t)
  OBVIOUS
<1> HIDE DEF t
<1>5. Sound(n, tasks[n])
  BY OldSound
<1>6. SameCall(t, tasks[n])
  BY <1>3 DEF SameCall
<1>7. Succeeds(t) => \E m \in Started : /\ tasks[m].op = "set" /\ tasks[m].key = t.key
                                        /\ t.buf = Content(m)
  <2> SUFFICES ASSUME Succeeds(t) PROVE Opened(n)
    BY <1>3 DEF Opened
  <2>1. CASE where = "chtimes"
    BY <1>3, <2>1 DEF Succeeds
  <2>2. CASE where # "chtimes"
    BY <1>3, <1>5, <2>2 DEF Succeeds, Sound, Opened
  <2> QED BY <2>1, <2>2
<1>8. Sound(n, t)
  BY <1>2, <1>3, <1>4, <1>5, <1>6, <1>7 DEF Sound
<1> QED BY <1>2, <1>8, TaskMoves DEF Moved

\* The rest of the invariant, for a step of a goroutine.
LEMMA MovedKeeps ==
    ASSUME FsInv, Moved, UNCHANGED <<waits, crashes>>,
           TreeInv' /\ tree' \in [Paths -> {Missing, Directory} \cup Inodes],
           DataInv' /\ ClearInv' /\ data' \in [Inodes -> Seq(Block)],
           dirty' \subseteq Inodes
    PROVE  FsInv'
<1>1. TypeOK'
  BY DEF FsInv, Moved, Grows, TypeOK, Inodes
<1> QED BY <1>1 DEF FsInv, Moved

LEMMA TreeSame ==
    ASSUME FsInv, Moved, tree' = tree
    PROVE  TreeInv' /\ tree' \in [Paths -> {Missing, Directory} \cup Inodes]
BY TreeStays DEF FsInv, Moved, TypeOK

LEMMA DataSame ==
    ASSUME FsInv, Moved, data' = data
    PROVE  DataInv' /\ ClearInv' /\ data' \in [Inodes -> Seq(Block)]
BY DataStays DEF FsInv, Moved, TypeOK

LEMMA FilesSame ==
    ASSUME FsInv, Moved, UNCHANGED <<waits, files, crashes>>
    PROVE  FsInv'
<1>1. UNCHANGED <<waits, crashes>> /\ tree' = tree /\ data' = data /\ dirty' = dirty
  BY DEF files
<1>2. dirty' \subseteq Inodes
  BY <1>1 DEF FsInv, TypeOK
<1> QED BY <1>1, <1>2, TreeSame, DataSame, MovedKeeps

-----------------------------------------------------------------------------
(***************************************************************************)
(* The system calls, one by one.                                           *)
(***************************************************************************)
LEMMA Numbers == Directory \notin Inodes /\ Missing \notin Inodes /\ Missing # Directory
BY CallsAssumption DEF Directory, Missing, Inodes

LEMMA Here ==
    ASSUME FsInv, NEW n \in Started
    PROVE  /\ tasks[n] \in Task /\ Control(tasks[n]) /\ n \in Inodes /\ n \in 1 .. Len(tasks)
           /\ Name(n) \in Paths /\ tree[Name(n)] \in {Missing, Directory} \cup Inodes
<1>1. tasks[n] \in Task /\ Control(tasks[n]) /\ n \in Inodes /\ n \in 1 .. Len(tasks)
  BY CallsAssumption DEF FsInv, TypeOK, Started, ControlInv, Inodes
<1>2. tasks[n].key \in Keys
  BY <1>1 DEF Task
<1> QED BY <1>1, <1>2, NameInPaths DEF Name, FsInv, TypeOK

LEMMA SetMkdirKeeps ==
    ASSUME FsInv, NEW n \in Started, SetMkdir(n)
    PROVE  FsInv'
<1>1. UNCHANGED <<waits, data, dirty, crashes>> /\ tasks[n].at = "mkdir"
  BY DEF SetMkdir, At
<1>2. tasks[n].op = "set" /\ tasks[n].pos = 0 /\ tasks[n] \in Task
  BY <1>1, Here DEF Control
<1>3. CASE UnderFile(Name(n))
  <2>1. End(n, "error") /\ tree' = tree
    BY <1>3 DEF SetMkdir
  <2>2. Moved
    BY <1>2, <2>1, EndMoves DEF Results
  <2> QED BY <1>1, <2>1, <2>2, FilesSame DEF files
<1>4. CASE ~ UnderFile(Name(n))
  <2>1. /\ Goto(n, "create")
        /\ tree' = [p \in Paths |-> IF p \in Ancestors(Name(n)) THEN Directory ELSE tree[p]]
    BY <1>4 DEF SetMkdir
  <2>2. Control([tasks[n] EXCEPT !.at = "create"])
    BY <1>1, <1>2, Here DEF Control, Task
  <2>3. Moved
    BY <2>1, <2>2, GotoMoves DEF Locations
  <2>4. TreeInv' /\ tree' \in [Paths -> {Missing, Directory} \cup Inodes]
    <3>1. \A p \in Paths : tree'[p] \in Inodes => tree'[p] = tree[p]
      BY <2>1, Numbers
    <3>2. TreeInv'
      BY <2>3, <3>1, TreeStays DEF Moved, FsInv
    <3> QED BY <2>1, <3>2 DEF FsInv, TypeOK
  <2>5. dirty' \subseteq Inodes /\ data' = data
    BY <1>1 DEF FsInv, TypeOK
  <2> QED BY <1>1, <2>3, <2>4, <2>5, DataSame, MovedKeeps
<1> QED BY <1>3, <1>4

\* Create: the name leads to a new inode or to one of the same key.
LEMMA SetCreateKeeps ==
    ASSUME FsInv, NEW n \in Started, SetCreate(n)
    PROVE  FsInv'
<1>1. UNCHANGED <<waits, crashes>> /\ tasks[n].at = "create"
  BY DEF SetCreate, At
<1>2. tasks[n].op = "set" /\ tasks[n].pos = 0 /\ tasks[n] \in Task /\ tasks[n].val \in Values
  BY <1>1, Here DEF Control
<1>3. CASE CreateFails(n)
  <2>1. End(n, "error") /\ UNCHANGED files
    BY <1>3 DEF SetCreate
  <2>2. Moved
    BY <1>2, <2>1, EndMoves DEF Results
  <2> QED BY <1>1, <2>1, <2>2, FilesSame
<1>4. CASE ~ CreateFails(n)
  <2> DEFINE file == IF tree[Name(n)] = Missing THEN n ELSE tree[Name(n)]
             t == [tasks[n] EXCEPT !.at = "write", !.file = file]
  <2>1. /\ tasks' = [tasks EXCEPT ![n].at = "write", ![n].file = file]
        /\ tree' = [tree EXCEPT ![Name(n)] = file]
        /\ data' = [data EXCEPT ![file] = <<>>]
        /\ dirty' = dirty \cup {file}
    BY <1>4 DEF SetCreate
  <2>2. tree[Name(n)] # Directory
    BY <1>4 DEF CreateFails
  <2>3. file \in Inodes /\ file # Missing
    BY <2>2, Here, Numbers
  <2>4. file \in Started /\ FileName(tasks[file].key) = Name(n)
    <3>1. CASE tree[Name(n)] = Missing
      BY <3>1 DEF Name
    <3>2. CASE tree[Name(n)] # Missing
      BY <2>3, <3>2, Here DEF FsInv, TreeInv
    <3> QED BY <3>1, <3>2
  <2>5. SameKey(file, tasks[n].key)
    <3>1. tasks[file] \in Task /\ tasks[n] \in Task
      BY <2>4, Here
    <3>2. tasks[file].key \in Keys /\ tasks[n].key \in Keys
      BY <3>1 DEF Task
    <3> QED BY <2>4, <3>2, NamesApart DEF Name, SameKey
  <2> HIDE DEF file
  <2>6. tasks' = [tasks EXCEPT ![n] = t]
    BY <2>1, Here DEF FsInv, TypeOK
  <2>7. t \in Task
    BY <1>2, <2>3 DEF Task, Locations
  <2>8. /\ SameCall(t, tasks[n]) /\ t.file = file /\ t.buf = tasks[n].buf
        /\ t.at = "write" /\ t.res = tasks[n].res /\ t.out = tasks[n].out /\ t.pos = 0
    BY <1>2 DEF Task, SameCall
  <2> HIDE DEF t
  <2>9. Control(t)
    <3>1. Size[tasks[n].val] \in Nat \ {0}
      BY <1>2, SizeIs
    <3> QED BY <1>1, <1>2, <2>3, <2>8, <3>1, Here DEF Control, SameCall
  <2>10. Sound(n, t)
    <3>1. Sound(n, tasks[n])
      BY OldSound
    <3>2. ~ Succeeds(t)
      BY <1>2, <2>8 DEF Succeeds, SameCall
    <3> QED BY <2>5, <2>7, <2>8, <2>9, <3>1, <3>2 DEF Sound, SameCall
  <2>11. Moved
    BY <2>6, <2>10, TaskMoves DEF Moved
  <2>12. TreeInv' /\ tree' \in [Paths -> {Missing, Directory} \cup Inodes]
    <3>1. tree \in [Paths -> {Missing, Directory} \cup Inodes] /\ TreeInv
      BY DEF FsInv, TypeOK
    <3>2. \A p \in Paths : \/ tree'[p] = tree[p]
                           \/ tree'[p] \in Started /\ FileName(tasks[tree'[p]].key) = p
      BY <2>1, <2>4, <3>1
    <3>3. TreeInv'
      BY <2>11, <3>1, <3>2, TreeStays DEF Moved
    <3> QED BY <2>1, <2>3, <3>1, <3>3
  <2>13. DataInv' /\ ClearInv' /\ data' \in [Inodes -> Seq(Block)]
    <3>1. data \in [Inodes -> Seq(Block)] /\ DataInv /\ ClearInv
      BY DEF FsInv, TypeOK
    <3>2. <<>> \in Seq(Block) /\ Len(<<>>) = 0
      OBVIOUS
    <3>3. \A i \in Inodes : \A j \in 1 .. Len(data'[i]) :
             j \in 1 .. Len(data[i]) /\ data'[i][j] = data[i][j]
      BY <2>1, <3>1, <3>2
    <3>4. DataInv' /\ ClearInv'
      BY <2>11, <3>1, <3>3, DataStays DEF Moved
    <3> QED BY <2>1, <3>1, <3>2, <3>4
  <2>14. dirty' \subseteq Inodes
    BY <2>1, <2>3 DEF FsInv, TypeOK
  <2> QED BY <1>1, <2>11, <2>12, <2>13, <2>14, MovedKeeps
<1> QED BY <1>3, <1>4

LEMMA WrittenIs ==
    ASSUME NEW blocks \in Seq(Block), NEW pos \in Nat \ {0}, NEW block \in Block
    PROVE  /\ Written(blocks, pos, block) \in Seq(Block)
           /\ \A j \in 1 .. Len(Written(blocks, pos, block)) :
                \/ j \in 1 .. Len(blocks) /\ Written(blocks, pos, block)[j] = blocks[j]
                \/ Written(blocks, pos, block)[j] \in {block, Hole}
<1> DEFINE len == IF pos > Len(blocks) THEN pos ELSE Len(blocks)
           item(i) == IF i = pos THEN block ELSE IF i <= Len(blocks) THEN blocks[i] ELSE Hole
<1>1. Written(blocks, pos, block) = [i \in 1 .. len |-> item(i)]
  BY DEF Written
<1>2. Hole \in Block
  BY DEF Hole, Block
<1>3. len \in Nat
  OBVIOUS
<1>4. \A i \in 1 .. len : item(i) \in Block
  BY <1>2
<1>5. \A i \in 1 .. len : \/ i \in 1 .. Len(blocks) /\ item(i) = blocks[i]
                          \/ item(i) \in {block, Hole}
  OBVIOUS
<1> HIDE DEF len, item
<1> QED BY <1>1, <1>3, <1>4, <1>5

\* Write: the block is one of the goroutine's own, in a file of its key.
LEMMA SetWriteKeeps ==
    ASSUME FsInv, NEW n \in Started, SetWrite(n)
    PROVE  FsInv'
<1> DEFINE pos == tasks[n].pos + 1
           where == IF pos = Len(Content(n)) THEN "sync" ELSE "write"
           block == Content(n)[pos]
           t == [tasks[n] EXCEPT !.pos = pos, !.at = where]
           file == tasks[n].file
<1>1. /\ UNCHANGED <<waits, crashes>> /\ tree' = tree /\ tasks[n].at = "write"
      /\ tasks' = [tasks EXCEPT ![n].pos = pos, ![n].at = where]
      /\ data' = [data EXCEPT ![file] = Written(@, pos, block)]
      /\ dirty' = dirty \cup {file}
  BY DEF SetWrite, At
<1>2. /\ tasks[n].op = "set" /\ tasks[n] \in Task /\ tasks[n].val \in Values
      /\ tasks[n].pos < Size[tasks[n].val] /\ file # Missing
      /\ tasks[n].res = "none" /\ tasks[n].out \in {"none", "timeout"}
  BY <1>1, Here DEF Control
<1>3. tasks[n].pos \in Nat /\ file \in Inodes
  BY <1>2 DEF Task
<1>4. SameKey(file, tasks[n].key)
  BY <1>2 DEF FsInv, OpenInv
<1>5. /\ Len(Content(n)) = Size[tasks[n].val] /\ Size[tasks[n].val] \in Nat \ {0}
      /\ block = [val |-> tasks[n].val, at |-> pos,
                  nonce |-> IF tasks[n].conn.enc = 0 THEN 0 ELSE n]
  <2>1. pos \in 1 .. Size[tasks[n].val]
    BY <1>2, <1>3, SizeIs
  <2> QED BY <1>2, <2>1, ContentIs DEF FsInv, TypeOK
<1>6. block \in Block
  <2>1. tasks[n].val \in Nat /\ pos \in Nat /\ n \in Nat
    BY <1>2, <1>3, SizeIs DEF Started
  <2> HIDE DEF block, pos
  <2> QED BY <1>5, <2>1 DEF Block
<1>7. pos \in Nat \ {0} /\ pos <= Size[tasks[n].val] /\ where \in {"sync", "write"}
      /\ (where = "write" => pos < Size[tasks[n].val])
  BY <1>2, <1>3, <1>5
<1> HIDE DEF pos, where, block, file
<1>8. tasks' = [tasks EXCEPT ![n] = t]
  BY <1>1, Here DEF FsInv, TypeOK
<1>9. t \in Task
  BY <1>2, <1>7 DEF Task, Locations
<1>10. /\ SameCall(t, tasks[n]) /\ t.file = file /\ t.buf = tasks[n].buf
       /\ t.at = where /\ t.res = tasks[n].res /\ t.out = tasks[n].out /\ t.pos = pos
  BY <1>2 DEF Task, SameCall, file
<1> HIDE DEF t
<1>11. Sound(n, t)
  <2>1. Sound(n, tasks[n])
    BY OldSound
  <2>2. ~ Succeeds(t)
    BY <1>2, <1>10 DEF Succeeds, SameCall
  <2>3. Control(t)
    BY <1>2, <1>7, <1>10 DEF Control, SameCall
  <2> QED BY <1>4, <1>9, <1>10, <2>1, <2>2, <2>3 DEF Sound, SameCall
<1>12. Moved
  BY <1>8, <1>11, TaskMoves DEF Moved
<1>13. DataInv' /\ ClearInv' /\ data' \in [Inodes -> Seq(Block)]
  <2>1. data \in [Inodes -> Seq(Block)] /\ DataInv /\ ClearInv /\ data[file] \in Seq(Block)
    BY <1>3 DEF FsInv, TypeOK
  <2>2. /\ data'[file] = Written(data[file], pos, block)
        /\ \A i \in Inodes : i # file => data'[i] = data[i]
    BY <1>1, <1>3, <2>1
  <2>3. /\ Written(data[file], pos, block) \in Seq(Block)
        /\ \A j \in 1 .. Len(Written(data[file], pos, block)) :
             \/ j \in 1 .. Len(data[file])
                /\ Written(data[file], pos, block)[j] = data[file][j]
             \/ Written(data[file], pos, block)[j] \in {block, Hole}
    BY <1>6, <1>7, <2>1, WrittenIs
  <2>4. file \in Started /\ SealedFor(block, tasks[file].key) /\ ClearFrom(block)
    <3>1. file \in Started /\ tasks[file].key = tasks[n].key
      BY <1>4 DEF SameKey
    <3>2. SealedFor(block, tasks[file].key)
      BY <1>2, <1>5, <3>1 DEF SealedFor, SameKey
    <3>3. ClearFrom(block)
      <4>1. block.val = tasks[n].val /\ (block.nonce = 0 => tasks[n].conn.enc = 0)
        BY <1>5, Here DEF Inodes
      <4> QED BY <1>2, <4>1 DEF ClearFrom
    <3> QED BY <3>1, <3>2, <3>3
  <2>5. Hole.nonce = 0 /\ ClearFrom(Hole)
    BY DEF Hole, ClearFrom
  <2>6. ASSUME NEW i \in Inodes, NEW j \in 1 .. Len(data'[i])
        PROVE  \/ j \in 1 .. Len(data[i]) /\ data'[i][j] = data[i][j]
               \/ /\ data'[i][j].nonce # 0 =>
                       i \in Started /\ SealedFor(data'[i][j], tasks[i].key)
                  /\ ClearFrom(data'[i][j])
    <3>1. CASE i = file
      BY <2>2, <2>3, <2>4, <2>5, <3>1
    <3>2. CASE i # file
      BY <2>2, <3>2
    <3> QED BY <3>1, <3>2
  <2>7. DataInv' /\ ClearInv'
    BY <1>12, <2>1, <2>6, DataStays DEF Moved
  <2>8. data' \in [Inodes -> Seq(Block)]
    BY <1>1, <2>1, <2>3
  <2> QED BY <2>7, <2>8
<1>14. dirty' \subseteq Inodes
  BY <1>1, <1>3 DEF FsInv, TypeOK
<1> QED BY <1>1, <1>12, <1>13, <1>14, TreeSame, MovedKeeps

LEMMA SetSyncKeeps ==
    ASSUME FsInv, NEW n \in Started, SetSync(n)
    PROVE  FsInv'
<1>1. /\ UNCHANGED <<waits, crashes>> /\ tree' = tree /\ data' = data /\ End(n, "ok")
      /\ dirty' \subseteq Inodes /\ tasks[n].at = "sync"
  BY DEF SetSync, At, FsInv, TypeOK
<1>2. tasks[n].op = "set"
  BY <1>1, Here DEF Control
<1>3. Moved
  BY <1>1, <1>2, EndMoves DEF Results
<1> QED BY <1>1, <1>3, TreeSame, DataSame, MovedKeeps

\* Open: the name leads to a file of the key.
LEMMA GetOpenKeeps ==
    ASSUME FsInv, NEW n \in Started, GetOpen(n)
    PROVE  FsInv'
<1>1. UNCHANGED <<waits, files, crashes>> /\ tasks[n].at = "open"
  BY DEF GetOpen, At
<1>2. tasks[n].op = "get" /\ tasks[n] \in Task
  BY <1>1, Here DEF Control
<1>3. CASE End(n, "error") \/ End(n, "notexist")
  BY <1>1, <1>3, EndMoves, FilesSame DEF Results
<1>4. CASE ~ (End(n, "error") \/ End(n, "notexist"))
  <2> DEFINE file == tree[Name(n)]
             t == [tasks[n] EXCEPT !.at = "read", !.file = file]
  <2>1. /\ file \notin {Directory, Missing}
        /\ tasks' = [tasks EXCEPT ![n].at = "read", ![n].file = file]
    BY <1>4 DEF GetOpen
  <2>2. file \in Inodes /\ file # Missing
    BY <2>1, Here, Numbers
  <2>3. SameKey(file, tasks[n].key)
    <3>1. file \in Started /\ FileName(tasks[file].key) = Name(n)
      BY <2>2, Here DEF FsInv, TreeInv
    <3>2. tasks[file] \in Task /\ tasks[n] \in Task
      BY <3>1, Here
    <3>3. tasks[file].key \in Keys /\ tasks[n].key \in Keys
      BY <3>2 DEF Task
    <3> QED BY <3>1, <3>3, NamesApart DEF Name, SameKey
  <2> HIDE DEF file
  <2>4. tasks' = [tasks EXCEPT ![n] = t]
    BY <2>1, Here DEF FsInv, TypeOK
  <2>5. t \in Task
    BY <1>2, <2>2 DEF Task, Locations
  <2>6. /\ SameCall(t, tasks[n]) /\ t.file = file /\ t.buf = tasks[n].buf
        /\ t.at = "read" /\ t.res = tasks[n].res /\ t.out = tasks[n].out
    BY <1>2 DEF Task, SameCall
  <2> HIDE DEF t
  <2>7. Control(tasks[n]) /\ tasks[n].res = "none" /\ tasks[n].out \in {"none", "timeout"}
    BY <1>1, Here DEF Control
  <2>8. Control(t) /\ ~ Succeeds(t)
    BY <1>2, <2>2, <2>6, <2>7 DEF Control, SameCall, Succeeds
  <2>9. Sound(n, t)
    <3>1. Sound(n, tasks[n])
      BY OldSound
    <3> QED BY <2>3, <2>5, <2>6, <2>8, <3>1 DEF Sound, SameCall
  <2>10. Moved
    BY <2>4, <2>9, TaskMoves DEF Moved
  <2> QED BY <1>1, <2>10, FilesSame
<1> QED BY <1>3, <1>4

\* What decrypts carries the nonce of the Set that sealed it, which has the key.
LEMMA DecryptsOpened ==
    ASSUME FsInv, NEW n \in Started, tasks[n].conn.enc # 0,
           Decrypts(tasks[n].conn.enc, tasks[n].buf)
    PROVE  Opened(n)
<1>1. PICK m \in Started : /\ tasks[m].op = "set" /\ tasks[m].conn.enc = tasks[n].conn.enc
                           /\ tasks[n].buf = Content(m)
  BY DEF Decrypts, Started
<1>2. tasks[m].val \in Values /\ tasks \in Seq(Task)
  BY <1>1, Here DEF Control, FsInv, TypeOK
<1>3. 1 \in 1 .. Len(Content(m)) /\ Content(m)[1].nonce = m
  <2>1. /\ Len(Content(m)) = Size[tasks[m].val] /\ Size[tasks[m].val] \in Nat \ {0}
        /\ \A j \in 1 .. Size[tasks[m].val] :
             Content(m)[j] = [val |-> tasks[m].val, at |-> j,
                              nonce |-> IF tasks[m].conn.enc = 0 THEN 0 ELSE m]
    BY <1>2, ContentIs
  <2>2. 1 \in 1 .. Size[tasks[m].val]
    BY <2>1
  <2>3. Content(m)[1] = [val |-> tasks[m].val, at |-> 1,
                         nonce |-> IF tasks[m].conn.enc = 0 THEN 0 ELSE m]
    BY <2>1, <2>2
  <2>4. Content(m)[1].nonce = m
    BY <1>1, <2>3
  <2> QED BY <2>1, <2>2, <2>4
<1>4. SealedFor(tasks[n].buf[1], tasks[n].key) /\ m # 0
  BY <1>1, <1>3, Here DEF FsInv, BufInv, Inodes
<1>5. tasks[m].key = tasks[n].key
  BY <1>1, <1>3, <1>4 DEF SealedFor, SameKey
<1> QED BY <1>1, <1>5 DEF Opened

LEMMA GetReadKeeps ==
    ASSUME FsInv, NEW n \in Started, GetRead(n)
    PROVE  FsInv'
<1>1. UNCHANGED <<waits, files, crashes>> /\ tasks[n].at = "read"
  BY DEF GetRead, At
<1>2. /\ tasks[n].op = "get" /\ tasks[n] \in Task /\ tasks[n].file # Missing
      /\ tasks[n].res = "none" /\ tasks[n].out \in {"none", "timeout"}
  BY <1>1, Here DEF Control
<1> DEFINE file == tasks[n].file
           pos == tasks[n].pos
<1>3. /\ file \in Inodes /\ pos \in Nat /\ data[file] \in Seq(Block)
      /\ tasks[n].buf \in Seq(Block)
  BY <1>2 DEF Task, FsInv, TypeOK
<1>4. CASE pos < Len(data[file])
  <2> DEFINE block == data[file][pos + 1]
             t == [tasks[n] EXCEPT !.pos = pos + 1, !.buf = Append(tasks[n].buf, block)]
  <2>1. tasks' = [tasks EXCEPT ![n].pos = @ + 1, ![n].buf = Append(@, block)]
    BY <1>4 DEF GetRead
  <2>2. pos + 1 \in 1 .. Len(data[file]) /\ block \in Block
    BY <1>3, <1>4
  <2>3. SealedFor(block, tasks[n].key)
    <3>1. SameKey(file, tasks[n].key)
      BY <1>2 DEF FsInv, OpenInv
    <3>2. FileSealed(file, data[file])
      BY <1>3 DEF FsInv, DataInv
    <3> QED BY <2>2, <3>1, <3>2 DEF FileSealed, SameKey, SealedFor
  <2> HIDE DEF block
  <2>4. tasks' = [tasks EXCEPT ![n] = t]
    BY <2>1, Here DEF FsInv, TypeOK
  <2>5. t \in Task
    <3>1. Append(tasks[n].buf, block) \in Seq(Block) /\ pos + 1 \in Nat
      BY <1>3, <2>2
    <3> QED BY <1>2, <3>1 DEF Task
  <2>6. /\ SameCall(t, tasks[n]) /\ t.file = file /\ t.buf = Append(tasks[n].buf, block)
        /\ t.at = "read" /\ t.res = tasks[n].res /\ t.out = tasks[n].out
    BY <1>1, <1>2 DEF Task, SameCall
  <2> HIDE DEF t
  <2>7. Control(t) /\ ~ Succeeds(t)
    BY <1>2, <2>6 DEF Control, SameCall, Succeeds
  <2>8. Sound(n, tasks[n])
    BY OldSound
  <2>9. \A j \in 1 .. Len(t.buf) : SealedFor(t.buf[j], t.key)
    <3>1. /\ Len(t.buf) = Len(tasks[n].buf) + 1 /\ t.buf[Len(tasks[n].buf) + 1] = block
          /\ \A j \in 1 .. Len(tasks[n].buf) : t.buf[j] = tasks[n].buf[j]
      BY <1>3, <2>2, <2>6
    <3>2. \A j \in 1 .. Len(tasks[n].buf) : SealedFor(tasks[n].buf[j], tasks[n].key)
      BY <2>8 DEF Sound
    <3>3. t.key = tasks[n].key /\ Len(tasks[n].buf) \in Nat
      BY <1>3, <2>6 DEF SameCall
    <3> SUFFICES ASSUME NEW j \in 1 .. Len(t.buf)
                 PROVE  SealedFor(t.buf[j], t.key)
      OBVIOUS
    <3>4. CASE j \in 1 .. Len(tasks[n].buf)
      BY <3>1, <3>2, <3>3, <3>4
    <3>5. CASE j = Len(tasks[n].buf) + 1
      BY <2>3, <3>1, <3>3, <3>5
    <3>6. j \in 1 .. Len(tasks[n].buf) \/ j = Len(tasks[n].buf) + 1
      BY <3>1, <3>3
    <3> QED BY <3>4, <3>5, <3>6
  <2>10. Sound(n, t)
    BY <2>5, <2>6, <2>7, <2>8, <2>9 DEF Sound, SameCall
  <2>11. Moved
    BY <2>4, <2>10, TaskMoves DEF Moved
  <2> QED BY <1>1, <2>11, FilesSame
<1>5. CASE ~ (pos < Len(data[file]))
  <2>1. CASE ~ Decrypts(tasks[n].conn.enc, tasks[n].buf)
    <3>1. End(n, "error")
      BY <1>5, <2>1 DEF GetRead
    <3> QED BY <1>1, <3>1, EndMoves, FilesSame DEF Results
  <2>2. CASE Decrypts(tasks[n].conn.enc, tasks[n].buf)
    <3>1. tasks[n].conn.enc # 0 => Opened(n)
      BY <2>2, DecryptsOpened
    <3>2. CASE Goto(n, "chtimes")
      <4>1. Control([tasks[n] EXCEPT !.at = "chtimes"])
        BY <1>2, Here DEF Control, Task
      <4> QED BY <1>1, <3>1, <3>2, <4>1, GotoMoves, FilesSame DEF Locations
    <3>3. CASE End(n, "ok")
      BY <1>1, <3>1, <3>3, EndMoves, FilesSame DEF Results
    <3> QED BY <1>5, <2>2, <3>2, <3>3 DEF GetRead
  <2> QED BY <2>1, <2>2
<1> QED BY <1>4, <1>5

LEMMA GetChtimesKeeps ==
    ASSUME FsInv, NEW n \in Started, GetChtimes(n)
    PROVE  FsInv'
<1>1. /\ UNCHANGED <<waits, files, crashes>> /\ tasks[n].at = "chtimes"
      /\ End(n, IF UnderFile(Name(n)) \/ tree[Name(n)] = Missing THEN "error" ELSE "ok")
  BY DEF GetChtimes, At
<1>2. tasks[n].op = "get" /\ tasks[n].conn.enc # 0 => Opened(n)
  BY <1>1 DEF FsInv, GetInv, Succeeds
<1>3. Moved
  BY <1>1, <1>2, EndMoves DEF Results
<1> QED BY <1>1, <1>3, FilesSame

LEMMA DeleteRemoveKeeps ==
    ASSUME FsInv, NEW n \in Started, DeleteRemove(n)
    PROVE  FsInv'
<1>1. UNCHANGED <<waits, data, dirty, crashes>> /\ tasks[n].at = "remove"
  BY DEF DeleteRemove, At
<1>2. tasks[n].op = "delete"
  BY <1>1, Here DEF Control
<1>3. /\ End(n, "error") \/ End(n, "notexist") \/ End(n, "ok")
      /\ tree' = tree \/ tree' = [tree EXCEPT ![Name(n)] = Missing]
  BY DEF DeleteRemove
<1>4. Moved
  BY <1>2, <1>3, EndMoves DEF Results
<1>5. TreeInv' /\ tree' \in [Paths -> {Missing, Directory} \cup Inodes]
  <2>1. tree \in [Paths -> {Missing, Directory} \cup Inodes] /\ TreeInv
    BY DEF FsInv, TypeOK
  <2>2. /\ tree' \in [Paths -> {Missing, Directory} \cup Inodes]
        /\ \A p \in Paths : tree'[p] \in Inodes => tree'[p] = tree[p]
    BY <1>3, <2>1, Numbers, Here
  <2>3. TreeInv'
    BY <1>4, <2>1, <2>2, TreeStays DEF Moved
  <2> QED BY <2>2, <2>3
<1>6. dirty' \subseteq Inodes /\ data' = data
  BY <1>1 DEF FsInv, TypeOK
<1> QED BY <1>1, <1>4, <1>5, <1>6, DataSame, MovedKeeps

LEMMA KeysVisitKeeps ==
    ASSUME FsInv, NEW n \in Started, KeysVisit(n)
    PROVE  FsInv'
<1> DEFINE path == CHOOSE p \in tasks[n].todo : TRUE
           todo == tasks[n].todo \ {path}
           found == tasks[n].found \cup KeysAt(path, tasks[n].prefix)
           t == [tasks[n] EXCEPT !.todo = todo, !.found = found]
<1>1. /\ UNCHANGED <<waits, files, crashes>> /\ tasks[n].at = "walk"
      /\ tasks' = [tasks EXCEPT ![n].todo = @ \ {path},
                                ![n].found = @ \cup KeysAt(path, tasks[n].prefix)]
  BY DEF KeysVisit, At
<1>2. tasks[n] \in Task /\ Sound(n, tasks[n])
  BY Here, OldSound
<1> HIDE DEF path
<1>3. tasks' = [tasks EXCEPT ![n] = t]
  BY <1>1, Here DEF FsInv, TypeOK
<1>4. todo \in SUBSET Paths /\ found \in SUBSET Keys
  BY <1>2 DEF Task, KeysAt
<1> HIDE DEF todo, found
<1>5. t \in Task
  BY <1>2, <1>4 DEF Task
<1>6. /\ SameCall(t, tasks[n]) /\ t.file = tasks[n].file /\ t.buf = tasks[n].buf
      /\ t.at = tasks[n].at /\ t.res = tasks[n].res /\ t.out = tasks[n].out
      /\ t.pos = tasks[n].pos
  BY <1>2 DEF Task, SameCall
<1> HIDE DEF t
<1>7. Control(t) /\ (Succeeds(t) => Succeeds(tasks[n]))
  BY <1>2, <1>6 DEF Sound, Control, SameCall, Succeeds
<1>8. Sound(n, t)
  BY <1>2, <1>5, <1>6, <1>7 DEF Sound, SameCall
<1>9. Moved
  BY <1>3, <1>8, TaskMoves DEF Moved
<1> QED BY <1>1, <1>9, FilesSame

LEMMA KeysEndKeeps ==
    ASSUME FsInv, NEW n \in Started, KeysEnd(n) \/ SystemError(n)
    PROVE  FsInv'
<1>1. UNCHANGED <<waits, files, crashes>>
  BY DEF KeysEnd, SystemError
<1>2. CASE KeysEnd(n)
  <2>1. tasks[n].op = "keys"
    BY <1>2, Here DEF KeysEnd, At, Control
  <2> QED BY <1>1, <1>2, <2>1, EndMoves, FilesSame DEF KeysEnd, Results
<1>3. CASE SystemError(n)
  BY <1>1, <1>3, EndMoves, FilesSame DEF SystemError, Results
<1> QED BY <1>2, <1>3

LEMMA SystemCallKeeps ==
    ASSUME FsInv, NEW n \in Started, SystemCall(n)
    PROVE  FsInv'
BY SetMkdirKeeps, SetCreateKeeps, SetWriteKeeps, SetSyncKeeps, GetOpenKeeps, GetReadKeeps,
   GetChtimesKeeps, DeleteRemoveKeeps, KeysVisitKeeps, KeysEndKeeps DEF SystemCall

-----------------------------------------------------------------------------
(***************************************************************************)
(* Calls, answers and crashes.                                             *)
(***************************************************************************)

\* The calls that the cache is given: what an invocation may be.
LEMMA InvocationIs ==
    ASSUME NEW call \in Invocations
    PROVE  /\ call.op \in Operations /\ call.key \in Keys /\ call.val \in {0} \cup Values
           /\ call.prefix \in SUBSET Keys /\ (call.op = "set" => call.val \in Values)
<1>1. NoKey \in Keys
  BY NamerAssumption DEF NoKey
<1> QED BY <1>1, OptionsAssumption DEF Invocations

LEMMA CallKeeps ==
    ASSUME FsInv, NEW c \in Callers, NEW conn \in Conns, Calls(c, conn)
    PROVE  FsInv'
<1>1. PICK call \in Invocations : Call(c, conn, call.op, call.key, call.val, call.prefix)
  BY DEF Calls
<1> DEFINE t == [op |-> call.op, key |-> call.key, val |-> call.val, prefix |-> call.prefix,
                 conn |-> conn, at |-> Entrance(call.op), file |-> Missing, pos |-> 0,
                 buf |-> <<>>, todo |-> IF call.op = "keys" THEN Paths ELSE {}, found |-> {},
                 res |-> "none", out |-> "none"]
           n == Len(tasks) + 1
<1>2. /\ Len(tasks) < MaxCalls /\ tasks' = Append(tasks, t)
      /\ waits' = [waits EXCEPT ![c] = n]
      /\ tree' = tree /\ data' = data /\ dirty' = dirty /\ crashes' = crashes
  BY <1>1 DEF Call, Free, files
<1>3. /\ tasks \in Seq(Task) /\ Len(tasks) \in Nat
      /\ waits \in [Callers -> 0 .. Len(tasks)]
  BY DEF FsInv, TypeOK
<1>4. /\ call.op \in Operations /\ call.key \in Keys /\ call.val \in {0} \cup Values
      /\ call.prefix \in SUBSET Keys /\ (call.op = "set" => call.val \in Values)
      /\ call.op \in {"get", "set", "delete", "keys"}
  BY InvocationIs, OptionsAssumption
<1>5. /\ Entrance(call.op) \in {"mkdir", "open", "remove", "walk"}
      /\ Entrance(call.op) = "mkdir" => call.op = "set"
      /\ Entrance(call.op) = "open" => call.op = "get"
      /\ Entrance(call.op) = "remove" => call.op = "delete"
      /\ Entrance(call.op) = "walk" => call.op = "keys"
  BY <1>4 DEF Entrance
<1>6. t \in Task
  <2>1. Entrance(call.op) \in Locations /\ <<>> \in Seq(Block)
    BY <1>5 DEF Locations
  <2>2. (IF call.op = "keys" THEN Paths ELSE {}) \in SUBSET Paths
    OBVIOUS
  <2> QED BY <1>4, <2>1, <2>2 DEF Task, Results
<1>7. Control(t) /\ ~ Succeeds(t) /\ t.file = Missing /\ Len(t.buf) = 0
  BY <1>4, <1>5 DEF Control, Succeeds
<1> HIDE DEF t
<1>8. /\ tasks' \in Seq(Task) /\ Len(tasks') = n /\ tasks'[n] = t
      /\ \A m \in Started : tasks'[m] = tasks[m]
  BY <1>2, <1>3, <1>6 DEF Started
<1>9. Grows /\ Started' = Started \cup {n}
  BY <1>2, <1>3, <1>8, CallsAssumption DEF Grows, Started, SameCall
<1>10. TypeOK'
  BY <1>2, <1>3, <1>8, <1>9 DEF FsInv, TypeOK, Grows, Inodes
<1>11. ControlInv'
  BY <1>7, <1>8, <1>9 DEF FsInv, ControlInv, Control
<1>12. TreeInv' /\ DataInv' /\ ClearInv'
  BY <1>2, <1>9, TreeStays, DataStays DEF FsInv, TypeOK
<1>13. OpenInv'
  BY <1>7, <1>8, <1>9, StaysKnown DEF FsInv, OpenInv, SameKey, Grows, SameCall, Missing
<1>14. BufInv'
  <2> SUFFICES ASSUME NEW m \in Started', NEW j \in 1 .. Len(tasks'[m].buf)
               PROVE  SealedFor(tasks[m].buf[j], tasks[m].key)'
    BY DEF BufInv
  <2>1. m \in Started /\ tasks'[m] = tasks[m]
    BY <1>7, <1>8, <1>9
  <2>2. SealedFor(tasks[m].buf[j], tasks[m].key)
    BY <2>1 DEF FsInv, BufInv
  <2> QED BY <1>8, <1>9, <2>1, <2>2 DEF SealedFor, SameKey
<1>15. GetInv'
  <2> SUFFICES ASSUME NEW m \in Started', Succeeds(tasks'[m])
               PROVE  Opened(m)'
    BY DEF GetInv, Succeeds
  <2>1. m \in Started /\ tasks'[m] = tasks[m]
    BY <1>7, <1>8, <1>9
  <2>2. Opened(m)
    BY <2>1 DEF FsInv, GetInv
  <2>3. \A l \in Started : Content(l)' = Content(l) /\ tasks'[l] = tasks[l] /\ l \in Started'
    BY <1>8, <1>9, SameContent
  <2> QED BY <2>1, <2>2, <2>3 DEF Opened
<1> QED BY <1>10, <1>11, <1>12, <1>13, <1>14, <1>15 DEF FsInv

LEMMA AnsweredKeeps ==
    ASSUME FsInv, NEW c \in Callers, Answered(c)
    PROVE  FsInv'
<1> DEFINE n == waits[c]
<1>1. /\ waits[c] # 0 /\ waits' = [waits EXCEPT ![c] = 0] /\ UNCHANGED <<files, crashes>>
      /\ \/ tasks[n].at = "done" /\ tasks' = [tasks EXCEPT ![n].out = tasks[n].res]
         \/ tasks' = [tasks EXCEPT ![n].out = "timeout"]
  BY DEF Answered, Collect, Timeout, At
<1>2. /\ tasks \in Seq(Task) /\ Len(tasks) \in Nat /\ waits \in [Callers -> 0 .. Len(tasks)]
  BY DEF FsInv, TypeOK
<1>3. n \in Started
  BY <1>1, <1>2 DEF Started
<1>4. tasks[n] \in Task /\ Sound(n, tasks[n])
  BY <1>3, Here, OldSound
<1>5. PICK out \in {tasks[n].res, "timeout"} :
         /\ tasks' = [tasks EXCEPT ![n].out = out]
         /\ out # "timeout" => tasks[n].at = "done"
  BY <1>1
<1> DEFINE t == [tasks[n] EXCEPT !.out = out]
<1>6. tasks' = [tasks EXCEPT ![n] = t]
  BY <1>2, <1>3, <1>5
<1>7. t \in Task
  BY <1>4 DEF Task, Results
<1>8. /\ SameCall(t, tasks[n]) /\ t.file = tasks[n].file /\ t.buf = tasks[n].buf
      /\ t.at = tasks[n].at /\ t.res = tasks[n].res /\ t.out = out
      /\ t.pos = tasks[n].pos
  BY <1>4 DEF Task, SameCall
<1> HIDE DEF t, n
<1>9. Control(t) /\ (Succeeds(t) => Succeeds(tasks[n]))
  BY <1>4, <1>5, <1>8 DEF Sound, Control, SameCall, Succeeds
<1>10. Sound(n, t)
  BY <1>4, <1>7, <1>8, <1>9 DEF Sound, SameCall
<1>11. Moved
  BY <1>3, <1>6, <1>10, TaskMoves DEF Moved
<1>12. tree' = tree /\ data' = data /\ dirty' = dirty /\ crashes' = crashes
  BY <1>1 DEF files
<1>13. TreeInv' /\ DataInv' /\ ClearInv'
  BY <1>11, <1>12, TreeSame, DataSame
<1>14. waits' \in [Callers -> 0 .. Len(tasks')]
  BY <1>1, <1>2, <1>11 DEF Moved
<1>15. TypeOK'
  BY <1>11, <1>12, <1>14 DEF FsInv, Moved, Grows, TypeOK, Inodes
<1> QED BY <1>11, <1>13, <1>15 DEF Moved, FsInv

\* A crash keeps a first part of what a file held, and what the calls were given.
LEMMA CrashKeeps ==
    ASSUME FsInv, Crash
    PROVE  FsInv'
<1> DEFINE after(n) == IF At(n, "done") THEN tasks[n] ELSE [tasks[n] EXCEPT !.at = "gone"]
<1>1. /\ tasks' = [n \in 1 .. Len(tasks) |-> after(n)]
      /\ waits' = [c \in Callers |-> 0] /\ dirty' = {} /\ tree' = tree
      /\ crashes' = crashes + 1 /\ crashes < MaxCrashes
  BY DEF Crash
<1>2. PICK kept \in [dirty -> 0 .. MaxSize] :
         data' = [i \in Inodes |-> IF i \in dirty /\ kept[i] < Len(data[i])
                                   THEN SubSeq(data[i], 1, kept[i]) ELSE data[i]]
  BY DEF Crash
<1>3. /\ tasks \in Seq(Task) /\ Len(tasks) \in Nat /\ Len(tasks) <= MaxCalls
      /\ data \in [Inodes -> Seq(Block)] /\ crashes \in 0 .. MaxCrashes
      /\ tree \in [Paths -> {Missing, Directory} \cup Inodes]
  BY DEF FsInv, TypeOK
<1>4. ASSUME NEW n \in Started
      PROVE  /\ after(n) \in Task /\ SameCall(after(n), tasks[n])
             /\ after(n).file = tasks[n].file /\ after(n).buf = tasks[n].buf
             /\ after(n).res = tasks[n].res /\ after(n).out = tasks[n].out
             /\ after(n).at \in {"done", "gone"}
  <2>1. tasks[n] \in Task
    BY Here
  <2>2. CASE At(n, "done")
    BY <2>1, <2>2 DEF At, SameCall
  <2>3. CASE ~ At(n, "done")
    BY <2>1, <2>3 DEF SameCall, Task, Locations
  <2> QED BY <2>2, <2>3
<1> HIDE DEF after
<1>5. /\ tasks' \in Seq(Task) /\ Len(tasks') = Len(tasks) /\ Started' = Started
      /\ \A n \in Started : tasks'[n] = after(n)
  BY <1>1, <1>3, <1>4 DEF Started
<1>6. Grows
  BY <1>3, <1>4, <1>5 DEF Grows
<1>7. ASSUME NEW i \in Inodes
      PROVE  /\ data'[i] \in Seq(Block)
             /\ \A j \in 1 .. Len(data'[i]) : j \in 1 .. Len(data[i]) /\ data'[i][j] = data[i][j]
  <2>1. data[i] \in Seq(Block)
    BY <1>3
  <2>2. CASE i \in dirty /\ kept[i] < Len(data[i])
    <3>1. data'[i] = SubSeq(data[i], 1, kept[i])
      BY <1>2, <2>2
    <3>2. kept[i] \in Nat /\ kept[i] < Len(data[i])
      BY <2>2, ValuesAssumption
    <3>3. \A j \in 1 .. kept[i] : data[i][j] \in Block
      BY <2>1, <3>2
    <3>4. /\ SubSeq(data[i], 1, kept[i]) \in Seq(Block)
          /\ Len(SubSeq(data[i], 1, kept[i])) = IF 1 <= kept[i] THEN kept[i] - 1 + 1 ELSE 0
          /\ \A j \in 1 .. kept[i] - 1 + 1 : SubSeq(data[i], 1, kept[i])[j] = data[i][1 + j - 1]
      <4>1. 1 \in Int /\ kept[i] \in Int
        BY <3>2
      <4> QED BY <3>3, <4>1, SubSeqProperties
    <3> QED BY <2>1, <3>1, <3>2, <3>4
  <2>3. CASE ~ (i \in dirty /\ kept[i] < Len(data[i]))
    BY <1>2, <2>1, <2>3
  <2> QED BY <2>2, <2>3
<1>8. data' \in [Inodes -> Seq(Block)]
  BY <1>2, <1>7
<1>9. TypeOK'
  <2>1. waits' \in [Callers -> 0 .. Len(tasks')]
    BY <1>1, <1>3, <1>5
  <2>2. crashes' \in 0 .. MaxCrashes
    BY <1>1, <1>3, CallsAssumption
  <2> QED BY <1>1, <1>3, <1>5, <1>8, <2>1, <2>2 DEF TypeOK, Inodes
<1>10. ControlInv'
  <2>1. \A n \in Started : Control(tasks[n])
    BY DEF FsInv, ControlInv
  <2>2. \A n \in Started : Control(after(n))
    BY <1>4, <2>1 DEF Control, SameCall
  <2> QED BY <1>5, <2>2 DEF ControlInv, Control
<1>11. TreeInv' /\ DataInv' /\ ClearInv'
  <2>1. TreeInv'
    BY <1>1, <1>6, TreeStays DEF FsInv
  <2>2. DataInv' /\ ClearInv'
    BY <1>3, <1>6, <1>7, DataStays DEF FsInv
  <2> QED BY <2>1, <2>2
<1>12. OpenInv'
  <2> SUFFICES ASSUME NEW n \in Started, tasks'[n].file # Missing
               PROVE  SameKey(tasks[n].file, tasks[n].key)'
    BY <1>5 DEF OpenInv, Missing
  <2>1. SameKey(tasks'[n].file, tasks'[n].key)
    BY <1>4, <1>5 DEF FsInv, OpenInv, SameCall
  <2> QED BY <1>5, <1>6, <2>1 DEF Grows, SameCall, SameKey
<1>13. BufInv'
  <2> SUFFICES ASSUME NEW n \in Started, NEW j \in 1 .. Len(tasks'[n].buf)
               PROVE  SealedFor(tasks[n].buf[j], tasks[n].key)'
    BY <1>5 DEF BufInv
  <2>1. SealedFor(tasks'[n].buf[j], tasks'[n].key)
    BY <1>4, <1>5 DEF FsInv, BufInv, SameCall
  <2> QED BY <1>5, <1>6, <2>1 DEF Grows, SameCall, SealedFor, SameKey
<1>14. GetInv'
  <2> SUFFICES ASSUME NEW n \in Started, Succeeds(tasks'[n])
               PROVE  Opened(n)'
    BY <1>5 DEF GetInv, Succeeds
  <2>1. Succeeds(tasks[n])
    BY <1>4, <1>5 DEF Succeeds, SameCall
  <2>2. Opened(n)
    BY <2>1 DEF FsInv, GetInv
  <2>3. \A l \in Started : Content(l)' = Content(l) /\ SameCall(tasks'[l], tasks[l])
    BY <1>6, SameContent DEF Grows
  <2>4. tasks'[n].buf = tasks[n].buf
    BY <1>4, <1>5
  <2> QED BY <1>5, <2>2, <2>3, <2>4 DEF Opened, SameCall
<1> QED BY <1>9, <1>10, <1>11, <1>12, <1>13, <1>14 DEF FsInv

LEMMA StutterKeeps ==
    ASSUME FsInv, UNCHANGED vars
    PROVE  FsInv'
<1>1. /\ tasks' = tasks /\ waits' = waits /\ tree' = tree /\ data' = data
      /\ dirty' = dirty /\ crashes' = crashes
  BY DEF vars
<1>2. TypeOK' /\ ControlInv' /\ TreeInv' /\ OpenInv'
  BY <1>1 DEF FsInv, TypeOK, ControlInv, Control, TreeInv, OpenInv, SameKey, Started, Inodes,
              Missing
<1>3. DataInv' /\ ClearInv' /\ BufInv'
  BY <1>1 DEF FsInv, DataInv, ClearInv, BufInv, FileSealed, ClearFrom, SealedFor, SameKey,
              Started, Inodes
<1>4. GetInv'
  BY <1>1 DEF FsInv, GetInv, Succeeds, Opened, Content, Started
<1> QED BY <1>2, <1>3, <1>4 DEF FsInv

LEMMA FsInit ==
    ASSUME Init
    PROVE  FsInv
<1>1. /\ tasks = <<>> /\ Len(tasks) = 0 /\ waits = [c \in Callers |-> 0]
      /\ tree = [p \in Paths |-> Missing] /\ data = [i \in Inodes |-> <<>>]
      /\ dirty = {} /\ crashes = 0
  BY DEF Init
<1>2. Started = {}
  BY <1>1 DEF Started
<1>3. TypeOK
  BY <1>1, CallsAssumption DEF TypeOK
<1>4. TreeInv
  BY <1>1, Numbers DEF TreeInv
<1>5. \A i \in Inodes : Len(data[i]) = 0
  BY <1>1
<1>6. DataInv /\ ClearInv
  BY <1>5 DEF DataInv, ClearInv, FileSealed
<1> QED BY <1>2, <1>3, <1>4, <1>6 DEF FsInv, ControlInv, OpenInv, BufInv, GetInv

LEMMA FsStep ==
    ASSUME FsInv, [Next]_vars
    PROVE  FsInv'
<1>1. ASSUME NEW c \in Callers, (\E conn \in Conns : Calls(c, conn)) \/ Answered(c)
      PROVE  FsInv'
  BY <1>1, CallKeeps, AnsweredKeeps
<1>2. ASSUME NEW n \in 1 .. Len(tasks), SystemCall(n) PROVE FsInv'
  BY <1>2, SystemCallKeeps DEF Started
<1>3. CASE Crash
  BY <1>3, CrashKeeps
<1>4. CASE Quiescent \/ UNCHANGED vars
  BY <1>4, StutterKeeps DEF Quiescent
<1> QED BY <1>1, <1>2, <1>3, <1>4 DEF Next

LEMMA FsInvariant == Spec => []FsInv
<1>1. Init => FsInv
  BY FsInit
<1>2. FsInv /\ [Next]_vars => FsInv'
  BY FsStep
<1> QED BY <1>1, <1>2, PTL DEF Spec

(***************************************************************************)
(* The goroutines, the directory and the files of the cache always have    *)
(* the types that the code relies on: a goroutine that writes or reads has *)
(* its file open, no index runs out of a buffer, and no operation starts   *)
(* at a system call of another one.                                        *)
(***************************************************************************)
THEOREM FsTypeCorrect == Spec => []TypeOK
<1>1. FsInv => TypeOK
  BY DEF FsInv
<1> QED BY <1>1, FsInvariant, PTL

(***************************************************************************)
(* A Get that succeeds, of any cache with an encryptor, returns what one   *)
(* Set of the same key was given, all of it and nothing else: other calls, *)
(* caches without an encryptor on the same directory, timeouts, failures   *)
(* and crashes between the system calls of the two notwithstanding.        *)
(***************************************************************************)
SealedReads ==
    \A n \in 1 .. Len(tasks) :
        tasks[n].op = "get" /\ tasks[n].out = "ok" /\ tasks[n].conn.enc # 0 =>
            \E m \in 1 .. Len(tasks) : /\ tasks[m].op = "set"
                                       /\ tasks[m].key = tasks[n].key
                                       /\ tasks[n].buf = Content(m)

THEOREM SealedReadsSound == Spec => []SealedReads
<1>1. FsInv => SealedReads
  BY DEF FsInv, GetInv, Succeeds, Opened, SealedReads, Started
<1> QED BY <1>1, FsInvariant, PTL

(***************************************************************************)
(* Where every cache on the directory has an encryptor, no Get ever        *)
(* returns torn or mixed contents.                                         *)
(***************************************************************************)
THEOREM ReadsIntact ==
    ASSUME \A conn \in Conns : conn.enc # 0
    PROVE  Spec => []IntactReads
<1>1. FsInv => IntactReads
  <2> SUFFICES ASSUME FsInv, NEW n \in Started, tasks[n].op = "get", tasks[n].out = "ok"
               PROVE  Opened(n)
    BY DEF IntactReads, Opened, Started
  <2>1. tasks[n].conn \in Conns
    BY Here DEF Task
  <2> QED BY <2>1 DEF FsInv, GetInv, Succeeds
<1> QED BY <1>1, FsInvariant, PTL

-----------------------------------------------------------------------------
(***************************************************************************)
(* The handlers and the program.                                           *)
(***************************************************************************)

\* A cache that opens is the one that its DSN asks for.
LEMMA OpenedIs ==
    ASSUME NEW dsn \in ProgramDsns \cup ApiDsns, NEW opened \in O!OpenConn(dsn),
           opened.ok, opened.driver = "fscache"
    PROVE  /\ dsn.scheme = "fscache" /\ ~ O!OptionError(dsn)
           /\ opened.conn = O!FsConn(dsn) /\ opened.conn \in Conns
<1>1. dsn.scheme \in Drivers
  BY DEF O!OpenConn, O!Failed
<1>2. dsn.scheme \in {"fscache", "memcache"}
  BY <1>1, OpeningAssumption
<1>3. dsn.scheme # "memcache"
  <2> SUFFICES ASSUME dsn.scheme = "memcache" PROVE FALSE
    OBVIOUS
  <2>1. O!OpenConn(dsn) = {[ok |-> TRUE, driver |-> "memcache"]}
    BY <1>1 DEF O!OpenConn
  <2> QED BY <2>1
<1>4. dsn.scheme = "fscache"
  BY <1>2, <1>3
<1>5. O!OpenConn(dsn) = IF O!OptionError(dsn) THEN {O!Failed}
                        ELSE {[ok |-> TRUE, driver |-> "fscache", conn |-> O!FsConn(dsn)]}
                             \cup (IF InitFails THEN {O!Failed} ELSE {})
  BY <1>1, <1>4 DEF O!OpenConn
<1>6. ~ O!OptionError(dsn) /\ opened.conn = O!FsConn(dsn)
  BY <1>5 DEF O!Failed
<1> QED BY <1>4, <1>6, UseAssumption

\* It has an encryptor if one was asked for, and its timeout is not over at once.
IsOpen(conn) == (conn.sealed => conn.enc # 0) /\ conn.timeout > 0

LEMMA OpensAsAsked ==
    ASSUME NEW dsn \in ProgramDsns \cup ApiDsns, ~ O!OptionError(dsn)
    PROVE  IsOpen(O!FsConn(dsn))
<1>0. O!FsConn(dsn).timeout > 0
  <2>1. dsn \in O!Dsn /\ DefaultTimeout \in Nat \ {0}
    BY OpeningAssumption
  <2>2. O!FsConn(dsn).timeout = O!Timeout(dsn)
    BY DEF O!FsConn
  <2>3. dsn.timeout \in Int
    BY <2>1 DEF O!Dsn
  <2>4. DefaultTimeout > 0
    BY <2>1
  <2> QED BY <2>2, <2>3, <2>4 DEF O!Timeout
<1> SUFFICES ASSUME O!AsksForEncryption(dsn) PROVE O!FsConn(dsn).enc # 0
  BY <1>0 DEF O!FsConn, IsOpen
<1>1. dsn \in O!Dsn /\ EnvKey \in Nat \cup {O!BadKeyText}
  BY OpeningAssumption
<1>2. dsn.key \in Nat \cup {O!BadKeyText}
  BY <1>1 DEF O!Dsn
<1>3. O!KeyText(dsn) \in Nat \cup {O!BadKeyText}
  BY <1>1, <1>2 DEF O!KeyText
<1>4. O!KeyText(dsn) \notin {O!NoKeyText, O!BadKeyText}
  BY DEF O!OptionError
<1>5. O!KeyText(dsn) > 0
  BY <1>3, <1>4 DEF O!NoKeyText, O!BadKeyText
<1> QED BY <1>5 DEF O!FsConn

\* A step of the composition is a step of the cache, or leaves it alone.
LEMMA ServeByCallIs ==
    ASSUME NEW c \in Callers, NEW req \in Requests, ServeByCall(c, req)
    PROVE  \E dsn \in ProgramDsns \cup ApiDsns :
               ~ O!OptionError(dsn) /\ O!FsConn(dsn) \in Conns /\ Calls(c, O!FsConn(dsn))
<1>1. PICK opened \in O!OpenConn(req.dsn) :
         /\ opened.ok /\ opened.driver = "fscache"
         /\ Call(c, opened.conn, req.op, req.key, 0, req.prefix)
  BY DEF ServeByCall
<1>2. /\ req.dsn \in ApiDsns
      /\ \/ req.op \in {"get", "delete"} /\ req.key \in Keys /\ req.prefix = {}
         \/ req.op = "keys" /\ req.key = NoKey /\ req.prefix \in Prefixes
  BY DEF Requests
<1> DEFINE call == [op |-> req.op, key |-> req.key, val |-> 0, prefix |-> req.prefix]
<1>3. call \in Invocations
  BY <1>2, UseAssumption DEF Invocations
<1>4. Calls(c, opened.conn)
  <2>1. call.op = req.op /\ call.key = req.key /\ call.val = 0 /\ call.prefix = req.prefix
    OBVIOUS
  <2> HIDE DEF call
  <2> QED BY <1>1, <1>3, <2>1 DEF Calls
<1> QED BY <1>1, <1>2, <1>4, OpenedIs

LEMMA ProgramSetIs ==
    ASSUME NEW c \in Callers, ProgramSet(c)
    PROVE  \E dsn \in ProgramDsns \cup ApiDsns :
               ~ O!OptionError(dsn) /\ O!FsConn(dsn) \in Conns /\ Calls(c, O!FsConn(dsn))
<1>1. PICK dsn \in ProgramDsns : \E opened \in O!OpenConn(dsn) :
         /\ opened.ok /\ opened.driver = "fscache"
         /\ \E key \in Keys, val \in Values : Call(c, opened.conn, "set", key, val, {})
  BY DEF ProgramSet
<1>2. PICK opened \in O!OpenConn(dsn) :
         /\ opened.ok /\ opened.driver = "fscache"
         /\ \E key \in Keys, val \in Values : Call(c, opened.conn, "set", key, val, {})
  BY <1>1
<1>3. PICK key \in Keys, val \in Values : Call(c, opened.conn, "set", key, val, {})
  BY <1>2
<1> DEFINE call == [op |-> "set", key |-> key, val |-> val, prefix |-> {}]
<1>4. call \in Invocations
  BY UseAssumption DEF Invocations
<1>5. Calls(c, opened.conn)
  <2>1. call.op = "set" /\ call.key = key /\ call.val = val /\ call.prefix = {}
    OBVIOUS
  <2> HIDE DEF call
  <2> QED BY <1>3, <1>4, <2>1 DEF Calls
<1> QED BY <1>2, <1>5, OpenedIs

LEMMA ApiStepIs ==
    ASSUME [ApiNext]_apiVars
    PROVE  [Next]_vars
<1>1. ASSUME NEW c \in Callers,
             ServeAtOnce(c) \/ (\E req \in Requests : ServeByCall(c, req))
             \/ ServeEnd(c) \/ ProgramSet(c) \/ ProgramReturn(c)
      PROVE  Next \/ UNCHANGED vars
  <2>1. CASE ServeAtOnce(c)
    BY <2>1 DEF ServeAtOnce
  <2>2. CASE (\E req \in Requests : ServeByCall(c, req)) \/ ProgramSet(c)
    BY <2>2, ServeByCallIs, ProgramSetIs DEF Next
  <2>3. CASE ServeEnd(c) \/ ProgramReturn(c)
    BY <2>3 DEF ServeEnd, ProgramReturn, Next
  <2> QED BY <1>1, <2>1, <2>2, <2>3
<1>2. (\E n \in 1 .. Len(tasks) : SystemCall(n)) \/ Crash \/ Quiescent => Next
  BY DEF Next
<1>3. UNCHANGED apiVars => UNCHANGED vars
  BY DEF apiVars
<1> QED BY <1>1, <1>2, <1>3 DEF ApiNext

(***************************************************************************)
(* The handlers and the program use the file system cache as FsCache says: *)
(* whatever the DSNs of the requests are, what they do to the directory is *)
(* a behaviour of the cache, so that what holds of FsCache holds of them.  *)
(***************************************************************************)
THEOREM ApiImplementsFsCache == ApiSpec => Spec
<1>1. ApiInit => Init
  BY DEF ApiInit
<1>2. [ApiNext]_apiVars => [Next]_vars
  BY ApiStepIs
<1> QED BY <1>1, <1>2, PTL DEF ApiSpec, Spec

\* Every call is made on a cache that has opened as it was asked for.
ConnsOpen == \A n \in Started : IsOpen(tasks[n].conn)

LEMMA CallAppends ==
    ASSUME FsInv, ConnsOpen, NEW c \in Callers, NEW conn, Calls(c, conn),
           IsOpen(conn)
    PROVE  ConnsOpen'
<1>1. PICK call \in Invocations : Call(c, conn, call.op, call.key, call.val, call.prefix)
  BY DEF Calls
<1>2. tasks \in Seq(Task) /\ Len(tasks) \in Nat
  BY DEF FsInv, TypeOK
<1>3. PICK t : tasks' = Append(tasks, t) /\ t.conn = conn
  BY <1>1 DEF Call
<1>4. /\ Len(tasks') = Len(tasks) + 1 /\ tasks'[Len(tasks) + 1] = t
      /\ \A m \in Started : tasks'[m] = tasks[m]
  BY <1>2, <1>3 DEF Started
<1>5. \A m \in Started' : m \in Started \/ m = Len(tasks) + 1
  BY <1>2, <1>4 DEF Started
<1> QED BY <1>3, <1>4, <1>5 DEF ConnsOpen

\* The other steps leave the caches and the operations of the calls as they are.
CallsKept ==
    /\ Len(tasks') = Len(tasks)
    /\ \A m \in Started : tasks'[m].conn = tasks[m].conn /\ tasks'[m].op = tasks[m].op

LEMMA ConnsStayOpen ==
    ASSUME ConnsOpen, CallsKept
    PROVE  ConnsOpen'
BY DEF ConnsOpen, CallsKept, Started

LEMMA SystemCallConns ==
    ASSUME FsInv, NEW n \in Started, SystemCall(n)
    PROVE  CallsKept
<1>1. tasks \in Seq(Task) /\ n \in 1 .. Len(tasks) /\ \A m \in Started : tasks[m] \in Task
  BY Here DEF FsInv, TypeOK
<1>2. ASSUME NEW res, End(n, res) PROVE CallsKept
  BY <1>1, <1>2 DEF End, CallsKept, Started, Task
<1>3. ASSUME NEW where, Goto(n, where) PROVE CallsKept
  BY <1>1, <1>3 DEF Goto, CallsKept, Started, Task
<1>4. CASE SetMkdir(n) \/ SetSync(n) \/ GetChtimes(n) \/ KeysEnd(n) \/ SystemError(n)
  BY <1>2, <1>3, <1>4 DEF SetMkdir, SetSync, GetChtimes, KeysEnd, SystemError
<1>5. CASE DeleteRemove(n)
  BY <1>2, <1>5 DEF DeleteRemove
<1>6. CASE SetCreate(n)
  <2>1. ASSUME NEW file, tasks' = [tasks EXCEPT ![n].at = "write", ![n].file = file]
        PROVE  CallsKept
    <3> DEFINE t == [tasks[n] EXCEPT !.at = "write", !.file = file]
    <3>1. tasks' = [tasks EXCEPT ![n] = t]
      BY <1>1, <2>1
    <3>2. t.conn = tasks[n].conn /\ t.op = tasks[n].op
      BY <1>1 DEF Task
    <3> HIDE DEF t
    <3> QED BY <1>1, <3>1, <3>2 DEF CallsKept, Started
  <2> QED BY <1>2, <1>6, <2>1 DEF SetCreate
<1>7. CASE SetWrite(n)
  <2>1. ASSUME NEW pos, NEW where, tasks' = [tasks EXCEPT ![n].pos = pos, ![n].at = where]
        PROVE  CallsKept
    <3> DEFINE t == [tasks[n] EXCEPT !.pos = pos, !.at = where]
    <3>1. tasks' = [tasks EXCEPT ![n] = t]
      BY <1>1, <2>1
    <3>2. t.conn = tasks[n].conn /\ t.op = tasks[n].op
      BY <1>1 DEF Task
    <3> HIDE DEF t
    <3> QED BY <1>1, <3>1, <3>2 DEF CallsKept, Started
  <2> QED BY <1>7, <2>1 DEF SetWrite
<1>8. CASE GetOpen(n)
  <2>1. ASSUME NEW file, tasks' = [tasks EXCEPT ![n].at = "read", ![n].file = file]
        PROVE  CallsKept
    <3> DEFINE t == [tasks[n] EXCEPT !.at = "read", !.file = file]
    <3>1. tasks' = [tasks EXCEPT ![n] = t]
      BY <1>1, <2>1
    <3>2. t.conn = tasks[n].conn /\ t.op = tasks[n].op
      BY <1>1 DEF Task
    <3> HIDE DEF t
    <3> QED BY <1>1, <3>1, <3>2 DEF CallsKept, Started
  <2> QED BY <1>2, <1>8, <2>1 DEF GetOpen
<1>9. CASE GetRead(n)
  <2>1. ASSUME NEW block,
               tasks' = [tasks EXCEPT ![n].pos = @ + 1, ![n].buf = Append(@, block)]
        PROVE  CallsKept
    <3> DEFINE t == [tasks[n] EXCEPT !.pos = @ + 1, !.buf = Append(@, block)]
    <3>1. tasks' = [tasks EXCEPT ![n] = t]
      BY <1>1, <2>1
    <3>2. t.conn = tasks[n].conn /\ t.op = tasks[n].op
      BY <1>1 DEF Task
    <3> HIDE DEF t
    <3> QED BY <1>1, <3>1, <3>2 DEF CallsKept, Started
  <2> QED BY <1>2, <1>3, <1>9, <2>1 DEF GetRead
<1>10. CASE KeysVisit(n)
  <2>1. ASSUME NEW path, NEW keys,
               tasks' = [tasks EXCEPT ![n].todo = @ \ {path}, ![n].found = @ \cup keys]
        PROVE  CallsKept
    <3> DEFINE t == [tasks[n] EXCEPT !.todo = @ \ {path}, !.found = @ \cup keys]
    <3>1. tasks' = [tasks EXCEPT ![n] = t]
      BY <1>1, <2>1
    <3>2. t.conn = tasks[n].conn /\ t.op = tasks[n].op
      BY <1>1 DEF Task
    <3> HIDE DEF t
    <3> QED BY <1>1, <3>1, <3>2 DEF CallsKept, Started
  <2> QED BY <1>10, <2>1 DEF KeysVisit
<1> QED BY <1>4, <1>5, <1>6, <1>7, <1>8, <1>9, <1>10 DEF SystemCall

LEMMA OtherConns ==
    ASSUME FsInv, Crash \/ Quiescent \/ UNCHANGED vars \/ \E c \in Callers : Answered(c)
    PROVE  CallsKept
<1>1. tasks \in Seq(Task) /\ Len(tasks) \in Nat /\ \A m \in Started : tasks[m] \in Task
  BY Here DEF FsInv, TypeOK
<1>2. CASE Crash
  <2>1. tasks' = [n \in 1 .. Len(tasks) |->
                    IF At(n, "done") THEN tasks[n] ELSE [tasks[n] EXCEPT !.at = "gone"]]
    BY <1>2 DEF Crash
  <2> QED BY <1>1, <2>1 DEF CallsKept, Started, Task
<1>3. CASE Quiescent \/ UNCHANGED vars
  BY <1>3 DEF Quiescent, vars, CallsKept
<1>4. ASSUME NEW c \in Callers, Answered(c) PROVE CallsKept
  <2>1. waits[c] \in 1 .. Len(tasks)
    BY <1>1, <1>4 DEF Answered, Collect, Timeout, FsInv, TypeOK
  <2>2. ASSUME NEW out, tasks' = [tasks EXCEPT ![waits[c]].out = out] PROVE CallsKept
    BY <1>1, <2>1, <2>2 DEF CallsKept, Started, Task
  <2> QED BY <1>4, <2>2 DEF Answered, Collect, Timeout
<1> QED BY <1>2, <1>3, <1>4

LEMMA ApiStep ==
    ASSUME FsInv, ConnsOpen, [ApiNext]_apiVars
    PROVE  FsInv' /\ ConnsOpen'
<1>1. FsInv'
  BY ApiStepIs, FsStep
<1>2. ASSUME NEW c \in Callers, (\E req \in Requests : ServeByCall(c, req)) \/ ProgramSet(c)
      PROVE  ConnsOpen'
  <2>1. PICK dsn \in ProgramDsns \cup ApiDsns :
           ~ O!OptionError(dsn) /\ Calls(c, O!FsConn(dsn))
    BY <1>2, ServeByCallIs, ProgramSetIs
  <2>2. IsOpen(O!FsConn(dsn))
    BY <2>1, OpensAsAsked
  <2> QED BY <2>1, <2>2, CallAppends
<1>3. ASSUME NEW c \in Callers, ServeAtOnce(c) \/ ServeEnd(c) \/ ProgramReturn(c)
      PROVE  ConnsOpen'
  BY <1>3, OtherConns, ConnsStayOpen DEF ServeAtOnce, ServeEnd, ProgramReturn
<1>4. ASSUME NEW n \in 1 .. Len(tasks), SystemCall(n) PROVE ConnsOpen'
  BY <1>4, SystemCallConns, ConnsStayOpen DEF Started
<1>5. CASE Crash \/ Quiescent \/ UNCHANGED apiVars
  <2>1. Crash \/ Quiescent \/ UNCHANGED vars
    BY <1>5 DEF apiVars
  <2>2. CallsKept
    BY <2>1, OtherConns
  <2> QED BY <1>1, <2>2, ConnsStayOpen
<1> QED BY <1>1, <1>2, <1>3, <1>4, <1>5 DEF ApiNext

(***************************************************************************)
(* Whoever asks for encryption gets it or an error, for any DSNs of the    *)
(* program and of the requests to the handlers: what is on disk in clear   *)
(* was written through a cache that was opened without asking for it.      *)
(***************************************************************************)
THEOREM SealedOnDiskSound == ApiSpec => []SealedOnDisk
<1>1. ApiInit => FsInv /\ ConnsOpen
  BY FsInit DEF ApiInit, Init, ConnsOpen, Started
<1>2. FsInv /\ ConnsOpen /\ [ApiNext]_apiVars => (FsInv /\ ConnsOpen)'
  BY ApiStep
<1>3. FsInv /\ ConnsOpen => SealedOnDisk
  <2> SUFFICES ASSUME FsInv, ConnsOpen, NEW i \in Inodes, NEW j \in DOMAIN data[i],
                      data[i][j].val # 0, data[i][j].nonce = 0
               PROVE  \E m \in 1 .. Len(tasks) : /\ tasks[m].op = "set"
                                                 /\ tasks[m].val = data[i][j].val
                                                 /\ ~ tasks[m].conn.sealed
    BY DEF SealedOnDisk
  <2>1. ClearFrom(data[i][j])
    <3>1. data[i] \in Seq(Block)
      BY DEF FsInv, TypeOK
    <3>2. j \in 1 .. Len(data[i])
      BY <3>1
    <3> QED BY <3>2 DEF FsInv, ClearInv
  <2> QED BY <2>1 DEF ClearFrom, ConnsOpen, IsOpen, Started
<1> QED BY <1>1, <1>2, <1>3, PTL DEF ApiSpec

-----------------------------------------------------------------------------
(***************************************************************************)
(* One caller that waits for its answers.  The hypothesis: there is one    *)
(* caller, no call outlasts its timeout, reading does not fail, and no     *)
(* file is where another key needs a directory.                            *)
(***************************************************************************)
OneCaller ==
    /\ \E c \in Callers : Callers = {c}
    /\ ~ Timeouts
    /\ Faults \cap {"open", "read", "chtimes"} = {}
    /\ \A k, l \in Keys : FileName(k) \notin Ancestors(FileName(l))

\* No call is made on a cache whose timeout is over at once.
Patient == \A n \in Started : tasks[n].conn.timeout > 0

(***************************************************************************)
(* The inductive invariant.  At most the last call is under way            *)
(* (SerialInv), so that the name of a key leads to what the last change    *)
(* that succeeded has left (FileInv), and a call that is over has found    *)
(* that (CallsInv).                                                        *)
(***************************************************************************)
IsOver(t) == t.at \in {"done", "gone"}

SerialInv ==
    /\ \A c \in Callers : waits[c] \in {0, Len(tasks)}
    /\ \A n \in Started : IsOver(tasks[n]) \/ (n = Len(tasks) /\ \E c \in Callers : waits[c] = n)
    /\ \A n \in Started : tasks[n].out # "none" =>
          tasks[n].at = "done" /\ tasks[n].out = tasks[n].res

\* A Set or a Delete of the key; a Delete that has not begun is none yet.
Changes(t, key) == t.op \in {"set", "delete"} /\ t.key = key /\ t.at # "remove"

\* The change of the key after which there was no other.
IsLast(key, m) ==
    /\ m \in Started /\ Changes(tasks[m], key)
    /\ \A l \in Started : Changes(tasks[l], key) => l <= m

\* The name of the key leads to what a Set wrote, which is on the disk.
Holds(key, m) ==
    LET i == tree[FileName(key)]
    IN  i \in Inodes \ dirty /\ data[i] = Content(m)

\* What a change that has succeeded has left.
Left(key, m) ==
    tasks[m].at = "done" /\ tasks[m].res \in {"ok", "notexist"} =>
        IF tasks[m].op = "delete" THEN tree[FileName(key)] = Missing ELSE Holds(key, m)

FileOK(key) ==
    /\ tree[FileName(key)] # Directory
    /\ (\A l \in Started : ~ Changes(tasks[l], key)) => tree[FileName(key)] = Missing
    /\ \A m \in Started : IsLast(key, m) => Left(key, m)

FileInv == \A key \in Keys : FileOK(key)

\* The answers to the calls before n say that the key is missing, or stored by m.
KeyAbsent(n, key) ==
    \/ Mutations(n, key) = {}
    \/ \E m \in Mutations(n, key) : LeftBy(n, key, m) /\ tasks[m].op = "delete"
KeyPresent(n, key, m) == LeftBy(n, key, m) /\ tasks[m].op = "set"

\* The result of the n-th call, t, is the one that the changes before it call for.
Right(n, t, res) ==
    /\ t.op = "get" =>
         /\ KeyAbsent(n, t.key) => res = "notexist"
         /\ \A m \in 1 .. n - 1 : KeyPresent(n, t.key, m) =>
              IF Readable(n, m) THEN res = "ok" /\ t.buf = Content(m) ELSE res = "error"
    /\ t.op = "delete" /\ "remove" \notin Faults =>
         /\ KeyAbsent(n, t.key) => res = "notexist"
         /\ \A m \in 1 .. n - 1 : KeyPresent(n, t.key, m) => res = "ok"
    /\ t.op = "keys" /\ res = "ok" =>
         \A key \in Keys : \A m \in 1 .. n - 1 : LeftBy(n, key, m) =>
             (key \in t.found <=> key \in t.prefix /\ tasks[m].op = "set")
    /\ t.op = "keys" /\ "walk" \notin Faults => res = "ok"

\* s is the first n elements of t.
IsFirst(s, t, n) == /\ n \in 0 .. Len(t) /\ Len(s) = n
                    /\ \A j \in 1 .. n : s[j] = t[j]

\* How far the n-th call, t, has got.
Progress(n, t) ==
    LET i == tree[FileName(t.key)]
    IN  /\ t.at \in {"write", "sync", "read"} => t.file = i
        /\ t.at = "write" => IsFirst(data[i], Content(n), t.pos)
        /\ t.at = "sync" => data[i] = Content(n)
        /\ t.at = "open" => t.pos = 0 /\ t.buf = <<>>
        /\ t.at = "read" => IsFirst(t.buf, data[i], t.pos)
        /\ t.at = "chtimes" => i \in Inodes /\ Right(n, t, "ok")
        /\ t.at = "walk" => \A key \in Keys :
             key \in t.found <=> /\ FileName(key) \notin t.todo
                                 /\ key \in t.prefix /\ tree[FileName(key)] \in Inodes
        /\ t.at = "done" => Right(n, t, t.res)

CallsInv == \A n \in Started : Progress(n, tasks[n])

SeqInv == SerialInv /\ FileInv /\ CallsInv

-----------------------------------------------------------------------------
\* A call that is under way is the last one, and the others are over.
LEMMA Alone ==
    ASSUME FsInv, SeqInv, NEW n \in Started, ~ IsOver(tasks[n])
    PROVE  /\ n = Len(tasks) /\ tasks[n].out = "none" /\ tasks[n].res = "none"
           /\ \A m \in Started : m # n => IsOver(tasks[m])
           /\ FileInv /\ Progress(n, tasks[n]) /\ tasks[n].key \in Keys
<1>1. n = Len(tasks) /\ tasks[n].out = "none"
  BY DEF SeqInv, SerialInv, IsOver
<1>2. tasks[n].res = "none" /\ tasks[n].key \in Keys
  BY Here DEF Control, IsOver, Task, Locations
<1>3. \A m \in Started : m # n => IsOver(tasks[m])
  BY <1>1 DEF SeqInv, SerialInv
<1> QED BY <1>1, <1>2, <1>3 DEF SeqInv, CallsInv

\* The answers to the calls before the last one stay.
Answers == Grows /\ \A m \in 1 .. Len(tasks) - 1 : tasks'[m].out = tasks[m].out

LEMMA Past ==
    ASSUME Answers, NEW n \in Started
    PROVE  /\ \A key : KeyAbsent(n, key)' <=> KeyAbsent(n, key)
           /\ \A key, m : LeftBy(n, key, m)' <=> LeftBy(n, key, m)
           /\ \A key, m : KeyPresent(n, key, m)' <=> KeyPresent(n, key, m)
           /\ \A m \in 1 .. n - 1 : Readable(n, m)' <=> Readable(n, m)
           /\ \A t, res : Right(n, t, res)' <=> Right(n, t, res)
<1>1. Grows /\ Len(tasks) \in Nat
  BY DEF Answers, Grows
<1>2. \A m \in 1 .. n - 1 : /\ m \in Started /\ SameCall(tasks'[m], tasks[m])
                            /\ tasks'[m].out = tasks[m].out
  BY <1>1 DEF Answers, Grows, Started
<1>3. \A key : Mutations(n, key)' = Mutations(n, key)
  BY <1>2 DEF Mutations, SameCall
<1>4. \A key : \A m \in Mutations(n, key) : m \in 1 .. n - 1
  BY DEF Mutations
<1>5. \A key, m : LeftBy(n, key, m)' <=> LeftBy(n, key, m)
  BY <1>2, <1>3, <1>4 DEF LeftBy
<1>6. \A key : KeyAbsent(n, key)' <=> KeyAbsent(n, key)
  BY <1>2, <1>3, <1>4, <1>5 DEF KeyAbsent, SameCall
<1>7. \A key, m : LeftBy(n, key, m) => m \in 1 .. n - 1
  BY <1>4 DEF LeftBy
<1>8. \A key, m : KeyPresent(n, key, m)' <=> KeyPresent(n, key, m)
  BY <1>2, <1>5, <1>7 DEF KeyPresent, SameCall
<1>9. \A m \in 1 .. n - 1 : Readable(n, m)' <=> Readable(n, m)
  BY <1>1, <1>2 DEF Readable, Grows, SameCall
<1>10. \A m \in 1 .. n - 1 : Content(m)' = Content(m) /\ tasks'[m].op = tasks[m].op
  BY <1>1, <1>2, SameContent DEF SameCall
<1>11. ASSUME NEW t, NEW res PROVE Right(n, t, res)' <=> Right(n, t, res)
  BY <1>5, <1>6, <1>8, <1>9, <1>10 DEF Right
<1> QED BY <1>5, <1>6, <1>8, <1>9, <1>11

\* No directory of a name is a file, and no name is a directory.
LEMMA NotUnder ==
    ASSUME FsInv, OneCaller, NEW key \in Keys
    PROVE  ~ UnderFile(FileName(key))
<1> SUFFICES ASSUME NEW p \in Ancestors(FileName(key)), tree[p] \in Inodes PROVE FALSE
  BY DEF UnderFile
<1>1. p \in Paths
  BY DEF Paths
<1>2. tree[p] \in Started /\ FileName(tasks[tree[p]].key) = p
  BY <1>1 DEF FsInv, TreeInv
<1>3. tasks[tree[p]].key \in Keys
  BY <1>2, Here DEF Task
<1> QED BY <1>2, <1>3 DEF OneCaller

\* The names of two keys lead to two inodes.
LEMMA Elsewhere ==
    ASSUME FsInv, NEW key \in Keys, NEW i, NEW k, SameKey(i, k), k # key,
           tree[FileName(key)] \in Inodes
    PROVE  tree[FileName(key)] # i
<1>1. FileName(key) \in Paths
  BY NameInPaths
<1>2. /\ tree[FileName(key)] \in Started
      /\ FileName(tasks[tree[FileName(key)]].key) = FileName(key)
  BY <1>1 DEF FsInv, TreeInv
<1>3. tasks[tree[FileName(key)]].key \in Keys
  BY <1>2, Here DEF Task
<1>4. tasks[tree[FileName(key)]].key = key
  BY <1>2, <1>3, NamesApart
<1> QED BY <1>4 DEF SameKey

\* What the tree says to a call that has changed nothing.
LEMMA TreeTells ==
    ASSUME FsInv, SeqInv, NEW n \in Started, ~ IsOver(tasks[n]),
           NEW key \in Keys, ~ Changes(tasks[n], key)
    PROVE  /\ KeyAbsent(n, key) => tree[FileName(key)] = Missing
           /\ \A m : KeyPresent(n, key, m) => Holds(key, m)
<1>1. n = Len(tasks) /\ n \in Nat /\ FileOK(key)
  BY Alone DEF FileInv, Started
<1>2. \A l \in Started : Changes(tasks[l], key) => l \in Mutations(n, key)
  BY <1>1 DEF Started, Changes, Mutations
<1>3. ASSUME NEW m, LeftBy(n, key, m)
      PROVE  /\ m \in Started /\ IsLast(key, m) /\ tasks[m].op \in {"set", "delete"}
             /\ tasks[m].at = "done" /\ tasks[m].res \in {"ok", "notexist"}
  <2>1. m \in Mutations(n, key) /\ tasks[m].out \in {"ok", "notexist"}
    BY <1>3 DEF LeftBy
  <2>2. m \in Started /\ tasks[m].op \in {"set", "delete"} /\ tasks[m].key = key
    BY <1>1, <2>1 DEF Mutations, Started
  <2>3. tasks[m].at = "done" /\ tasks[m].res \in {"ok", "notexist"}
    BY <2>1, <2>2 DEF SeqInv, SerialInv
  <2>4. \A l \in Started : Changes(tasks[l], key) => l <= m
    BY <1>2, <1>3 DEF LeftBy
  <2> QED BY <2>2, <2>3, <2>4 DEF IsLast, Changes
<1>4. \A m : LeftBy(n, key, m) => IF tasks[m].op = "delete" THEN tree[FileName(key)] = Missing
                                  ELSE Holds(key, m)
  BY <1>1, <1>3 DEF FileOK, Left
<1>5. Mutations(n, key) = {} => tree[FileName(key)] = Missing
  BY <1>1, <1>2 DEF FileOK
<1> QED BY <1>4, <1>5 DEF KeyAbsent, KeyPresent

-----------------------------------------------------------------------------
\* A step of the goroutine n, to t.
Turn(n, t) == /\ n \in Started /\ ~ IsOver(tasks[n]) /\ t \in Task
              /\ tasks' = [tasks EXCEPT ![n] = t] /\ waits' = waits
              /\ SameCall(t, tasks[n]) /\ t.prefix = tasks[n].prefix /\ t.out = tasks[n].out

LEMMA TurnIs ==
    ASSUME FsInv, SeqInv, NEW n, NEW t, Turn(n, t)
    PROVE  /\ Answers /\ Started' = Started /\ Len(tasks') = Len(tasks) /\ tasks'[n] = t
           /\ \A m \in Started : m # n => tasks'[m] = tasks[m]
           /\ n = Len(tasks) /\ n \in Started
<1>1. /\ tasks \in Seq(Task) /\ Len(tasks) \in Nat /\ Len(tasks) <= MaxCalls
      /\ n \in 1 .. Len(tasks) /\ t \in Task /\ tasks' = [tasks EXCEPT ![n] = t]
  BY DEF FsInv, TypeOK, Turn, Started
<1>2. /\ tasks' \in Seq(Task) /\ Len(tasks') = Len(tasks) /\ tasks'[n] = t
      /\ \A m \in Started : m # n => tasks'[m] = tasks[m]
  BY <1>1 DEF Started
<1>3. n = Len(tasks) /\ n \in Started
  BY Alone DEF Turn
<1>4. \A m \in Started : SameCall(tasks'[m], tasks[m])
  BY <1>2 DEF Turn, SameCall
<1>5. /\ tasks \in Seq(Task) /\ Len(tasks) \in Nat /\ Len(tasks) <= MaxCalls
      /\ \A m \in 1 .. Len(tasks) - 1 : m \in Started /\ m # n
  BY <1>1, <1>3 DEF Started
<1>6. \A m \in 1 .. Len(tasks) - 1 : tasks'[m].out = tasks[m].out
  BY <1>2, <1>5
<1>7. Grows
  BY <1>2, <1>4, <1>5 DEF Grows
<1>8. Started' = Started
  BY <1>2 DEF Started
<1> QED BY <1>2, <1>3, <1>6, <1>7, <1>8 DEF Answers

LEMMA TurnKeeps ==
    ASSUME FsInv, SeqInv, NEW n, NEW t, Turn(n, t), FileInv', Progress(n, t)'
    PROVE  SeqInv'
<1>1. /\ Answers /\ Started' = Started /\ Len(tasks') = Len(tasks) /\ tasks'[n] = t
      /\ \A m \in Started : m # n => tasks'[m] = tasks[m]
      /\ n = Len(tasks) /\ n \in Started /\ waits' = waits
  BY TurnIs DEF Turn
<1>2. SerialInv'
  <2>1. \E c \in Callers : waits[c] = n
    BY DEF SeqInv, SerialInv, Turn
  <2>2. t.out = "none"
    BY Alone DEF Turn
  <2> QED BY <1>1, <2>1, <2>2 DEF SeqInv, SerialInv
<1>3. CallsInv'
  <2> SUFFICES ASSUME NEW m \in Started PROVE Progress(m, tasks[m])'
    BY <1>1 DEF CallsInv
  <2>1. CASE m = n
    BY <1>1, <2>1
  <2>2. CASE m # n
    <3>1. PICK u : u = tasks[m] /\ u = tasks'[m]
      BY <1>1, <2>2
    <3>2. IsOver(u) /\ Progress(m, u)
      BY <2>2, <3>1, Alone DEF Turn, SeqInv, CallsInv
    <3>3. u.at = "done" => Right(m, u, u.res)'
      BY <1>1, <3>2, Past DEF Progress
    <3>4. Progress(m, u)'
      BY <3>2, <3>3 DEF Progress, IsOver
    <3> QED BY <3>1, <3>4
  <2> QED BY <2>1, <2>2
<1> QED BY <1>2, <1>3 DEF SeqInv

\* A goroutine is over.
LEMMA EndTurn ==
    ASSUME FsInv, SeqInv, NEW n \in Started, ~ IsOver(tasks[n]), NEW res \in Results,
           End(n, res), waits' = waits
    PROVE  \E t : /\ Turn(n, t)
                  /\ t.at = "done" /\ t.res = res /\ t.op = tasks[n].op /\ t.key = tasks[n].key
                  /\ t.prefix = tasks[n].prefix /\ t.found = tasks[n].found
                  /\ t.buf = tasks[n].buf
<1>1. PICK t : t = [tasks[n] EXCEPT !.at = "done", !.res = res]
  OBVIOUS
<1>2. tasks \in Seq(Task) /\ n \in 1 .. Len(tasks) /\ tasks[n] \in Task
  BY Here DEF FsInv, TypeOK
<1>3. tasks' = [tasks EXCEPT ![n] = t]
  BY <1>1, <1>2 DEF End
<1>4. t \in Task
  BY <1>1, <1>2 DEF Task, Locations
<1>5. /\ t.op = tasks[n].op /\ t.key = tasks[n].key /\ t.val = tasks[n].val
      /\ t.conn = tasks[n].conn /\ t.prefix = tasks[n].prefix /\ t.found = tasks[n].found
      /\ t.buf = tasks[n].buf /\ t.out = tasks[n].out /\ t.at = "done" /\ t.res = res
  BY <1>1, <1>2 DEF Task
<1>6. Turn(n, t)
  BY <1>3, <1>4, <1>5 DEF Turn, SameCall
<1> QED BY <1>5, <1>6

LEMMA EndKeeps ==
    ASSUME FsInv, SeqInv, NEW n \in Started, ~ IsOver(tasks[n]), NEW res \in Results,
           End(n, res), waits' = waits, FileInv', Right(n, tasks[n], res)
    PROVE  SeqInv'
<1>1. PICK t : /\ Turn(n, t) /\ t.at = "done" /\ t.res = res /\ t.op = tasks[n].op
               /\ t.key = tasks[n].key /\ t.prefix = tasks[n].prefix
               /\ t.found = tasks[n].found /\ t.buf = tasks[n].buf
  BY EndTurn
<1>2. Right(n, t, res)
  BY <1>1 DEF Right
<1>3. Right(n, t, res)'
  BY <1>1, <1>2, TurnIs, Past
<1>4. Progress(n, t)'
  BY <1>1, <1>3 DEF Progress
<1> QED BY <1>1, <1>4, TurnKeeps

\* The file of a key that the step does not change.
LEMMA FileStays ==
    ASSUME FsInv, SeqInv, NEW n, NEW t, Turn(n, t), NEW key \in Keys,
           ~ Changes(tasks[n], key), ~ Changes(t, key),
           tree'[FileName(key)] = tree[FileName(key)],
           LET i == tree[FileName(key)]
           IN  i \in Inodes \ dirty => i \notin dirty' /\ data'[i] = data[i]
    PROVE  FileOK(key)'
<1>1. /\ Answers /\ Started' = Started /\ tasks'[n] = t /\ n \in Started
      /\ \A m \in Started : m # n => tasks'[m] = tasks[m]
  BY TurnIs
<1>2. FileOK(key)
  BY DEF SeqInv, FileInv
<1>3. \A l \in Started : Changes(tasks'[l], key) <=> Changes(tasks[l], key)
  BY <1>1
<1>4. (\A l \in Started' : ~ Changes(tasks'[l], key)) => tree'[FileName(key)] = Missing
  BY <1>1, <1>2, <1>3 DEF FileOK
<1>5. ASSUME NEW m \in Started, IsLast(key, m)' PROVE Left(key, m)'
  <2>1. IsLast(key, m)
    BY <1>1, <1>3, <1>5 DEF IsLast, Changes
  <2>2. m # n
    BY <2>1 DEF IsLast
  <2>3. Left(key, m) /\ tasks'[m] = tasks[m] /\ Content(m)' = Content(m)
    BY <1>1, <1>2, <2>1, <2>2, SameContent DEF FileOK, Answers
  <2>4. Holds(key, m) => Holds(key, m)'
    BY <2>3 DEF Holds, Inodes
  <2> QED BY <2>3, <2>4 DEF Left, Missing
<1>6. tree'[FileName(key)] # Directory
  BY <1>2 DEF FileOK
<1> QED BY <1>1, <1>4, <1>5, <1>6 DEF FileOK, Changes, Missing, Directory

\* The file of the key that it changes.
LEMMA FileChanged ==
    ASSUME FsInv, SeqInv, NEW n, NEW t, Turn(n, t), NEW key \in Keys, Changes(t, key),
           tree'[FileName(key)] # Directory, Left(key, n)'
    PROVE  FileOK(key)'
<1>1. Started' = Started /\ tasks'[n] = t /\ n \in Started /\ n = Len(tasks) /\ n \in Nat
  BY TurnIs DEF Started
<1>2. Changes(tasks[n], key)'
  BY <1>1 DEF Changes
<1>3. ASSUME NEW m \in Started', IsLast(key, m)' PROVE m = n
  BY <1>1, <1>2, <1>3 DEF IsLast, Started
<1>4. \A m \in Started' : IsLast(key, m)' => Left(key, m)'
  BY <1>3
<1> QED BY <1>1, <1>2, <1>4 DEF FileOK, Directory

\* A goroutine that changes no file.
LEMMA FilesAlone ==
    ASSUME FsInv, SeqInv, NEW n, NEW t, Turn(n, t), tasks[n].op \notin {"set", "delete"},
           UNCHANGED files
    PROVE  FileInv'
<1>1. t.op = tasks[n].op /\ tree' = tree /\ data' = data /\ dirty' = dirty
  BY DEF Turn, SameCall, files
<1>2. ASSUME NEW key \in Keys PROVE FileOK(key)'
  <2>1. ~ Changes(tasks[n], key) /\ ~ Changes(t, key)
    BY <1>1 DEF Changes
  <2> QED BY <1>1, <2>1, FileStays
<1> QED BY <1>2 DEF FileInv

\* A goroutine that ends without success leaves its file in any state.
LEMMA FilesOnError ==
    ASSUME FsInv, SeqInv, NEW n \in Started, ~ IsOver(tasks[n]), End(n, "error"),
           waits' = waits, UNCHANGED files
    PROVE  FileInv'
<1>1. PICK t : /\ Turn(n, t) /\ t.at = "done" /\ t.res = "error"
               /\ t.op = tasks[n].op /\ t.key = tasks[n].key
  BY EndTurn DEF Results
<1>2. tree' = tree /\ data' = data /\ dirty' = dirty /\ tasks'[n] = t
  BY <1>1, TurnIs DEF files
<1>3. ASSUME NEW key \in Keys PROVE FileOK(key)'
  <2>1. CASE Changes(t, key)
    <3>1. tree'[FileName(key)] # Directory
      BY <1>2 DEF SeqInv, FileInv, FileOK
    <3>2. Left(key, n)'
      BY <1>1, <1>2 DEF Left
    <3> QED BY <1>1, <2>1, <3>1, <3>2, FileChanged
  <2>2. CASE ~ Changes(t, key)
    <3>1. ~ Changes(tasks[n], key)
      BY <1>1, <2>2 DEF Changes
    <3> QED BY <1>1, <1>2, <2>2, <3>1, FileStays
  <2> QED BY <2>1, <2>2
<1> QED BY <1>3 DEF FileInv

-----------------------------------------------------------------------------
(***************************************************************************)
(* The steps of Set.                                                       *)
(***************************************************************************)
LEMMA GotoTurn ==
    ASSUME FsInv, SeqInv, NEW n \in Started, ~ IsOver(tasks[n]), NEW where \in Locations,
           Goto(n, where), waits' = waits
    PROVE  \E t : /\ Turn(n, t)
                  /\ t.at = where /\ t.op = tasks[n].op /\ t.key = tasks[n].key
                  /\ t.prefix = tasks[n].prefix /\ t.found = tasks[n].found
                  /\ t.buf = tasks[n].buf
<1>1. PICK t : t = [tasks[n] EXCEPT !.at = where]
  OBVIOUS
<1>2. tasks \in Seq(Task) /\ n \in 1 .. Len(tasks) /\ tasks[n] \in Task
  BY Here DEF FsInv, TypeOK
<1>3. tasks' = [tasks EXCEPT ![n] = t]
  BY <1>1, <1>2 DEF Goto
<1>4. t \in Task
  BY <1>1, <1>2 DEF Task
<1>5. /\ t.op = tasks[n].op /\ t.key = tasks[n].key /\ t.val = tasks[n].val
      /\ t.conn = tasks[n].conn /\ t.prefix = tasks[n].prefix /\ t.found = tasks[n].found
      /\ t.buf = tasks[n].buf /\ t.out = tasks[n].out /\ t.at = where
  BY <1>1, <1>2 DEF Task
<1>6. Turn(n, t)
  BY <1>3, <1>4, <1>5 DEF Turn, SameCall
<1> QED BY <1>5, <1>6

\* A Set changes the name of its key, and one inode of its key, only.
LEMMA FilesOfSet ==
    ASSUME FsInv, SeqInv, NEW n, NEW t, Turn(n, t), tasks[n].op = "set", t.at # "remove",
           Left(tasks[n].key, n)',
           \A key \in Keys : /\ tree'[FileName(key)] # Directory
                             /\ key # tasks[n].key => tree'[FileName(key)] = tree[FileName(key)],
           NEW file, SameKey(file, tasks[n].key),
           \A i \in Inodes : i # file => data'[i] = data[i] /\ (i \in dirty' => i \in dirty)
    PROVE  FileInv'
<1>1. t.op = "set" /\ t.key = tasks[n].key
  BY DEF Turn, SameCall
<1>2. ASSUME NEW key \in Keys PROVE FileOK(key)'
  <2>1. CASE key = tasks[n].key
    <3>1. Changes(t, key) /\ Left(key, n)'
      BY <1>1, <2>1 DEF Changes, Left, Holds, Turn, Missing, Inodes
    <3> QED BY <3>1, FileChanged
  <2>2. CASE key # tasks[n].key
    <3>1. ~ Changes(tasks[n], key) /\ ~ Changes(t, key)
      BY <1>1, <2>2 DEF Changes
    <3>2. tree[FileName(key)] \in Inodes => tree[FileName(key)] # file
      BY <2>2, Elsewhere
    <3> QED BY <2>2, <3>1, <3>2, FileStays
  <2> QED BY <2>1, <2>2
<1> QED BY <1>2 DEF FileInv

\* A goroutine that gives up: a Set, which promises nothing then.
LEMMA SetFails ==
    ASSUME FsInv, SeqInv, NEW n \in Started, ~ IsOver(tasks[n]), tasks[n].op = "set",
           End(n, "error"), UNCHANGED <<waits, files>>
    PROVE  SeqInv'
<1>1. Right(n, tasks[n], "error")
  BY DEF Right
<1> QED BY <1>1, FilesOnError, EndKeeps DEF Results

LEMMA SetMkdirSerial ==
    ASSUME FsInv, SeqInv, OneCaller, NEW n \in Started, SetMkdir(n)
    PROVE  SeqInv'
<1>1. /\ waits' = waits /\ data' = data /\ dirty' = dirty /\ tasks[n].at = "mkdir"
      /\ tasks[n].op = "set" /\ ~ IsOver(tasks[n]) /\ tasks[n].key \in Keys
  BY Here DEF SetMkdir, At, Control, IsOver, Task
<1>2. ~ UnderFile(Name(n))
  BY <1>1, NotUnder DEF Name
<1>3. /\ Goto(n, "create")
      /\ tree' = [p \in Paths |-> IF p \in Ancestors(Name(n)) THEN Directory ELSE tree[p]]
  BY <1>2 DEF SetMkdir
<1>4. PICK t : Turn(n, t) /\ t.at = "create" /\ t.key = tasks[n].key
  BY <1>1, <1>3, GotoTurn DEF Locations
<1>5. tasks'[n] = t
  BY <1>4, TurnIs
<1>6. \A key \in Keys : tree'[FileName(key)] = tree[FileName(key)]
  BY <1>1, <1>3, NameInPaths DEF OneCaller, Name
<1>7. \A key \in Keys : tree'[FileName(key)] # Directory
  BY <1>6 DEF SeqInv, FileInv, FileOK
<1>8. Left(tasks[n].key, n)'
  BY <1>4, <1>5 DEF Left
<1>9. FileInv'
  <2>1. SameKey(n, tasks[n].key)
    BY DEF SameKey
  <2> QED BY <1>1, <1>4, <1>6, <1>7, <1>8, <2>1, FilesOfSet
<1>10. Progress(n, t)'
  BY <1>4 DEF Progress
<1> QED BY <1>4, <1>9, <1>10, TurnKeeps

LEMMA SetCreateSerial ==
    ASSUME FsInv, SeqInv, OneCaller, NEW n \in Started, SetCreate(n)
    PROVE  SeqInv'
<1>1. /\ waits' = waits /\ tasks[n].at = "create" /\ tasks[n].op = "set"
      /\ tasks[n].val \in Values /\ tasks[n].pos = 0
      /\ ~ IsOver(tasks[n]) /\ tasks[n].key \in Keys /\ tasks[n] \in Task
  BY Here DEF SetCreate, At, Control, IsOver, Task
<1>2. CASE CreateFails(n)
  <2>1. End(n, "error") /\ UNCHANGED <<waits, files>>
    BY <1>1, <1>2 DEF SetCreate
  <2> QED BY <1>1, <2>1, SetFails
<1>3. CASE ~ CreateFails(n)
  <2>1. PICK file : file = IF tree[Name(n)] = Missing THEN n ELSE tree[Name(n)]
    OBVIOUS
  <2>2. /\ tasks' = [tasks EXCEPT ![n].at = "write", ![n].file = file]
        /\ tree' = [tree EXCEPT ![Name(n)] = file]
        /\ data' = [data EXCEPT ![file] = <<>>]
        /\ dirty' = dirty \cup {file}
    BY <1>3, <2>1 DEF SetCreate
  <2>3. file \in Inodes /\ file # Directory /\ tree[Name(n)] # Directory
    BY <1>3, <2>1, Here, Numbers DEF CreateFails
  <2>4. SameKey(file, tasks[n].key)
    <3>1. CASE tree[Name(n)] = Missing
      BY <2>1, <3>1 DEF SameKey
    <3>2. CASE tree[Name(n)] # Missing
      <4>1. file \in Started /\ FileName(tasks[file].key) = Name(n)
        BY <2>1, <2>3, <3>2, Here DEF FsInv, TreeInv
      <4>2. tasks[file].key \in Keys
        BY <4>1, Here DEF Task
      <4> QED BY <1>1, <4>1, <4>2, NamesApart DEF Name, SameKey
    <3> QED BY <3>1, <3>2
  <2>5. PICK t : t = [tasks[n] EXCEPT !.at = "write", !.file = file]
    OBVIOUS
  <2>6. tasks' = [tasks EXCEPT ![n] = t]
    BY <2>2, <2>5, Here DEF FsInv, TypeOK
  <2>7. t \in Task
    BY <1>1, <2>3, <2>5 DEF Task, Locations
  <2>8. /\ SameCall(t, tasks[n]) /\ t.prefix = tasks[n].prefix /\ t.out = tasks[n].out
        /\ t.at = "write" /\ t.file = file /\ t.pos = 0 /\ t.key = tasks[n].key
    BY <1>1, <2>5 DEF Task, SameCall
  <2>9. Turn(n, t)
    BY <1>1, <2>6, <2>7, <2>8 DEF Turn
  <2>10. tasks'[n] = t /\ Answers
    BY <2>9, TurnIs
  <2>11. /\ tree \in [Paths -> {Missing, Directory} \cup Inodes]
         /\ data \in [Inodes -> Seq(Block)] /\ Name(n) \in Paths
    BY Here DEF FsInv, TypeOK
  <2>12. /\ tree'[Name(n)] = file
         /\ \A p \in Paths : p # Name(n) => tree'[p] = tree[p]
         /\ data'[file] = <<>>
         /\ \A i \in Inodes : i # file => data'[i] = data[i] /\ (i \in dirty' => i \in dirty)
    BY <2>2, <2>3, <2>11
  <2>13. \A key \in Keys : /\ tree'[FileName(key)] # Directory
                           /\ key # tasks[n].key =>
                                tree'[FileName(key)] = tree[FileName(key)]
    <3> SUFFICES ASSUME NEW key \in Keys
                 PROVE  /\ tree'[FileName(key)] # Directory
                        /\ key # tasks[n].key =>
                             tree'[FileName(key)] = tree[FileName(key)]
      OBVIOUS
    <3>1. FileName(key) \in Paths /\ tree[FileName(key)] # Directory
      BY NameInPaths DEF SeqInv, FileInv, FileOK
    <3>2. key # tasks[n].key => FileName(key) # Name(n)
      BY <1>1, NamesApart DEF Name
    <3> QED BY <2>3, <2>12, <3>1, <3>2 DEF Name
  <2>14. Left(tasks[n].key, n)'
    BY <2>8, <2>10 DEF Left
  <2>15. FileInv'
    BY <1>1, <2>4, <2>8, <2>9, <2>12, <2>13, <2>14, FilesOfSet
  <2>16. IsFirst(<<>>, Content(n), 0)'
    <3>1. Len(Content(n)) \in Nat /\ Content(n)' = Content(n)
      BY <1>1, <2>10, ContentIs, SameContent DEF FsInv, TypeOK, Answers
    <3> QED BY <3>1 DEF IsFirst
  <2>17. Progress(n, t)'
    <3>1. tree'[FileName(t.key)] = file
      BY <2>8, <2>12 DEF Name
    <3> QED BY <2>8, <2>12, <2>16, <3>1 DEF Progress
  <2> QED BY <2>9, <2>15, <2>17, TurnKeeps
<1> QED BY <1>2, <1>3

LEMMA WriteNext ==
    ASSUME NEW s \in Seq(Block), NEW c \in Seq(Block), NEW p \in Nat, p < Len(c),
           IsFirst(s, c, p)
    PROVE  IsFirst(Written(s, p + 1, c[p + 1]), c, p + 1)
<1>1. Len(s) = p /\ Len(c) \in Nat /\ \A j \in 1 .. p : s[j] = c[j]
  BY DEF IsFirst
<1>2. Written(s, p + 1, c[p + 1]) =
        [i \in 1 .. (p + 1) |-> IF i = p + 1 THEN c[p + 1] ELSE IF i <= p THEN s[i] ELSE Hole]
  BY <1>1 DEF Written
<1> DEFINE w == Written(s, p + 1, c[p + 1])
<1>3. Len(w) = p + 1 /\ \A j \in 1 .. (p + 1) : w[j] = c[j]
  BY <1>1, <1>2
<1> HIDE DEF w
<1>4. p + 1 \in 0 .. Len(c)
  BY <1>1
<1> QED BY <1>3, <1>4 DEF IsFirst, w

LEMMA FirstIsAll ==
    ASSUME NEW s \in Seq(Block), NEW c \in Seq(Block), IsFirst(s, c, Len(c))
    PROVE  s = c
BY DEF IsFirst

LEMMA SetWriteSerial ==
    ASSUME FsInv, SeqInv, OneCaller, NEW n \in Started, SetWrite(n)
    PROVE  SeqInv'
<1>1. /\ waits' = waits /\ tree' = tree /\ tasks[n].at = "write" /\ tasks[n].op = "set"
      /\ tasks[n].val \in Values /\ tasks[n].file # Missing
      /\ ~ IsOver(tasks[n]) /\ tasks[n].key \in Keys /\ tasks[n] \in Task
      /\ tasks[n].pos \in Nat /\ tasks[n].pos < Size[tasks[n].val]
  BY Here DEF SetWrite, At, Control, IsOver, Task
<1>2. PICK file, pos, where : /\ file = tasks[n].file /\ pos = tasks[n].pos
                              /\ where = IF pos + 1 = Len(Content(n)) THEN "sync" ELSE "write"
  OBVIOUS
<1>3. /\ tasks' = [tasks EXCEPT ![n].pos = pos + 1, ![n].at = where]
      /\ data' = [data EXCEPT ![file] = Written(@, pos + 1, Content(n)[pos + 1])]
      /\ dirty' = dirty \cup {file}
  BY <1>2 DEF SetWrite
<1>4. file \in Inodes /\ SameKey(file, tasks[n].key)
  BY <1>1, <1>2 DEF Task, FsInv, OpenInv
<1>5. PICK t : t = [tasks[n] EXCEPT !.pos = pos + 1, !.at = where]
  OBVIOUS
<1>6. tasks' = [tasks EXCEPT ![n] = t]
  BY <1>3, <1>5, Here DEF FsInv, TypeOK
<1>7. t \in Task
  <2>1. pos + 1 \in Nat /\ where \in Locations
    BY <1>1, <1>2 DEF Locations
  <2> QED BY <1>1, <1>5, <2>1 DEF Task
<1>8. /\ SameCall(t, tasks[n]) /\ t.prefix = tasks[n].prefix /\ t.out = tasks[n].out
      /\ t.at = where /\ t.file = file /\ t.pos = pos + 1 /\ t.key = tasks[n].key
  BY <1>1, <1>2, <1>5 DEF Task, SameCall
<1>9. Turn(n, t)
  BY <1>1, <1>6, <1>7, <1>8 DEF Turn
<1>10. tasks'[n] = t /\ Answers /\ Content(n)' = Content(n)
  BY <1>9, TurnIs, SameContent DEF Answers
<1>11. data \in [Inodes -> Seq(Block)] /\ data[file] \in Seq(Block)
  BY <1>4 DEF FsInv, TypeOK
<1>12. /\ data'[file] = Written(data[file], pos + 1, Content(n)[pos + 1])
       /\ \A i \in Inodes : i # file => data'[i] = data[i] /\ (i \in dirty' => i \in dirty)
  BY <1>3, <1>4, <1>11
<1>13. where \in {"sync", "write"}
  BY <1>2
<1>14. FileInv'
  <2>1. \A key \in Keys : tree'[FileName(key)] # Directory
    BY <1>1 DEF SeqInv, FileInv, FileOK
  <2>2. Left(tasks[n].key, n)'
    BY <1>8, <1>10, <1>13 DEF Left
  <2> QED BY <1>1, <1>4, <1>8, <1>9, <1>12, <1>13, <2>1, <2>2, FilesOfSet
<1>15. Progress(n, t)'
  <2>1. tree'[FileName(t.key)] = file /\ IsFirst(data[file], Content(n), pos)
    BY <1>1, <1>2, <1>8, Alone DEF Progress
  <2>2. Content(n) \in Seq(Block) /\ Len(Content(n)) = Size[tasks[n].val]
    BY <1>1, ContentIs DEF FsInv, TypeOK
  <2>3. IsFirst(data'[file], Content(n), pos + 1)
    BY <1>1, <1>2, <1>11, <1>12, <2>1, <2>2, WriteNext
  <2>4. where = "sync" => data'[file] = Content(n)
    <3>1. data'[file] \in Seq(Block)
      BY <1>4, SetWriteKeeps DEF FsInv, TypeOK, Inodes
    <3> QED BY <1>2, <2>2, <2>3, <3>1, FirstIsAll
  <2> QED BY <1>8, <1>10, <1>13, <2>1, <2>3, <2>4 DEF Progress
<1> QED BY <1>9, <1>14, <1>15, TurnKeeps

LEMMA SetSyncSerial ==
    ASSUME FsInv, SeqInv, OneCaller, NEW n \in Started, SetSync(n)
    PROVE  SeqInv'
<1>1. /\ waits' = waits /\ tree' = tree /\ data' = data /\ End(n, "ok")
      /\ dirty' = dirty \ {tasks[n].file} /\ tasks[n].at = "sync" /\ tasks[n].op = "set"
      /\ ~ IsOver(tasks[n]) /\ tasks[n].key \in Keys /\ tasks[n] \in Task
      /\ tasks[n].file # Missing
  BY Here DEF SetSync, At, Control, IsOver, Task
<1>2. PICK t : /\ Turn(n, t) /\ t.at = "done" /\ t.res = "ok" /\ t.op = tasks[n].op
               /\ t.key = tasks[n].key
  BY <1>1, EndTurn DEF Results
<1>3. tasks'[n] = t /\ Content(n)' = Content(n)
  BY <1>2, TurnIs, SameContent DEF Answers
<1>4. /\ tasks[n].file = tree[FileName(tasks[n].key)]
      /\ data[tasks[n].file] = Content(n)
  BY <1>1, Alone DEF Progress
<1>5. tasks[n].file \in Inodes
  BY <1>1 DEF Task
<1>6. Left(tasks[n].key, n)'
  BY <1>1, <1>2, <1>3, <1>4, <1>5 DEF Left, Holds, Inodes
<1>7. FileInv'
  <2>1. \A key \in Keys : tree'[FileName(key)] # Directory
    BY <1>1 DEF SeqInv, FileInv, FileOK
  <2>2. SameKey(n, tasks[n].key)
    BY DEF SameKey
  <2> QED BY <1>1, <1>2, <1>6, <2>1, <2>2, FilesOfSet
<1>8. Right(n, tasks[n], "ok")
  BY <1>1 DEF Right
<1> QED BY <1>1, <1>7, <1>8, EndKeeps DEF Results

-----------------------------------------------------------------------------
(***************************************************************************)
(* The steps of Get.                                                       *)
(***************************************************************************)

\* A Get or a Keys is over.
LEMMA ReadEnds ==
    ASSUME FsInv, SeqInv, NEW n \in Started, ~ IsOver(tasks[n]), NEW res \in Results,
           tasks[n].op \notin {"set", "delete"}, End(n, res), UNCHANGED <<waits, files>>,
           Right(n, tasks[n], res)
    PROVE  SeqInv'
<1>1. PICK t : Turn(n, t)
  BY EndTurn
<1>2. FileInv'
  BY <1>1, FilesAlone
<1> QED BY <1>2, EndKeeps

\* Of a Get that is under way.
LEMMA InGet ==
    ASSUME FsInv, SeqInv, OneCaller, NEW n \in Started,
           tasks[n].at \in {"open", "read", "chtimes"}
    PROVE  /\ tasks[n].op = "get" /\ ~ IsOver(tasks[n]) /\ tasks[n] \in Task
           /\ tasks[n].key \in Keys /\ ~ UnderFile(Name(n))
           /\ tree[Name(n)] \in {Missing} \cup Inodes
           /\ KeyAbsent(n, tasks[n].key) => tree[Name(n)] = Missing
           /\ \A m : KeyPresent(n, tasks[n].key, m) => Holds(tasks[n].key, m)
           /\ Progress(n, tasks[n])
<1>1. /\ tasks[n].op = "get" /\ ~ IsOver(tasks[n]) /\ tasks[n] \in Task
      /\ tasks[n].key \in Keys
  BY Here DEF Control, IsOver, Task
<1>2. ~ UnderFile(Name(n))
  BY <1>1, NotUnder DEF Name
<1>3. tree[Name(n)] \in {Missing} \cup Inodes
  BY <1>1, Here DEF SeqInv, FileInv, FileOK, Name
<1>4. ~ Changes(tasks[n], tasks[n].key)
  BY <1>1 DEF Changes
<1> QED BY <1>1, <1>2, <1>3, <1>4, TreeTells, Alone DEF Name

LEMMA GetOpenSerial ==
    ASSUME FsInv, SeqInv, OneCaller, NEW n \in Started, GetOpen(n)
    PROVE  SeqInv'
<1>1. UNCHANGED <<waits, files>> /\ tasks[n].at = "open"
  BY DEF GetOpen, At
<1>2. /\ tasks[n].op = "get" /\ ~ IsOver(tasks[n]) /\ tasks[n] \in Task
      /\ tasks[n].key \in Keys /\ ~ UnderFile(Name(n))
      /\ tree[Name(n)] \in {Missing} \cup Inodes
      /\ \A m : KeyPresent(n, tasks[n].key, m) => Holds(tasks[n].key, m)
      /\ KeyAbsent(n, tasks[n].key) => tree[Name(n)] = Missing
      /\ tasks[n].pos = 0 /\ tasks[n].buf = <<>>
  BY <1>1, InGet DEF Progress
<1>3. CASE tree[Name(n)] = Missing
  <2>1. End(n, "notexist")
    BY <1>2, <1>3, Numbers DEF GetOpen
  <2>2. \A m : ~ KeyPresent(n, tasks[n].key, m)
    BY <1>2, <1>3, Numbers DEF Holds, Name
  <2>3. Right(n, tasks[n], "notexist")
    BY <1>2, <2>2 DEF Right
  <2> QED BY <1>1, <1>2, <2>1, <2>3, ReadEnds DEF Results
<1>4. CASE tree[Name(n)] # Missing
  <2>1. PICK file : file = tree[Name(n)]
    OBVIOUS
  <2>2. file \in Inodes /\ tasks' = [tasks EXCEPT ![n].at = "read", ![n].file = file]
    BY <1>2, <1>4, <2>1, Numbers DEF GetOpen
  <2>3. PICK t : t = [tasks[n] EXCEPT !.at = "read", !.file = file]
    OBVIOUS
  <2>4. tasks' = [tasks EXCEPT ![n] = t]
    BY <2>2, <2>3, Here DEF FsInv, TypeOK
  <2>5. t \in Task
    BY <1>2, <2>2, <2>3 DEF Task, Locations
  <2>6. /\ SameCall(t, tasks[n]) /\ t.prefix = tasks[n].prefix /\ t.out = tasks[n].out
        /\ t.at = "read" /\ t.file = file /\ t.pos = 0 /\ t.buf = <<>> /\ t.key = tasks[n].key
    BY <1>2, <2>3 DEF Task, SameCall
  <2>7. Turn(n, t)
    BY <1>1, <1>2, <2>4, <2>5, <2>6 DEF Turn
  <2>8. FileInv'
    BY <1>1, <1>2, <2>7, FilesAlone
  <2>9. tree'[FileName(t.key)] = file /\ data'[file] \in Seq(Block)
    BY <1>1, <2>1, <2>2, <2>6 DEF Name, files, FsInv, TypeOK
  <2>10. IsFirst(<<>>, data'[file], 0)
    BY <2>9 DEF IsFirst
  <2>11. Progress(n, t)'
    BY <2>6, <2>9, <2>10 DEF Progress
  <2> QED BY <2>7, <2>8, <2>11, TurnKeeps
<1> QED BY <1>3, <1>4

\* What a Get with an encryptor decrypts was sealed with its key, by that Set.
LEMMA DecryptsWhat ==
    ASSUME FsInv, NEW n \in Started, NEW m \in Started, tasks[m].op = "set"
    PROVE  Decrypts(tasks[n].conn.enc, Content(m)) <=> Readable(n, m)
<1>1. Readable(n, m) => Decrypts(tasks[n].conn.enc, Content(m))
  BY DEF Readable, Decrypts, Started
<1>2. ASSUME ~ Readable(n, m), Decrypts(tasks[n].conn.enc, Content(m)) PROVE FALSE
  <2>1. tasks[n].conn.enc # 0 /\ tasks[n].conn.enc # tasks[m].conn.enc
    BY <1>2 DEF Readable
  <2>2. PICK l \in Started : /\ tasks[l].op = "set" /\ tasks[l].conn.enc = tasks[n].conn.enc
                             /\ Content(m) = Content(l)
    BY <1>2, <2>1 DEF Decrypts, Started
  <2>3. ASSUME NEW k \in Started, tasks[k].op = "set"
        PROVE  Content(k)[1].nonce = IF tasks[k].conn.enc = 0 THEN 0 ELSE k
    <3>1. tasks[k].val \in Values /\ tasks \in Seq(Task)
      BY <2>3, Here DEF Control, FsInv, TypeOK
    <3>2. /\ Size[tasks[k].val] \in Nat \ {0}
          /\ \A j \in 1 .. Size[tasks[k].val] :
               Content(k)[j] = [val |-> tasks[k].val, at |-> j,
                                nonce |-> IF tasks[k].conn.enc = 0 THEN 0 ELSE k]
      BY <3>1, ContentIs
    <3>3. 1 \in 1 .. Size[tasks[k].val]
      BY <3>2
    <3>4. Content(k)[1] = [val |-> tasks[k].val, at |-> 1,
                           nonce |-> IF tasks[k].conn.enc = 0 THEN 0 ELSE k]
      BY <3>2, <3>3
    <3> QED BY <3>4
  <2>4. Content(l)[1].nonce = l
    BY <2>1, <2>2, <2>3
  <2>5. Content(m)[1].nonce = IF tasks[m].conn.enc = 0 THEN 0 ELSE m
    BY <2>3
  <2>6. l # 0
    BY DEF Started
  <2>7. l = m
    BY <2>2, <2>4, <2>5, <2>6
  <2> QED BY <2>1, <2>2, <2>7
<1> QED BY <1>1, <1>2

LEMMA ReadNext ==
    ASSUME NEW s \in Seq(Block), NEW c \in Seq(Block), NEW p \in Nat, p < Len(c),
           IsFirst(s, c, p)
    PROVE  IsFirst(Append(s, c[p + 1]), c, p + 1)
<1>1. Len(s) = p /\ Len(c) \in Nat /\ \A j \in 1 .. p : s[j] = c[j]
  BY DEF IsFirst
<1>2. c[p + 1] \in Block
  BY <1>1
<1> DEFINE w == Append(s, c[p + 1])
<1>3. /\ Len(w) = p + 1 /\ w[p + 1] = c[p + 1]
      /\ \A j \in 1 .. p : w[j] = s[j]
  BY <1>1, <1>2
<1> HIDE DEF w
<1>4. \A j \in 1 .. (p + 1) : j \in 1 .. p \/ j = p + 1
  OBVIOUS
<1>5. \A j \in 1 .. (p + 1) : w[j] = c[j]
  BY <1>1, <1>3, <1>4
<1>6. p + 1 \in 0 .. Len(c)
  BY <1>1
<1> QED BY <1>3, <1>5, <1>6 DEF IsFirst, w

LEMMA GetReadSerial ==
    ASSUME FsInv, SeqInv, OneCaller, NEW n \in Started, GetRead(n)
    PROVE  SeqInv'
<1>1. UNCHANGED <<waits, files>> /\ tasks[n].at = "read"
  BY DEF GetRead, At
<1>2. PICK file, pos, buf, key : /\ file = tasks[n].file /\ pos = tasks[n].pos
                                 /\ buf = tasks[n].buf /\ key = tasks[n].key
  OBVIOUS
<1>3. /\ tasks[n].op = "get" /\ ~ IsOver(tasks[n]) /\ tasks[n] \in Task /\ key \in Keys
      /\ KeyAbsent(n, key) => tree[FileName(key)] = Missing
      /\ \A m : KeyPresent(n, key, m) => Holds(key, m)
      /\ tree[FileName(key)] = file /\ IsFirst(buf, data[file], pos)
  BY <1>1, <1>2, InGet DEF Progress, Name
<1>4. file \in Inodes /\ file # Missing
  BY <1>1, <1>2, <1>3, Here DEF Control, Task
<1>5. data[file] \in Seq(Block) /\ buf \in Seq(Block) /\ pos \in Nat
  BY <1>2, <1>3, <1>4 DEF FsInv, TypeOK, Task
<1>6. CASE pos < Len(data[file])
  <2>1. PICK block : block = data[file][pos + 1]
    OBVIOUS
  <2>2. tasks' = [tasks EXCEPT ![n].pos = @ + 1, ![n].buf = Append(@, block)]
    BY <1>2, <1>6, <2>1 DEF GetRead
  <2>3. PICK t : t = [tasks[n] EXCEPT !.pos = pos + 1, !.buf = Append(buf, block)]
    OBVIOUS
  <2>4. tasks' = [tasks EXCEPT ![n] = t]
    BY <1>2, <2>2, <2>3, Here DEF FsInv, TypeOK
  <2>5. t \in Task
    <3>1. block \in Block
      BY <1>5, <1>6, <2>1
    <3>2. Append(buf, block) \in Seq(Block) /\ pos + 1 \in Nat
      BY <1>5, <3>1
    <3> QED BY <1>3, <2>3, <3>2 DEF Task
  <2>6. /\ SameCall(t, tasks[n]) /\ t.prefix = tasks[n].prefix /\ t.out = tasks[n].out
        /\ t.at = "read" /\ t.file = file /\ t.pos = pos + 1 /\ t.buf = Append(buf, block)
        /\ t.key = key
    BY <1>1, <1>2, <1>3, <2>3 DEF Task, SameCall
  <2>7. Turn(n, t)
    BY <1>1, <1>3, <2>4, <2>5, <2>6 DEF Turn
  <2>8. FileInv'
    BY <1>1, <1>3, <2>7, FilesAlone
  <2>9. IsFirst(t.buf, data[file], t.pos)
    BY <1>3, <1>5, <1>6, <2>1, <2>6, ReadNext
  <2>10. Progress(n, t)'
    BY <1>1, <1>3, <2>6, <2>9 DEF Progress, files
  <2> QED BY <2>7, <2>8, <2>10, TurnKeeps
<1>7. CASE ~ (pos < Len(data[file]))
  <2>1. buf = data[file]
    <3>1. pos = Len(data[file])
      BY <1>3, <1>5, <1>7 DEF IsFirst
    <3> QED BY <1>3, <1>5, <3>1, FirstIsAll
  <2>2. ~ KeyAbsent(n, key)
    BY <1>3, <1>4
  <2>3. ASSUME NEW m, KeyPresent(n, key, m)
        PROVE  /\ buf = Content(m)
               /\ Decrypts(tasks[n].conn.enc, buf) <=> Readable(n, m)
    <3>1. buf = Content(m)
      BY <1>3, <2>1, <2>3 DEF Holds
    <3>2. m \in Started /\ tasks[m].op = "set"
      BY <2>3 DEF KeyPresent, LeftBy, Mutations, Started
    <3> QED BY <3>1, <3>2, DecryptsWhat
  <2>4. CASE ~ Decrypts(tasks[n].conn.enc, buf)
    <3>1. End(n, "error")
      BY <1>2, <1>7, <2>4 DEF GetRead
    <3>2. Right(n, tasks[n], "error")
      BY <1>2, <1>3, <2>2, <2>3, <2>4 DEF Right
    <3> QED BY <1>1, <1>3, <3>1, <3>2, ReadEnds DEF Results
  <2>5. CASE Decrypts(tasks[n].conn.enc, buf)
    <3>1. Right(n, tasks[n], "ok")
      BY <1>2, <1>3, <2>2, <2>3, <2>5 DEF Right
    <3>2. CASE End(n, "ok")
      BY <1>1, <1>3, <3>1, <3>2, ReadEnds DEF Results
    <3>3. CASE Goto(n, "chtimes")
      <4>1. PICK t : /\ Turn(n, t) /\ t.at = "chtimes" /\ t.op = tasks[n].op
                     /\ t.key = tasks[n].key /\ t.prefix = tasks[n].prefix
                     /\ t.found = tasks[n].found /\ t.buf = tasks[n].buf
        BY <1>1, <1>3, <3>3, GotoTurn DEF Locations
      <4>2. FileInv'
        BY <1>1, <1>3, <4>1, FilesAlone
      <4>3. Right(n, t, "ok")
        BY <3>1, <4>1 DEF Right
      <4>4. Right(n, t, "ok")'
        BY <4>1, <4>3, TurnIs, Past
      <4>5. tree'[FileName(t.key)] \in Inodes
        BY <1>1, <1>2, <1>3, <1>4, <4>1 DEF files
      <4>6. Progress(n, t)'
        BY <4>1, <4>4, <4>5 DEF Progress, Inodes
      <4> QED BY <4>1, <4>2, <4>6, TurnKeeps
    <3> QED BY <1>2, <1>7, <2>5, <3>2, <3>3 DEF GetRead
  <2> QED BY <2>4, <2>5
<1> QED BY <1>6, <1>7

LEMMA GetChtimesSerial ==
    ASSUME FsInv, SeqInv, OneCaller, NEW n \in Started, GetChtimes(n)
    PROVE  SeqInv'
<1>1. UNCHANGED <<waits, files>> /\ tasks[n].at = "chtimes"
  BY DEF GetChtimes, At
<1>2. /\ tasks[n].op = "get" /\ ~ IsOver(tasks[n]) /\ ~ UnderFile(Name(n))
      /\ tree[Name(n)] \in Inodes /\ Right(n, tasks[n], "ok")
  BY <1>1, InGet DEF Progress, Name
<1>3. End(n, "ok")
  BY <1>2, Numbers DEF GetChtimes
<1> QED BY <1>1, <1>2, <1>3, ReadEnds DEF Results

-----------------------------------------------------------------------------
(***************************************************************************)
(* The steps of Delete and Keys, and failures.                             *)
(***************************************************************************)
LEMMA DeleteRemoveSerial ==
    ASSUME FsInv, SeqInv, OneCaller, NEW n \in Started, DeleteRemove(n)
    PROVE  SeqInv'
<1>1. /\ waits' = waits /\ data' = data /\ dirty' = dirty /\ tasks[n].at = "remove"
      /\ tasks[n].op = "delete" /\ ~ IsOver(tasks[n]) /\ tasks[n].key \in Keys
  BY Here DEF DeleteRemove, At, Control, IsOver, Task
<1>2. PICK key : key = tasks[n].key
  OBVIOUS
<1>3. /\ ~ UnderFile(Name(n)) /\ key \in Keys /\ Name(n) = FileName(key)
      /\ tree[Name(n)] # Directory /\ tree[Name(n)] \in {Missing} \cup Inodes
  BY <1>1, <1>2, NotUnder, Here DEF Name, SeqInv, FileInv, FileOK
<1>4. /\ KeyAbsent(n, key) => tree[Name(n)] = Missing
      /\ \A m : KeyPresent(n, key, m) => Holds(key, m)
  BY <1>1, <1>3, TreeTells DEF Changes
<1>5. PICK res \in {"ok", "notexist"} :
        /\ End(n, res) /\ Right(n, tasks[n], res) /\ tree'[Name(n)] = Missing
        /\ \A p \in Paths : p # Name(n) => tree'[p] = tree[p]
  <2>1. CASE tree[Name(n)] = Missing
    <3>1. End(n, "notexist") /\ tree' = tree
      BY <1>3, <2>1 DEF DeleteRemove
    <3>2. \A m : ~ KeyPresent(n, key, m)
      BY <1>3, <1>4, <2>1, Numbers DEF Holds
    <3>3. Right(n, tasks[n], "notexist")
      BY <1>1, <1>2, <3>2 DEF Right
    <3> QED BY <2>1, <3>1, <3>3
  <2>2. CASE tree[Name(n)] # Missing
    <3>1. End(n, "ok") /\ tree' = [tree EXCEPT ![Name(n)] = Missing]
      BY <1>3, <2>2 DEF DeleteRemove
    <3>2. Right(n, tasks[n], "ok")
      BY <1>1, <1>2, <1>4, <2>2 DEF Right
    <3>3. Name(n) \in Paths /\ tree \in [Paths -> {Missing, Directory} \cup Inodes]
      BY Here DEF FsInv, TypeOK
    <3>4. tree'[Name(n)] = Missing /\ \A p \in Paths : p # Name(n) => tree'[p] = tree[p]
      BY <3>1, <3>3
    <3> QED BY <3>1, <3>2, <3>4
  <2> QED BY <2>1, <2>2
<1>6. PICK t : /\ Turn(n, t) /\ t.at = "done" /\ t.res = res
               /\ t.op = tasks[n].op /\ t.key = tasks[n].key
  BY <1>1, <1>5, EndTurn DEF Results
<1>7. tasks'[n] = t
  BY <1>6, TurnIs
<1>8. ASSUME NEW k \in Keys PROVE FileOK(k)'
  <2>1. CASE k = key
    <3>1. Changes(t, k)
      BY <1>1, <1>2, <1>6, <2>1 DEF Changes
    <3>2. tree'[FileName(k)] # Directory /\ Left(k, n)'
      BY <1>1, <1>3, <1>5, <1>6, <1>7, <2>1, Numbers DEF Left, Missing
    <3> QED BY <1>6, <3>1, <3>2, FileChanged
  <2>2. CASE k # key
    <3>1. ~ Changes(tasks[n], k) /\ ~ Changes(t, k)
      BY <1>2, <1>6, <2>2 DEF Changes
    <3>2. FileName(k) # Name(n) /\ FileName(k) \in Paths
      BY <1>3, <2>2, NamesApart, NameInPaths
    <3> QED BY <1>1, <1>5, <1>6, <3>1, <3>2, FileStays
  <2> QED BY <2>1, <2>2
<1>9. FileInv'
  BY <1>8 DEF FileInv
<1> QED BY <1>1, <1>5, <1>9, EndKeeps DEF Results

LEMMA InKeys ==
    ASSUME FsInv, SeqInv, NEW n \in Started, tasks[n].at = "walk"
    PROVE  /\ tasks[n].op = "keys" /\ ~ IsOver(tasks[n]) /\ tasks[n] \in Task
           /\ Progress(n, tasks[n])
BY Here, Alone DEF Control, IsOver

\* What a visit finds is the key whose file is there.
LEMMA VisitFinds ==
    ASSUME FsInv, NEW path \in Paths, NEW prefix, NEW key \in Keys
    PROVE  key \in KeysAt(path, prefix) <=>
               FileName(key) = path /\ key \in prefix /\ tree[path] \in Inodes
<1>1. CASE tree[path] \in Inodes
  <2>1. PICK k \in Keys : FileName(k) = path
    <3>1. tree[path] \in Started /\ FileName(tasks[tree[path]].key) = path
      BY <1>1 DEF FsInv, TreeInv
    <3> QED BY <3>1, Here DEF Task
  <2>2. KeyFromFileName(path) = k
    BY <2>1, NamesDecode
  <2>3. FileName(key) = path <=> key = k
    BY <2>1, NamesApart
  <2> QED BY <1>1, <2>2, <2>3 DEF KeysAt
<1>2. CASE tree[path] \notin Inodes
  BY <1>2 DEF KeysAt
<1> QED BY <1>1, <1>2

LEMMA KeysVisitSerial ==
    ASSUME FsInv, SeqInv, OneCaller, NEW n \in Started, KeysVisit(n)
    PROVE  SeqInv'
<1>1. UNCHANGED <<waits, files>> /\ tasks[n].at = "walk" /\ tasks[n].todo # {}
  BY DEF KeysVisit, At
<1>2. /\ tasks[n].op = "keys" /\ ~ IsOver(tasks[n]) /\ tasks[n] \in Task
      /\ Progress(n, tasks[n])
  BY <1>1, InKeys
<1>3. PICK path : path = CHOOSE p \in tasks[n].todo : TRUE
  OBVIOUS
<1>4. path \in tasks[n].todo /\ tasks[n].todo \subseteq Paths /\ path \in Paths
  BY <1>1, <1>2, <1>3 DEF Task
<1>5. PICK todo, found : /\ todo = tasks[n].todo \ {path}
                         /\ found = tasks[n].found \cup KeysAt(path, tasks[n].prefix)
  OBVIOUS
<1>6. tasks' = [tasks EXCEPT ![n].todo = @ \ {path},
                             ![n].found = @ \cup KeysAt(path, tasks[n].prefix)]
  BY <1>3 DEF KeysVisit
<1>7. PICK t : t = [tasks[n] EXCEPT !.todo = todo, !.found = found]
  OBVIOUS
<1>8. tasks' = [tasks EXCEPT ![n] = t]
  BY <1>5, <1>6, <1>7, Here DEF FsInv, TypeOK
<1>9. t \in Task
  <2>1. tasks[n].prefix \in SUBSET Keys /\ tasks[n].found \in SUBSET Keys
    BY <1>2 DEF Task
  <2>2. todo \in SUBSET Paths /\ found \in SUBSET Keys
    BY <1>4, <1>5, <2>1 DEF KeysAt
  <2> QED BY <1>2, <1>7, <2>2 DEF Task
<1>10. /\ SameCall(t, tasks[n]) /\ t.prefix = tasks[n].prefix /\ t.out = tasks[n].out
       /\ t.at = "walk" /\ t.todo = todo /\ t.found = found
  BY <1>1, <1>2, <1>7 DEF Task, SameCall
<1>11. Turn(n, t)
  BY <1>1, <1>2, <1>8, <1>9, <1>10 DEF Turn
<1>12. FileInv'
  BY <1>1, <1>2, <1>11, FilesAlone
<1>13. ASSUME NEW key \in Keys
       PROVE  key \in t.found <=> /\ FileName(key) \notin t.todo
                                  /\ key \in t.prefix /\ tree'[FileName(key)] \in Inodes
  <2>1. key \in tasks[n].found <=> /\ FileName(key) \notin tasks[n].todo
                                   /\ key \in tasks[n].prefix /\ tree[FileName(key)] \in Inodes
    BY <1>1, <1>2, <1>13 DEF Progress
  <2>2. key \in KeysAt(path, tasks[n].prefix) <=>
          FileName(key) = path /\ key \in tasks[n].prefix /\ tree[path] \in Inodes
    BY <1>4, <1>13, VisitFinds
  <2>3. tree' = tree
    BY <1>1 DEF files
  <2> QED BY <1>4, <1>5, <1>10, <2>1, <2>2, <2>3
<1>14. Progress(n, t)'
  BY <1>10, <1>13 DEF Progress, Inodes
<1> QED BY <1>11, <1>12, <1>14, TurnKeeps

LEMMA KeysEndSerial ==
    ASSUME FsInv, SeqInv, OneCaller, NEW n \in Started, KeysEnd(n)
    PROVE  SeqInv'
<1>1. /\ UNCHANGED <<waits, files>> /\ tasks[n].at = "walk" /\ tasks[n].todo = {}
      /\ End(n, "ok")
  BY DEF KeysEnd, At
<1>2. /\ tasks[n].op = "keys" /\ ~ IsOver(tasks[n]) /\ Progress(n, tasks[n])
  BY <1>1, InKeys
<1>3. ASSUME NEW key \in Keys, NEW m \in 1 .. n - 1, LeftBy(n, key, m)
      PROVE  key \in tasks[n].found <=> key \in tasks[n].prefix /\ tasks[m].op = "set"
  <2>1. key \in tasks[n].found <=> key \in tasks[n].prefix /\ tree[FileName(key)] \in Inodes
    BY <1>1, <1>2, <1>3 DEF Progress
  <2>2. ~ Changes(tasks[n], key)
    BY <1>2 DEF Changes
  <2>3. tasks[m].op \in {"set", "delete"} /\ m \in Mutations(n, key)
    BY <1>3 DEF LeftBy, Mutations
  <2>4. CASE tasks[m].op = "set"
    <3>1. Holds(key, m)
      BY <1>2, <1>3, <2>2, <2>4, TreeTells DEF KeyPresent
    <3> QED BY <2>1, <2>4, <3>1 DEF Holds
  <2>5. CASE tasks[m].op = "delete"
    <3>1. KeyAbsent(n, key)
      BY <1>3, <2>3, <2>5 DEF KeyAbsent
    <3>2. tree[FileName(key)] = Missing
      BY <1>2, <2>2, <3>1, TreeTells
    <3> QED BY <2>1, <2>5, <3>2, Numbers
  <2> QED BY <2>3, <2>4, <2>5
<1>4. Right(n, tasks[n], "ok")
  BY <1>2, <1>3 DEF Right
<1> QED BY <1>1, <1>2, <1>4, ReadEnds DEF Results

LEMMA SystemErrorSerial ==
    ASSUME FsInv, SeqInv, OneCaller, NEW n \in Started, SystemError(n), ~ IsOver(tasks[n])
    PROVE  SeqInv'
<1>1. tasks[n].at \in Faults /\ End(n, "error") /\ UNCHANGED <<waits, files>>
  BY DEF SystemError
<1>2. Control(tasks[n]) /\ tasks[n].at \in Locations /\ tasks[n].at \notin {"done", "gone"}
  BY Here DEF Task, IsOver
<1>3. tasks[n].at \notin {"open", "read", "chtimes"}
  BY <1>1 DEF OneCaller
<1>4. Right(n, tasks[n], "error")
  BY <1>1, <1>2, <1>3 DEF Control, Locations, Right
<1> QED BY <1>1, <1>4, FilesOnError, EndKeeps DEF Results

LEMMA SystemCallSerial ==
    ASSUME FsInv, SeqInv, OneCaller, NEW n \in Started, SystemCall(n)
    PROVE  SeqInv'
<1>1. CASE SystemError(n)
  <2>1. ~ IsOver(tasks[n])
    BY <1>1, OptionsAssumption DEF SystemError, IsOver
  <2> QED BY <1>1, <2>1, SystemErrorSerial
<1> QED BY <1>1, SetMkdirSerial, SetCreateSerial, SetWriteSerial, SetSyncSerial,
           GetOpenSerial, GetReadSerial, GetChtimesSerial, DeleteRemoveSerial,
           KeysVisitSerial, KeysEndSerial DEF SystemCall

-----------------------------------------------------------------------------
(***************************************************************************)
(* Calls, answers and crashes.                                             *)
(***************************************************************************)
LEMMA CallSerial ==
    ASSUME FsInv, SeqInv, OneCaller, NEW c \in Callers, NEW conn \in Conns, Calls(c, conn)
    PROVE  SeqInv'
<1>1. PICK call \in Invocations : Call(c, conn, call.op, call.key, call.val, call.prefix)
  BY DEF Calls
<1>2. PICK t, new : /\ tasks' = Append(tasks, t) /\ new = Len(tasks) + 1
                    /\ t = [op |-> call.op, key |-> call.key, val |-> call.val,
                            prefix |-> call.prefix, conn |-> conn, at |-> Entrance(call.op),
                            file |-> Missing, pos |-> 0, buf |-> <<>>,
                            todo |-> IF call.op = "keys" THEN Paths ELSE {}, found |-> {},
                            res |-> "none", out |-> "none"]
  BY <1>1 DEF Call
<1>3. /\ t.op = call.op /\ t.key = call.key /\ t.at = Entrance(call.op) /\ t.pos = 0
      /\ t.buf = <<>> /\ t.found = {} /\ t.out = "none"
      /\ call.op = "keys" => t.todo = Paths
  BY <1>2
<1>4. call.op \in {"set", "get", "delete", "keys"} /\ call.key \in Keys
  BY InvocationIs, OptionsAssumption
<1>5. /\ call.op = "set" => t.at = "mkdir"
      /\ call.op = "get" => t.at = "open"
      /\ call.op = "delete" => t.at = "remove"
      /\ call.op = "keys" => t.at = "walk"
  BY <1>3 DEF Entrance
<1>6. /\ tasks \in Seq(Task) /\ Len(tasks) \in Nat /\ waits \in [Callers -> 0 .. Len(tasks)]
      /\ tree' = tree /\ data' = data /\ dirty' = dirty
      /\ waits[c] = 0 /\ waits' = [waits EXCEPT ![c] = new]
  BY <1>1, <1>2 DEF FsInv, TypeOK, Call, Free, files
<1>7. FsInv'
  BY CallKeeps
<1>8. /\ Len(tasks') = new /\ tasks'[new] = t /\ new \in Started'
      /\ \A m \in Started : tasks'[m] = tasks[m]
      /\ \A m \in Started' : m \in Started \/ m = new
      /\ \A m \in Started : m \in Started' /\ m # new /\ m < new
  BY <1>2, <1>6 DEF Started
<1>9. Answers
  <2>1. tasks' \in Seq(Task) /\ Len(tasks') <= MaxCalls /\ Len(tasks) <= Len(tasks')
    BY <1>2, <1>6, <1>7, <1>8 DEF FsInv, TypeOK
  <2>2. \A m \in 1 .. Len(tasks) - 1 : tasks'[m].out = tasks[m].out
    BY <1>6, <1>8 DEF Started
  <2> QED BY <1>6, <1>8, <2>1, <2>2 DEF Answers, Grows, SameCall
<1>10. (\A d \in Callers : d = c) /\ \A m \in Started : IsOver(tasks[m])
  <2>1. \A d \in Callers : d = c
    BY DEF OneCaller
  <2> QED BY <1>6, <2>1 DEF SeqInv, SerialInv, Started
<1>11. SerialInv'
  <2>1. waits'[c] = new
    BY <1>6
  <2>2. \A d \in Callers : waits'[d] \in {0, Len(tasks')}
    BY <1>8, <1>10, <2>1
  <2>3. \A m \in Started' : IsOver(tasks'[m]) \/ (m = Len(tasks') /\ \E d \in Callers : waits'[d] = m)
    BY <1>8, <1>10, <2>1
  <2>4. \A m \in Started' : tasks'[m].out # "none" =>
            tasks'[m].at = "done" /\ tasks'[m].out = tasks'[m].res
    BY <1>3, <1>8 DEF SeqInv, SerialInv
  <2> QED BY <2>2, <2>3, <2>4 DEF SerialInv, IsOver
<1>12. ASSUME NEW key \in Keys PROVE FileOK(key)'
  <2>1. FileOK(key)
    BY DEF SeqInv, FileInv
  <2>2. CASE Changes(t, key)
    <3>1. ASSUME NEW m \in Started', IsLast(key, m)' PROVE m = new
      <4>1. new <= m
        BY <1>8, <2>2, <3>1 DEF IsLast, Changes
      <4> QED BY <1>6, <1>8, <4>1 DEF Started
    <3>2. Left(key, new)'
      BY <1>4, <1>5, <1>8 DEF Left
    <3> QED BY <1>6, <1>8, <2>1, <2>2, <3>1, <3>2 DEF FileOK, Changes, Directory
  <2>3. CASE ~ Changes(t, key)
    <3>1. \A l \in Started : Changes(tasks'[l], key) <=> Changes(tasks[l], key)
      BY <1>8
    <3>2. ASSUME NEW m \in Started', IsLast(key, m)' PROVE Left(key, m)'
      <4>1. m \in Started /\ IsLast(key, m)
        BY <1>8, <2>3, <3>1, <3>2 DEF IsLast, Changes
      <4>2. Left(key, m) /\ tasks'[m] = tasks[m] /\ Content(m)' = Content(m)
        BY <1>8, <1>9, <2>1, <4>1, SameContent DEF FileOK, Answers
      <4>3. Holds(key, m) => Holds(key, m)'
        BY <1>6, <4>2 DEF Holds, Inodes
      <4> QED BY <1>6, <4>2, <4>3 DEF Left, Missing
    <3>3. (\A l \in Started' : ~ Changes(tasks'[l], key)) => tree'[FileName(key)] = Missing
      BY <1>6, <1>8, <2>1, <3>1 DEF FileOK
    <3> QED BY <1>6, <2>1, <3>2, <3>3 DEF FileOK, Changes, Directory, Missing
  <2> QED BY <2>2, <2>3
<1>13. ASSUME NEW m \in Started' PROVE Progress(m, tasks[m])'
  <2>1. CASE m \in Started
    <3>1. PICK u : u = tasks[m] /\ u = tasks'[m]
      BY <1>8, <2>1
    <3>2. IsOver(u) /\ Progress(m, u)
      BY <1>10, <2>1, <3>1 DEF SeqInv, CallsInv
    <3>3. u.at = "done" => Right(m, u, u.res)'
      BY <1>9, <2>1, <3>2, Past DEF Progress
    <3>4. Progress(m, u)'
      BY <3>2, <3>3 DEF Progress, IsOver
    <3> QED BY <3>1, <3>4
  <2>2. CASE m = new
    <3>1. Progress(new, t)'
      BY <1>3, <1>4, <1>5, NameInPaths DEF Progress
    <3> QED BY <1>8, <2>2, <3>1
  <2> QED BY <1>8, <2>1, <2>2
<1> QED BY <1>11, <1>12, <1>13 DEF SeqInv, FileInv, CallsInv

\* The caller is given the result; it does not leave before.
LEMMA NoneLeaves ==
    ASSUME FsInv, SeqInv, OneCaller, Patient, NEW c \in Callers, Answered(c)
    PROVE  /\ Collect(c) /\ waits[c] # 0 /\ waits[c] = Len(tasks) /\ waits[c] \in Started
<1>1. PICK n : n = waits[c]
  OBVIOUS
<1>2. n # 0 /\ n = Len(tasks) /\ n \in Started
  BY <1>1 DEF Answered, Collect, Timeout, SeqInv, SerialInv, FsInv, TypeOK, Started
<1>3. ~ Timeout(c)
  <2>1. tasks[n].conn.timeout \in Int /\ tasks[n].conn.timeout > 0
    <3>1. tasks[n].conn \in Conns
      BY <1>2, Here DEF Task
    <3> QED BY <1>2, <3>1, ConnsAssumption DEF Patient
  <2> QED BY <1>1, <2>1 DEF Timeout, OneCaller
<1> QED BY <1>1, <1>2, <1>3 DEF Answered

LEMMA AnsweredSerial ==
    ASSUME FsInv, SeqInv, OneCaller, Patient, NEW c \in Callers, Answered(c)
    PROVE  SeqInv'
<1>1. PICK n : n = waits[c]
  OBVIOUS
<1>2. n = Len(tasks) /\ n \in Started
  BY <1>1, NoneLeaves
<1>3. Collect(c)
  BY NoneLeaves
<1>4. /\ tasks' = [tasks EXCEPT ![n].out = tasks[n].res] /\ tasks[n].at = "done"
      /\ waits' = [waits EXCEPT ![c] = 0] /\ tree' = tree /\ data' = data /\ dirty' = dirty
  BY <1>1, <1>3 DEF Collect, At, files
<1>5. PICK t : t = [tasks[n] EXCEPT !.out = tasks[n].res]
  OBVIOUS
<1>6. /\ tasks \in Seq(Task) /\ Len(tasks) \in Nat /\ Len(tasks) <= MaxCalls
      /\ n \in 1 .. Len(tasks) /\ tasks[n] \in Task /\ waits \in [Callers -> 0 .. Len(tasks)]
  BY <1>2, Here DEF FsInv, TypeOK
<1>7. tasks' = [tasks EXCEPT ![n] = t]
  BY <1>4, <1>5, <1>6
<1>8. t \in Task
  BY <1>5, <1>6 DEF Task
<1>9. /\ SameCall(t, tasks[n]) /\ t.prefix = tasks[n].prefix /\ t.at = "done"
      /\ t.res = tasks[n].res /\ t.out = tasks[n].res /\ t.buf = tasks[n].buf
      /\ t.found = tasks[n].found
  BY <1>4, <1>5, <1>6 DEF Task, SameCall
<1>10. /\ tasks' \in Seq(Task) /\ Len(tasks') = Len(tasks) /\ tasks'[n] = t
       /\ \A m \in Started : m # n => tasks'[m] = tasks[m]
  BY <1>6, <1>7, <1>8 DEF Started
<1>11. Started' = Started
  BY <1>10 DEF Started
<1>12. Answers
  <2>1. \A m \in Started : SameCall(tasks'[m], tasks[m])
    BY <1>9, <1>10 DEF SameCall
  <2>2. \A m \in 1 .. Len(tasks) - 1 : m \in Started /\ m # n
    BY <1>2, <1>6 DEF Started
  <2>3. \A m \in 1 .. Len(tasks) - 1 : tasks'[m].out = tasks[m].out
    BY <1>10, <2>2
  <2>4. Len(tasks') <= MaxCalls /\ Len(tasks) <= Len(tasks')
    BY <1>6, <1>10
  <2> QED BY <1>6, <1>10, <2>1, <2>3, <2>4 DEF Answers, Grows
<1>13. SerialInv'
  <2>1. \A d \in Callers : d = c
    BY DEF OneCaller
  <2>2. \A m \in Started : IsOver(tasks'[m])
    BY <1>2, <1>9, <1>10 DEF SeqInv, SerialInv, IsOver
  <2>3. \A d \in Callers : waits'[d] \in {0, Len(tasks')}
    BY <1>4, <1>6, <2>1
  <2>4. \A m \in Started : tasks'[m].out # "none" =>
            tasks'[m].at = "done" /\ tasks'[m].out = tasks'[m].res
    BY <1>9, <1>10 DEF SeqInv, SerialInv
  <2> QED BY <1>11, <2>2, <2>3, <2>4 DEF SerialInv, IsOver
<1>14. ASSUME NEW key \in Keys PROVE FileOK(key)'
  <2>1. FileOK(key)
    BY DEF SeqInv, FileInv
  <2>2. \A l \in Started : /\ tasks'[l].at = tasks[l].at /\ tasks'[l].res = tasks[l].res
                           /\ SameCall(tasks'[l], tasks[l])
    BY <1>4, <1>9, <1>10 DEF SameCall
  <2>3. \A l \in Started : Changes(tasks'[l], key) <=> Changes(tasks[l], key)
    BY <2>2 DEF Changes, SameCall
  <2>4. ASSUME NEW m \in Started, IsLast(key, m)' PROVE Left(key, m)'
    <3>1. IsLast(key, m)
      BY <1>11, <2>3, <2>4 DEF IsLast, Changes
    <3>2. Left(key, m) /\ Content(m)' = Content(m)
      BY <1>12, <2>1, <3>1, SameContent DEF FileOK, Answers
    <3>3. Holds(key, m) => Holds(key, m)'
      BY <1>4, <3>2 DEF Holds, Inodes
    <3> QED BY <1>4, <2>2, <3>2, <3>3 DEF Left, Missing, SameCall
  <2>5. (\A l \in Started : ~ Changes(tasks'[l], key)) => tree'[FileName(key)] = Missing
    BY <1>4, <2>1, <2>3 DEF FileOK
  <2> QED BY <1>4, <1>11, <2>1, <2>4, <2>5 DEF FileOK, Changes, Directory, Missing
<1>15. ASSUME NEW m \in Started PROVE Progress(m, tasks[m])'
  <2>1. PICK u : u = tasks'[m]
    OBVIOUS
  <2>2. /\ IsOver(u) /\ u.at = tasks[m].at /\ u.res = tasks[m].res /\ u.buf = tasks[m].buf
        /\ u.found = tasks[m].found /\ u.prefix = tasks[m].prefix /\ u.op = tasks[m].op
        /\ u.key = tasks[m].key
    BY <1>2, <1>4, <1>9, <1>10, <2>1 DEF SeqInv, SerialInv, IsOver, SameCall
  <2>3. Progress(m, tasks[m])
    BY DEF SeqInv, CallsInv
  <2>4. u.at = "done" => Right(m, u, u.res)
    BY <2>2, <2>3 DEF Progress, Right
  <2>5. u.at = "done" => Right(m, u, u.res)'
    BY <1>12, <2>4, Past
  <2>6. Progress(m, u)'
    BY <2>2, <2>5 DEF Progress, IsOver
  <2> QED BY <2>1, <2>6
<1> QED BY <1>11, <1>13, <1>14, <1>15 DEF SeqInv, FileInv, CallsInv

\* A crash takes nothing that was synced, and ends the call that was under way.
LEMMA CrashSerial ==
    ASSUME FsInv, SeqInv, OneCaller, Crash
    PROVE  SeqInv'
<1>1. /\ waits' = [c \in Callers |-> 0] /\ dirty' = {} /\ tree' = tree
      /\ tasks' = [n \in 1 .. Len(tasks) |->
                     IF At(n, "done") THEN tasks[n] ELSE [tasks[n] EXCEPT !.at = "gone"]]
      /\ \A i \in Inodes : i \notin dirty => data'[i] = data[i]
  BY DEF Crash
<1>2. tasks \in Seq(Task) /\ Len(tasks) \in Nat /\ Len(tasks) <= MaxCalls
  BY DEF FsInv, TypeOK
<1>3. FsInv'
  BY CrashKeeps
<1>4. Len(tasks') = Len(tasks) /\ Started' = Started /\ tasks' \in Seq(Task)
  BY <1>1, <1>2, <1>3 DEF Started, FsInv, TypeOK
<1>5. ASSUME NEW n \in Started
      PROVE  /\ SameCall(tasks'[n], tasks[n]) /\ tasks'[n].out = tasks[n].out
             /\ IF tasks[n].at = "done" THEN tasks'[n] = tasks[n] ELSE tasks'[n].at = "gone"
  <2>1. tasks[n] \in Task
    BY Here
  <2>2. tasks'[n] = IF tasks[n].at = "done" THEN tasks[n] ELSE [tasks[n] EXCEPT !.at = "gone"]
    BY <1>1 DEF Started, At
  <2> QED BY <2>1, <2>2 DEF Task, SameCall
<1>6. Answers
  <2>1. \A m \in 1 .. Len(tasks) - 1 : m \in Started
    BY <1>2 DEF Started
  <2>2. \A m \in 1 .. Len(tasks) - 1 : tasks'[m].out = tasks[m].out
    BY <1>5, <2>1
  <2> QED BY <1>2, <1>4, <1>5, <2>2 DEF Answers, Grows
<1>7. SerialInv'
  <2>1. \A c \in Callers : waits'[c] = 0
    BY <1>1
  <2>2. \A n \in Started : IsOver(tasks'[n])
    BY <1>5 DEF IsOver
  <2>3. \A n \in Started : tasks'[n].out # "none" =>
            tasks'[n].at = "done" /\ tasks'[n].out = tasks'[n].res
    BY <1>5 DEF SeqInv, SerialInv
  <2> QED BY <1>4, <2>1, <2>2, <2>3 DEF SerialInv, IsOver
<1>8. ASSUME NEW key \in Keys PROVE FileOK(key)'
  <2>1. FileOK(key)
    BY DEF SeqInv, FileInv
  <2>2. \A l \in Started : Changes(tasks[l], key) => Changes(tasks'[l], key)
    BY <1>5 DEF Changes, SameCall
  <2>3. ASSUME NEW m \in Started, IsLast(key, m)' PROVE Left(key, m)'
    <3>1. CASE tasks[m].at = "done"
      <4>1. tasks'[m] = tasks[m]
        BY <1>5, <3>1
      <4>2. IsLast(key, m)
        BY <1>4, <2>2, <2>3, <4>1 DEF IsLast, Changes
      <4>3. Left(key, m) /\ Content(m)' = Content(m)
        BY <1>6, <2>1, <4>2, SameContent DEF FileOK, Answers
      <4>4. Holds(key, m) => Holds(key, m)'
        BY <1>1, <4>3 DEF Holds, Inodes
      <4> QED BY <1>1, <4>1, <4>3, <4>4 DEF Left, Missing
    <3>2. CASE tasks[m].at # "done"
      BY <1>5, <3>2 DEF Left
    <3> QED BY <3>1, <3>2
  <2>4. (\A l \in Started : ~ Changes(tasks'[l], key)) => tree'[FileName(key)] = Missing
    BY <1>1, <2>1, <2>2 DEF FileOK
  <2> QED BY <1>1, <1>4, <2>1, <2>3, <2>4 DEF FileOK, Changes, Directory, Missing
<1>9. ASSUME NEW m \in Started PROVE Progress(m, tasks[m])'
  <2>1. PICK u : u = tasks'[m]
    OBVIOUS
  <2>2. IF tasks[m].at = "done" THEN u = tasks[m] ELSE u.at = "gone"
    BY <1>5, <2>1
  <2>3. u.at = "done" => Right(m, u, u.res)
    BY <2>2 DEF SeqInv, CallsInv, Progress
  <2>4. u.at = "done" => Right(m, u, u.res)'
    BY <1>6, <2>3, Past
  <2>5. IsOver(u)
    BY <2>2 DEF IsOver
  <2>6. Progress(m, u)'
    BY <2>4, <2>5 DEF Progress, IsOver
  <2> QED BY <2>1, <2>6
<1> QED BY <1>4, <1>7, <1>8, <1>9 DEF SeqInv, FileInv, CallsInv

LEMMA StutterSerial ==
    ASSUME SeqInv, UNCHANGED vars
    PROVE  SeqInv'
<1>1. /\ tasks' = tasks /\ waits' = waits /\ tree' = tree /\ data' = data /\ dirty' = dirty
      /\ Started' = Started
  BY DEF vars, Started
<1>2. \A m, n : /\ Content(m)' = Content(m) /\ (Readable(n, m)' <=> Readable(n, m))
  BY <1>1 DEF Content, Readable
<1>3. \A n, key : Mutations(n, key)' = Mutations(n, key)
  BY <1>1 DEF Mutations
<1>4. \A n, key, m : LeftBy(n, key, m)' <=> LeftBy(n, key, m)
  BY <1>1, <1>3 DEF LeftBy
<1>5. \A n, key, m : /\ KeyAbsent(n, key)' <=> KeyAbsent(n, key)
                     /\ KeyPresent(n, key, m)' <=> KeyPresent(n, key, m)
  BY <1>1, <1>3, <1>4 DEF KeyAbsent, KeyPresent
<1>6. \A n, t, res : Right(n, t, res)' <=> Right(n, t, res)
  BY <1>1, <1>2, <1>4, <1>5 DEF Right
<1>7. \A n, t : Progress(n, t)' <=> Progress(n, t)
  BY <1>1, <1>2, <1>6 DEF Progress, Inodes
<1>8. CallsInv'
  BY <1>1, <1>7 DEF SeqInv, CallsInv
<1>9. FileInv'
  <2>1. \A key, m : Holds(key, m)' <=> Holds(key, m)
    BY <1>1, <1>2 DEF Holds, Inodes
  <2>2. \A key, m : Left(key, m)' <=> Left(key, m)
    BY <1>1, <2>1 DEF Left, Missing
  <2>3. \A key, m : IsLast(key, m)' <=> IsLast(key, m)
    BY <1>1 DEF IsLast, Changes
  <2> QED BY <1>1, <2>2, <2>3 DEF SeqInv, FileInv, FileOK, Changes, Missing, Directory
<1>10. SerialInv'
  BY <1>1 DEF SeqInv, SerialInv, IsOver
<1> QED BY <1>8, <1>9, <1>10 DEF SeqInv

LEMMA SerialInit ==
    ASSUME Init
    PROVE  SeqInv
<1>1. /\ Len(tasks) = 0 /\ waits = [c \in Callers |-> 0] /\ Started = {}
      /\ tree = [p \in Paths |-> Missing]
  BY DEF Init, Started
<1>2. \A key \in Keys : tree[FileName(key)] = Missing
  BY <1>1, NameInPaths
<1>3. FileInv
  BY <1>1, <1>2, Numbers DEF FileInv, FileOK
<1>4. SerialInv
  BY <1>1 DEF SerialInv
<1> QED BY <1>1, <1>3, <1>4 DEF SeqInv, CallsInv

LEMMA SerialStep ==
    ASSUME FsInv, SeqInv, OneCaller, Patient, [Next]_vars
    PROVE  SeqInv'
<1>1. ASSUME NEW c \in Callers, (\E conn \in Conns : Calls(c, conn)) \/ Answered(c)
      PROVE  SeqInv'
  BY <1>1, CallSerial, AnsweredSerial
<1>2. ASSUME NEW n \in 1 .. Len(tasks), SystemCall(n) PROVE SeqInv'
  BY <1>2, SystemCallSerial DEF Started
<1>3. CASE Crash
  BY <1>3, CrashSerial
<1>4. CASE Quiescent \/ UNCHANGED vars
  BY <1>4, StutterSerial DEF Quiescent
<1> QED BY <1>1, <1>2, <1>3, <1>4 DEF Next

\* What the invariant says of the calls that were answered.
LEMMA SerialAnswers ==
    ASSUME SeqInv, NEW n \in Started, tasks[n].out # "none"
    PROVE  Right(n, tasks[n], tasks[n].out)
BY DEF SeqInv, SerialInv, CallsInv, Progress

LEMMA SerialReads ==
    ASSUME SeqInv
    PROVE  ReadsLastWrite
<1> SUFFICES ASSUME NEW n \in Started, tasks[n].op = "get",
                    tasks[n].out \notin {"none", "timeout"}
             PROVE  /\ \A m \in 1 .. n - 1 : LeftBy(n, tasks[n].key, m) =>
                         CASE tasks[m].op = "delete" -> tasks[n].out = "notexist"
                           [] tasks[m].op = "set" /\ Readable(n, m) ->
                                tasks[n].out = "ok" /\ tasks[n].buf = Content(m)
                           [] OTHER -> tasks[n].out = "error"
                    /\ Mutations(n, tasks[n].key) = {} => tasks[n].out = "notexist"
  BY DEF ReadsLastWrite, Started
<1>1. /\ KeyAbsent(n, tasks[n].key) => tasks[n].out = "notexist"
      /\ \A m \in 1 .. n - 1 : KeyPresent(n, tasks[n].key, m) =>
           IF Readable(n, m) THEN tasks[n].out = "ok" /\ tasks[n].buf = Content(m)
                             ELSE tasks[n].out = "error"
  BY SerialAnswers DEF Right
<1>2. Mutations(n, tasks[n].key) = {} => tasks[n].out = "notexist"
  BY <1>1 DEF KeyAbsent
<1>3. ASSUME NEW m \in 1 .. n - 1, LeftBy(n, tasks[n].key, m)
      PROVE  CASE tasks[m].op = "delete" -> tasks[n].out = "notexist"
               [] tasks[m].op = "set" /\ Readable(n, m) ->
                    tasks[n].out = "ok" /\ tasks[n].buf = Content(m)
               [] OTHER -> tasks[n].out = "error"
  <2>1. m \in Mutations(n, tasks[n].key) /\ tasks[m].op \in {"set", "delete"}
    BY <1>3 DEF LeftBy, Mutations
  <2>2. CASE tasks[m].op = "delete"
    <3>1. KeyAbsent(n, tasks[n].key)
      BY <1>3, <2>1, <2>2 DEF KeyAbsent
    <3> QED BY <1>1, <2>2, <3>1
  <2>3. CASE tasks[m].op = "set"
    <3>1. KeyPresent(n, tasks[n].key, m)
      BY <1>3, <2>3 DEF KeyPresent
    <3> QED BY <1>1, <2>3, <3>1
  <2> QED BY <2>1, <2>2, <2>3
<1> QED BY <1>2, <1>3

LEMMA SerialLists ==
    ASSUME SeqInv
    PROVE  KeysListed
BY SerialAnswers DEF KeysListed, Right, Started

(***************************************************************************)
(* A caller that waits for its answers reads what it has written: Get      *)
(* returns what the last Set of the key was given once that Set has        *)
(* succeeded, and that the key does not exist once a Delete has.  Sets     *)
(* that fail half-way and crashes may come in between.  For any number of  *)
(* keys, values, caches on the directory, calls and crashes.               *)
(***************************************************************************)
THEOREM LastWriteRead ==
    ASSUME OneCaller, \A conn \in Conns : conn.timeout > 0
    PROVE  Spec => []ReadsLastWrite
<1>1. FsInv => Patient
  BY Here DEF Patient, Task
<1>2. Init => SeqInv
  BY SerialInit
<1>3. FsInv /\ SeqInv /\ [Next]_vars => SeqInv'
  BY <1>1, SerialStep
<1>4. SeqInv => ReadsLastWrite
  BY SerialReads
<1> QED BY <1>2, <1>3, <1>4, FsInvariant, PTL DEF Spec

(***************************************************************************)
(* For such a caller, Keys lists a key with the prefix exactly when the    *)
(* last call that was answered left the key in the cache.                  *)
(***************************************************************************)
THEOREM KeysAreListed ==
    ASSUME OneCaller, \A conn \in Conns : conn.timeout > 0
    PROVE  Spec => []KeysListed
<1>1. FsInv => Patient
  BY Here DEF Patient, Task
<1>2. Init => SeqInv
  BY SerialInit
<1>3. FsInv /\ SeqInv /\ [Next]_vars => SeqInv'
  BY <1>1, SerialStep
<1>4. SeqInv => KeysListed
  BY SerialLists
<1> QED BY <1>2, <1>3, <1>4, FsInvariant, PTL DEF Spec

-----------------------------------------------------------------------------
(***************************************************************************)
(* The answers of the handlers.  A handler waits for the call that its     *)
(* request made, and the status is the one for what that call returned.    *)
(***************************************************************************)
ServedInv ==
    /\ served \in [Callers -> Requests \cup {NoRequest}]
    /\ \A c \in Callers : served[c] # NoRequest =>
          waits[c] # 0 /\ served[c].op = tasks[waits[c]].op

ReplyInv ==
    IF reply.n = 0
    THEN reply.scheme # "memcache" => reply.status \in {0, 500}
    ELSE /\ reply.n \in Started /\ tasks[reply.n].at = "done"
         /\ tasks[reply.n].out = tasks[reply.n].res
         /\ reply.op = tasks[reply.n].op
         /\ reply.status = Status(reply.op, tasks[reply.n].out)

ApiInv == FsInv /\ ConnsOpen /\ SeqInv /\ ServedInv /\ ReplyInv

LEMMA NoReplyIs == ASSUME NoAnswer PROVE ReplyInv'
BY DEF NoAnswer, NoReply, ReplyInv

\* Only the handlers of an in-memory cache answer without a call and an error.
LEMMA AtOnceIs ==
    ASSUME NEW c \in Callers, ServeAtOnce(c)
    PROVE  ReplyInv'
<1>1. PICK req \in Requests : reply' \in AtOnce(req)
  BY DEF ServeAtOnce, AllAtOnce
<1>2. PICK opened \in O!OpenConn(req.dsn) :
        /\ opened.ok => opened.driver = "memcache"
        /\ reply' = Reply(req, IF opened.ok THEN MemStatus(req.op) ELSE 500, 0)
  BY <1>1 DEF AtOnce
<1>3. /\ reply'.n = 0 /\ reply'.scheme = req.dsn.scheme
      /\ reply'.status = IF opened.ok THEN MemStatus(req.op) ELSE 500
  BY <1>2 DEF Reply
<1>4. ASSUME opened.ok PROVE req.dsn.scheme = "memcache"
  <2>1. req.dsn.scheme \in Drivers
    BY <1>4 DEF O!OpenConn, O!Failed
  <2>2. req.dsn.scheme \in {"fscache", "memcache"}
    BY <2>1, OpeningAssumption
  <2>3. req.dsn.scheme # "fscache"
    <3> SUFFICES ASSUME req.dsn.scheme = "fscache" PROVE FALSE
      OBVIOUS
    <3>1. O!OpenConn(req.dsn) =
            IF O!OptionError(req.dsn) THEN {O!Failed}
            ELSE {[ok |-> TRUE, driver |-> "fscache", conn |-> O!FsConn(req.dsn)]}
                 \cup (IF InitFails THEN {O!Failed} ELSE {})
      BY <2>1 DEF O!OpenConn
    <3>2. opened.driver = "fscache"
      BY <1>4, <3>1 DEF O!Failed
    <3> QED BY <1>2, <1>4, <3>2
  <2> QED BY <2>2, <2>3
<1> QED BY <1>3, <1>4 DEF ReplyInv

LEMMA SystemCallWaits ==
    ASSUME NEW n, SystemCall(n)
    PROVE  waits' = waits
BY DEF SystemCall, SetMkdir, SetCreate, SetWrite, SetSync, GetOpen, GetRead, GetChtimes,
       DeleteRemove, KeysVisit, KeysEnd, SystemError

\* A handler whose call has begun.
LEMMA ServeByCallServes ==
    ASSUME FsInv, OneCaller, ServedInv, NEW c \in Callers, NEW req \in Requests,
           ServeByCall(c, req)
    PROVE  ServedInv' /\ ReplyInv'
<1>1. PICK conn : Call(c, conn, req.op, req.key, 0, req.prefix)
  BY DEF ServeByCall
<1>2. PICK t : tasks' = Append(tasks, t) /\ t.op = req.op
  BY <1>1 DEF Call
<1>3. /\ tasks \in Seq(Task) /\ Len(tasks) \in Nat
      /\ waits \in [Callers -> 0 .. Len(tasks)] /\ waits' = [waits EXCEPT ![c] = Len(tasks) + 1]
  BY <1>1 DEF FsInv, TypeOK, Call
<1>4. waits'[c] = Len(tasks) + 1 /\ tasks'[Len(tasks) + 1] = t /\ waits'[c] # 0
  BY <1>2, <1>3
<1>5. served' = [served EXCEPT ![c] = req] /\ NoAnswer
  BY DEF ServeByCall
<1>6. served' \in [Callers -> Requests \cup {NoRequest}] /\ served'[c] = req
  BY <1>5 DEF ServedInv
<1>7. \A d \in Callers : d = c
  BY DEF OneCaller
<1>8. \A d \in Callers : waits'[d] # 0 /\ served'[d].op = tasks'[waits'[d]].op
  BY <1>2, <1>4, <1>6, <1>7
<1>9. ServedInv'
  BY <1>6, <1>8 DEF ServedInv, Requests, NoRequest
<1> QED BY <1>5, <1>9, NoReplyIs

\* The call has returned: the handler answers.
LEMMA ServeEndServes ==
    ASSUME FsInv, SeqInv, OneCaller, Patient, ServedInv, NEW c \in Callers, ServeEnd(c)
    PROVE  ServedInv' /\ ReplyInv'
<1>1. PICK n, req : n = waits[c] /\ req = served[c]
  OBVIOUS
<1>2. /\ req # NoRequest /\ req.op = tasks[n].op /\ Answered(c)
      /\ reply' = Reply(req, Status(req.op, tasks'[n].out), n)
      /\ served' = [served EXCEPT ![c] = NoRequest]
  BY <1>1 DEF ServeEnd, ServedInv
<1>3. Collect(c) /\ n # 0 /\ n \in Started
  BY <1>1, <1>2, NoneLeaves
<1>4. tasks' = [tasks EXCEPT ![n].out = tasks[n].res] /\ tasks[n].at = "done"
  BY <1>1, <1>3 DEF Collect, At
<1>5. tasks \in Seq(Task) /\ n \in 1 .. Len(tasks) /\ tasks[n] \in Task
  BY <1>3, Here DEF FsInv, TypeOK
<1>6. PICK t : t = [tasks[n] EXCEPT !.out = tasks[n].res]
  OBVIOUS
<1>7. /\ t.op = tasks[n].op /\ t.at = "done" /\ t.out = t.res
  BY <1>4, <1>5, <1>6 DEF Task
<1>8. tasks' = [tasks EXCEPT ![n] = t]
  BY <1>4, <1>5, <1>6
<1>9. tasks'[n] = t /\ n \in Started'
  BY <1>5, <1>8 DEF Started
<1>10. /\ reply'.n = n /\ reply'.op = req.op
       /\ reply'.status = Status(req.op, tasks'[n].out)
  BY <1>2 DEF Reply
<1>11. ReplyInv'
  BY <1>2, <1>3, <1>7, <1>9, <1>10 DEF ReplyInv, Status
<1>12. ServedInv'
  <2>1. \A d \in Callers : d = c
    BY DEF OneCaller
  <2>2. served' \in [Callers -> Requests \cup {NoRequest}] /\ served'[c] = NoRequest
    BY <1>2 DEF ServedInv
  <2> QED BY <2>1, <2>2 DEF ServedInv, Requests, NoRequest
<1> QED BY <1>11, <1>12

LEMMA ReplyStep ==
    ASSUME ApiInv, OneCaller, [ApiNext]_apiVars
    PROVE  ServedInv' /\ ReplyInv'
<1>1. FsInv /\ SeqInv /\ ServedInv /\ ReplyInv /\ Patient
  BY DEF ApiInv, ConnsOpen, IsOpen, Patient
<1>2. ASSUME CallsKept, waits' = waits, served' = served PROVE ServedInv'
  <2>1. \A d \in Callers : waits[d] # 0 => waits[d] \in Started
    BY <1>1 DEF FsInv, TypeOK, Started
  <2> QED BY <1>1, <1>2, <2>1 DEF ServedInv, CallsKept, Requests, NoRequest
<1>3. \A c, d \in Callers : d = c
  BY DEF OneCaller
<1>4. ASSUME NEW c \in Callers, ServeAtOnce(c) PROVE ServedInv' /\ ReplyInv'
  <2>1. UNCHANGED <<vars, served>>
    BY <1>4 DEF ServeAtOnce
  <2>2. CallsKept /\ waits' = waits /\ served' = served
    BY <2>1 DEF vars, CallsKept
  <2> QED BY <1>2, <1>4, <2>2, AtOnceIs
<1>5. ASSUME NEW c \in Callers, NEW req \in Requests, ServeByCall(c, req)
      PROVE  ServedInv' /\ ReplyInv'
  BY <1>1, <1>5, ServeByCallServes
<1>6. ASSUME NEW c \in Callers, ServeEnd(c) PROVE ServedInv' /\ ReplyInv'
  BY <1>1, <1>6, ServeEndServes
<1>7. ASSUME NEW c \in Callers, ProgramSet(c) \/ ProgramReturn(c)
      PROVE  ServedInv' /\ ReplyInv'
  <2>1. served' = served /\ NoAnswer /\ served[c] = NoRequest
    BY <1>1, <1>7 DEF ProgramSet, ProgramReturn, ServedInv, Free
  <2>2. ServedInv'
    BY <1>1, <1>3, <2>1 DEF ServedInv, Requests, NoRequest
  <2> QED BY <2>1, <2>2, NoReplyIs
<1>8. ASSUME NEW n \in Started, SystemCall(n), NoAnswer, served' = served
      PROVE  ServedInv' /\ ReplyInv'
  BY <1>1, <1>2, <1>8, SystemCallConns, SystemCallWaits, NoReplyIs
<1>9. CASE Crash /\ served' = [c \in Callers |-> NoRequest] /\ NoAnswer
  <2>1. ServedInv'
    BY <1>9 DEF ServedInv, Requests, NoRequest
  <2> QED BY <1>9, <2>1, NoReplyIs
<1>10. CASE (Quiescent /\ UNCHANGED <<served, reply>>) \/ UNCHANGED apiVars
  <2>1. tasks' = tasks /\ waits' = waits /\ served' = served /\ reply' = reply
    BY <1>10 DEF Quiescent, apiVars, vars
  <2>2. ServedInv'
    BY <1>2, <2>1 DEF CallsKept
  <2>3. ReplyInv'
    BY <1>1, <2>1 DEF ReplyInv, Status, Started
  <2> QED BY <2>2, <2>3
<1> QED BY <1>4, <1>5, <1>6, <1>7, <1>8, <1>9, <1>10 DEF ApiNext, Started

LEMMA ApiInvariant ==
    ASSUME OneCaller
    PROVE  ApiSpec => []ApiInv
<1>1. ApiInit => ApiInv
  <2> SUFFICES ASSUME ApiInit PROVE ApiInv
    OBVIOUS
  <2>1. FsInv /\ SeqInv
    BY FsInit, SerialInit DEF ApiInit
  <2>2. ConnsOpen
    BY DEF ApiInit, Init, ConnsOpen, Started
  <2>3. ServedInv /\ ReplyInv
    BY DEF ApiInit, ServedInv, ReplyInv, NoReply
  <2> QED BY <2>1, <2>2, <2>3 DEF ApiInv
<1>2. ApiInv /\ [ApiNext]_apiVars => ApiInv'
  <2> SUFFICES ASSUME ApiInv, [ApiNext]_apiVars PROVE ApiInv'
    OBVIOUS
  <2>1. FsInv /\ SeqInv /\ ConnsOpen /\ Patient
    BY DEF ApiInv, ConnsOpen, IsOpen, Patient
  <2>2. FsInv' /\ ConnsOpen'
    BY <2>1, ApiStep
  <2>3. SeqInv'
    BY <2>1, ApiStepIs, SerialStep
  <2>4. ServedInv' /\ ReplyInv'
    BY ReplyStep
  <2> QED BY <2>2, <2>3, <2>4 DEF ApiInv
<1> QED BY <1>1, <1>2, PTL DEF ApiSpec

(***************************************************************************)
(* The status of an answer says what is so, to a program that waits for    *)
(* its answers: 404 when nothing is stored under the key and only then,    *)
(* 204 when there was something to delete, 200 when the value can be shown *)
(* and 500 when it cannot be decrypted.  Here no call has a timeout to     *)
(* fear, whatever the DSNs say: what is not positive is replaced.          *)
(***************************************************************************)
THEOREM StatusIsTruthful ==
    ASSUME OneCaller, Faults \cap {"remove", "walk"} = {}
    PROVE  ApiSpec => []StatusTruthful
<1>1. ApiInv => StatusTruthful
  <2> SUFFICES ASSUME ApiInv PROVE StatusTruthful
    OBVIOUS
  <2>1. CASE reply.n = 0
    BY <2>1 DEF ApiInv, ReplyInv, StatusTruthful
  <2>2. CASE reply.n # 0
    <3>1. PICK n : n = reply.n
      OBVIOUS
    <3>2. /\ n \in Started /\ reply.op = tasks[n].op
          /\ reply.status = Status(reply.op, tasks[n].out)
          /\ Right(n, tasks[n], tasks[n].out)
      BY <2>2, <3>1 DEF ApiInv, ReplyInv, SeqInv, CallsInv, Progress
    <3>3. \A m \in Mutations(n, tasks[n].key) : m \in 1 .. n - 1
      BY DEF Mutations
    <3>4. /\ reply.op \in {"get", "delete"} => (KeyAbsent(n, tasks[n].key) => reply.status = 404)
          /\ reply.op = "keys" => reply.status = 200
      BY <3>2 DEF Right, Status
    <3>5. ASSUME NEW m \in Mutations(n, tasks[n].key), KeyPresent(n, tasks[n].key, m),
                 reply.op \in {"get", "delete"}
          PROVE  reply.status = CASE reply.op = "delete" -> 204
                                  [] reply.op = "get" /\ Readable(n, m) -> 200
                                  [] OTHER -> 500
      BY <3>2, <3>3, <3>5 DEF Right, Status
    <3> QED BY <2>2, <3>1, <3>4, <3>5 DEF StatusTruthful, KeyAbsent, KeyPresent
  <2> QED BY <2>1, <2>2
<1> QED BY <1>1, ApiInvariant, PTL
=============================================================================
