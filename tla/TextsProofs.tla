---------------------------- MODULE TextsProofs -----------------------------
(***************************************************************************)
(* Theorems about Texts: what the text algorithms of the cache read is     *)
(* what was written, for inputs of any length.                             *)
(***************************************************************************)
EXTENDS Texts, TLAPS, FiniteSetTheorems

Reading == INSTANCE Folding WITH Step <- ReadLetter
Unescaping == INSTANCE Folding WITH Step <- Unescape
Putting == INSTANCE Folding WITH Step <- PutDirective

\* What is written is a sequence of items of its kind.
Written == input.kind \in DOMAIN Items /\ input.items \in Seq(Items[input.kind])
           /\ input = [kind |-> input.kind, items |-> input.items]

LEMMA AlwaysWritten == Spec => []Written
<1>1. Init => Written
  BY DEF Init, Written
<1>2. Written /\ [Next]_input => Written'
  <2> SUFFICES ASSUME Written, [Next]_input PROVE Written'
    OBVIOUS
  <2>1. ASSUME NEW kind, Write(kind) PROVE Written'
    <3>1. PICK item \in Items[kind] : input' = [input EXCEPT !.items = Append(@, item)]
      BY <2>1 DEF Write
    <3>2. input' = [kind |-> kind, items |-> Append(input.items, item)]
      BY <2>1, <3>1 DEF Write, Written
    <3>3. input.kind = kind /\ kind \in DOMAIN Items /\ input.items \in Seq(Items[kind])
      BY <2>1 DEF Write, Written
    <3>4. Append(input.items, item) \in Seq(Items[kind])
      BY <3>3
    <3>5. input'.kind = kind /\ input'.items = Append(input.items, item)
      BY <3>2
    <3> QED BY <3>2, <3>3, <3>4, <3>5 DEF Written
  <2>2. CASE UNCHANGED input
    BY <2>2 DEF Written
  <2> QED BY <2>1, <2>2 DEF Next
<1> QED BY <1>1, <1>2, PTL DEF Spec

-----------------------------------------------------------------------------
\* The folds and joins of the model are those of Folding.
LEMMA ReadingIs == \A base, s : FoldLeft(ReadLetter, base, s) = Reading!Fold(base, s)
BY DEF Reading!Fold, FoldLeft, MapThenFoldSet, Reading!MapThenFoldSet, Max, Reading!Largest

LEMMA UnescapingIs == \A base, s : FoldLeft(Unescape, base, s) = Unescaping!Fold(base, s)
BY DEF Unescaping!Fold, FoldLeft, MapThenFoldSet, Unescaping!MapThenFoldSet, Max, Unescaping!Largest

LEMMA PuttingIs == \A base, s : FoldLeft(PutDirective, base, s) = Putting!Fold(base, s)
BY DEF Putting!Fold, FoldLeft, MapThenFoldSet, Putting!MapThenFoldSet, Max, Putting!Largest

LEMMA FlattenIs == \A ss : /\ FlattenSeq(ss) = Reading!Flat(ss)
                           /\ FlattenSeq(ss) = Unescaping!Flat(ss)
BY DEF FlattenSeq, Reading!Flat, Reading!TheFlat, Unescaping!Flat, Unescaping!TheFlat

LEMMA MaxIs ==
    ASSUME NEW I \in SUBSET Int, NEW m \in I, \A i \in I : i <= m
    PROVE  Max(I) = m
<1>1. \A x \in I : (\A y \in I : x >= y) <=> x = m
  OBVIOUS
<1> QED BY <1>1 DEF Max

LEMMA MaxIn ==
    ASSUME NEW n \in Nat, NEW I \in SUBSET (1 .. n), I # {}
    PROVE  Max(I) \in I /\ \A i \in I : i <= Max(I)
<1> DEFINE T == { k \in Nat : \E i \in I : k = n - i }
<1>1. T # {} /\ T \subseteq Nat
  <2>1. PICK i \in I : TRUE
    OBVIOUS
  <2>2. n - i \in T
    OBVIOUS
  <2> QED BY <2>2
<1>2. PICK x \in T : \A y \in T : x <= y
  <2> HIDE DEF T
  <2> QED BY <1>1, Reading!Least
<1>3. PICK m \in I : x = n - m
  BY <1>2
<1>4. \A i \in I : n - i \in T
  OBVIOUS
<1>5. \A i \in I : i <= m
  BY <1>2, <1>3, <1>4
<1> QED BY <1>5, MaxIs

LEMMA SeqWider ==
    ASSUME NEW S, NEW T, S \subseteq T, NEW s \in Seq(S) PROVE s \in Seq(T)
OBVIOUS

LEMMA SeqIs ==
    ASSUME NEW S, NEW n \in Nat, NEW s \in [1 .. n -> S] PROVE s \in Seq(S) /\ Len(s) = n
OBVIOUS

LEMMA FirstLetter ==
    ASSUME NEW S, NEW s \in Seq(S), Len(s) >= 1 PROVE SubSeq(s, 1, 1) = <<s[1]>>
<1> DEFINE t == SubSeq(s, 1, 1)
<1>1. t \in Seq(S) /\ Len(t) = 1 /\ t[1] = s[1]
  OBVIOUS
<1> HIDE DEF t
<1>2. t = <<t[1]>>
  BY <1>1
<1> QED BY <1>1, <1>2 DEF t

LEMMA NextLetter ==
    ASSUME NEW S, NEW s \in Seq(S), NEW i \in 1 .. Len(s)
    PROVE  SubSeq(s, 1, i) = Append(SubSeq(s, 1, i - 1), s[i])
OBVIOUS

LEMMA CutAt ==
    ASSUME NEW S, NEW s \in Seq(S), NEW k \in 1 .. Len(s)
    PROVE  s = (SubSeq(s, 1, k - 1) \o <<s[k]>>) \o SubSeq(s, k + 1, Len(s))
<1>1. SubSeq(s, 1, k) = SubSeq(s, 1, k - 1) \o <<s[k]>>
  OBVIOUS
<1>2. s = SubSeq(s, 1, k) \o SubSeq(s, k + 1, Len(s))
  OBVIOUS
<1> QED BY <1>1, <1>2

\* Every text is the text of its letters.
LEMMA FlattenLetters ==
    ASSUME NEW S, NEW s \in Seq(S)
    PROVE  FlattenSeq([i \in 1 .. Len(s) |-> <<s[i]>>]) = s
<1> DEFINE n == Len(s)
           ss == [i \in 1 .. n |-> <<s[i]>>]
           g == [i \in 1 .. n |-> SubSeq(s, 1, i)]
<1>0. n \in Nat /\ Len(ss) = n
  OBVIOUS
<1>1. CASE n = 0
  <2>1. s = <<>> /\ ss = <<>>
    BY <1>1
  <2> QED BY <2>1, FlattenIs, Reading!FlattenNone
<1>2. CASE n # 0
  <2>0. n \in Nat \ {0} /\ n \in 1 .. n /\ 1 \in 1 .. n
    BY <1>0, <1>2
  <2>1. n \in Nat \ {0} /\ g[1] = ss[1] /\ g[n] = s
    <3>1. SubSeq(s, 1, Len(s)) = s
      OBVIOUS
    <3>2. SubSeq(s, 1, 1) = <<s[1]>>
      <4>1. Len(s) >= 1
        BY <2>0
      <4> QED BY <4>1, FirstLetter
    <3> QED BY <2>0, <3>1, <3>2
  <2>2. ASSUME NEW i \in 2 .. n PROVE g[i] = g[i - 1] \o ss[i]
    <3>1. SubSeq(s, 1, i) = SubSeq(s, 1, i - 1) \o <<s[i]>>
      OBVIOUS
    <3>2. i \in 1 .. n /\ i - 1 \in 1 .. n
      BY <1>0
    <3> QED BY <3>1, <3>2
  <2> HIDE DEF g, ss, n
  <2>3. Reading!IsFlat(g, ss, n)
    BY <1>0, <2>1, <2>2 DEF Reading!IsFlat
  <2>4. Reading!Flat(ss) = g[n]
    BY Zenon, <2>1, <2>3, Reading!FlattenBy
  <2> QED BY <2>1, <2>4, FlattenIs DEF ss, n
<1> QED BY <1>1, <1>2

-----------------------------------------------------------------------------
(***************************************************************************)
(* The reader is outside of a quoted string, in one, or behind a backslash *)
(* in one.                                                                 *)
(***************************************************************************)
LEMMA LettersDiffer ==
    /\ Space # Comma /\ Space # Equals /\ Space # Quote /\ Space # Backslash
    /\ Comma # Equals /\ Comma # Quote /\ Comma # Backslash
    /\ Equals # Quote /\ Equals # Backslash /\ Quote # Backslash
BY Zenon DEF Space, Comma, Equals, Quote, Backslash

Modes == {"out", "in"}
Out(ps, p) == [parts |-> ps, part |-> p, inQuotes |-> FALSE, escape |-> FALSE]
In(ps, p) == [parts |-> ps, part |-> p, inQuotes |-> TRUE, escape |-> FALSE]
Escaping(ps, p) == [parts |-> ps, part |-> p, inQuotes |-> TRUE, escape |-> TRUE]
State(ps, p, mode) == IF mode = "in" THEN In(ps, p) ELSE Out(ps, p)

LEMMA ReadStep ==
    ASSUME NEW ps, NEW p
    PROVE  /\ \A c : c \notin {Comma, Quote, Backslash} =>
                ReadLetter(Out(ps, p), c) = Out(ps, Append(p, c))
           /\ \A c : c \notin {Quote, Backslash} =>
                ReadLetter(In(ps, p), c) = In(ps, Append(p, c))
           /\ ReadLetter(In(ps, p), Backslash) = Escaping(ps, Append(p, Backslash))
           /\ ReadLetter(Out(ps, p), Quote) = In(ps, Append(p, Quote))
           /\ ReadLetter(In(ps, p), Quote) = Out(ps, Append(p, Quote))
           /\ ReadLetter(Out(ps, p), Comma) = Out(Yield(Out(ps, p)), <<>>)
<1> USE DEF ReadLetter, Out, In, Escaping
<1>1. \A c : c \notin {Comma, Quote, Backslash} =>
         ReadLetter(Out(ps, p), c) = Out(ps, Append(p, c))
  OBVIOUS
<1>2. \A c : c \notin {Quote, Backslash} => ReadLetter(In(ps, p), c) = In(ps, Append(p, c))
  OBVIOUS
<1>4. ReadLetter(In(ps, p), Backslash) = Escaping(ps, Append(p, Backslash))
  BY LettersDiffer
<1>5. ReadLetter(Out(ps, p), Quote) = In(ps, Append(p, Quote))
  BY LettersDiffer
<1>6. ReadLetter(In(ps, p), Quote) = Out(ps, Append(p, Quote))
  BY LettersDiffer
<1>7. ReadLetter(Out(ps, p), Comma) = Out(Yield(Out(ps, p)), <<>>)
  OBVIOUS
<1> QED BY <1>1, <1>2, <1>4, <1>5, <1>6, <1>7

LEMMA ReadEscaped == \A ps, p, c : ReadLetter(Escaping(ps, p), c) = In(ps, Append(p, c))
<1> SUFFICES ASSUME NEW ps, NEW p, NEW c
             PROVE  ReadLetter(Escaping(ps, p), c) = In(ps, Append(p, c))
  OBVIOUS
<1> QED BY DEF ReadLetter, In, Escaping

LEMMA ReadPlain ==
    ASSUME NEW ps, NEW p, NEW mode \in Modes, NEW c, c \notin {Quote, Backslash},
           c # Comma \/ mode = "in"
    PROVE  ReadLetter(State(ps, p, mode), c) = State(ps, Append(p, c), mode)
BY ReadStep DEF State, Modes

LEMMA ReadConcat ==
    \A base : \A s, t \in Seq(Letter) :
        Reading!Fold(base, s \o t) = Reading!Fold(Reading!Fold(base, s), t)
BY Reading!FoldConcat

LEMMA UnescapeConcat ==
    \A base : \A s, t \in Seq(Letter) :
        Unescaping!Fold(base, s \o t) = Unescaping!Fold(Unescaping!Fold(base, s), t)
BY Unescaping!FoldConcat

\* Texts that the reader takes as they are, outside of quotes or within.
Quiet(mode) ==
    { x \in Seq(Letter) : \A ps : \A p \in Seq(Letter) :
        Reading!Fold(State(ps, p, mode), x) = State(ps, p \o x, mode) }

LEMMA QuietConcat ==
    ASSUME NEW mode, NEW x \in Quiet(mode), NEW y \in Quiet(mode) PROVE x \o y \in Quiet(mode)
<1>1. x \in Seq(Letter) /\ y \in Seq(Letter) /\ x \o y \in Seq(Letter)
  BY DEF Quiet
<1>2. ASSUME NEW ps, NEW p \in Seq(Letter)
      PROVE  Reading!Fold(State(ps, p, mode), x \o y) = State(ps, p \o (x \o y), mode)
  <2> DEFINE r == State(ps, p, mode)
  <2>1. Reading!Fold(r, x \o y) = Reading!Fold(Reading!Fold(r, x), y)
    <3> HIDE DEF r
    <3> QED BY <1>1, Reading!FoldConcat
  <2>2. Reading!Fold(r, x) = State(ps, p \o x, mode)
    BY DEF Quiet
  <2>3. p \o x \in Seq(Letter)
    BY <1>1
  <2>4. Reading!Fold(State(ps, p \o x, mode), y) = State(ps, (p \o x) \o y, mode)
    BY <2>3 DEF Quiet
  <2>5. (p \o x) \o y = p \o (x \o y)
    BY <1>1
  <2> HIDE DEF r
  <2> QED BY <2>1, <2>2, <2>4, <2>5 DEF r
<1> QED BY <1>1, <1>2 DEF Quiet

LEMMA QuietNone == \A mode : <<>> \in Quiet(mode)
<1> SUFFICES ASSUME NEW mode PROVE <<>> \in Quiet(mode)
  OBVIOUS
<1>1. ASSUME NEW ps, NEW p \in Seq(Letter)
      PROVE  Reading!Fold(State(ps, p, mode), <<>>) = State(ps, p \o <<>>, mode)
  <2>1. p \o <<>> = p
    OBVIOUS
  <2>2. Reading!Fold(State(ps, p, mode), <<>>) = State(ps, p, mode)
    BY Reading!FoldNone
  <2> QED BY <2>1, <2>2
<1>2. <<>> \in Seq(Letter)
  OBVIOUS
<1> QED BY <1>1, <1>2 DEF Quiet

LEMMA OneLetter ==
    ASSUME NEW p \in Seq(Letter), NEW c \in Letter
    PROVE  <<c>> \in Seq(Letter) /\ p \o <<c>> = Append(p, c) /\ Append(p, c) \in Seq(Letter)
OBVIOUS

LEMMA QuietLetter ==
    ASSUME NEW mode \in Modes, NEW c \in Letter,
           c \notin {Quote, Backslash}, c # Comma \/ mode = "in"
    PROVE  <<c>> \in Quiet(mode)
<1>1. ASSUME NEW ps, NEW p \in Seq(Letter)
      PROVE  Reading!Fold(State(ps, p, mode), <<c>>) = State(ps, p \o <<c>>, mode)
  <2>1. Reading!Fold(State(ps, p, mode), <<c>>) = ReadLetter(State(ps, p, mode), c)
    BY Reading!FoldOne
  <2>2. ReadLetter(State(ps, p, mode), c) = State(ps, Append(p, c), mode)
    BY ReadPlain
  <2> QED BY <2>1, <2>2, OneLetter
<1>2. <<c>> \in Seq(Letter)
  OBVIOUS
<1> QED BY <1>1, <1>2 DEF Quiet

LEMMA QuietFlatten ==
    ASSUME NEW mode, NEW ss \in Seq(Quiet(mode)) PROVE FlattenSeq(ss) \in Quiet(mode)
<1>1. Quiet(mode) \in SUBSET Seq(Letter)
  BY DEF Quiet
<1>2. \A x, y \in Quiet(mode) : x \o y \in Quiet(mode)
  BY QuietConcat
<1>3. <<>> \in Quiet(mode)
  BY QuietNone
<1>4. Reading!Flat(ss) \in Quiet(mode)
  BY Zenon, <1>1, <1>2, <1>3, Reading!FlattenClosed
<1> QED BY <1>4, FlattenIs

\* A text without quotes, commas and backslashes.
LEMMA QuietPlain ==
    ASSUME NEW x \in Seq(Letter), \A i \in 1 .. Len(x) : x[i] \notin {Comma, Quote, Backslash}
    PROVE  x \in Quiet("out")
<1> DEFINE ss == [i \in 1 .. Len(x) |-> <<x[i]>>]
<1>1. ASSUME NEW i \in 1 .. Len(x) PROVE <<x[i]>> \in Quiet("out")
  <2>1. x[i] \in Letter /\ x[i] \notin {Quote, Backslash} /\ x[i] # Comma /\ "out" \in Modes
    BY DEF Modes
  <2> QED BY Zenon, <2>1, QuietLetter
<1>2. ss \in Seq(Quiet("out"))
  <2> DEFINE Q == Quiet("out")
  <2>1. \A i \in 1 .. Len(x) : <<x[i]>> \in Q
    BY <1>1
  <2> HIDE DEF Q
  <2>2. ss \in Seq(Q)
    BY <2>1
  <2> QED BY <2>2 DEF Q
<1>3. FlattenSeq(ss) = x
  BY FlattenLetters
<1> HIDE DEF ss
<1> QED BY <1>2, <1>3, QuietFlatten

-----------------------------------------------------------------------------
\* How a letter is written in a quoted string.
Pair(c, pairs) == IF pairs \/ c \in {Quote, Backslash} THEN <<Backslash, c>> ELSE <<c>>

LEMMA QuotedIs ==
    ASSUME NEW s \in Seq(Letter), NEW pairs
    PROVE  Quoted(s, pairs)
           = <<Quote>> \o FlattenSeq([i \in 1 .. Len(s) |-> Pair(s[i], pairs)]) \o <<Quote>>
<1>1. DOMAIN s = 1 .. Len(s)
  OBVIOUS
<1> QED BY <1>1 DEF Quoted, Pair

LEMMA QuietPair ==
    ASSUME NEW c \in Letter, NEW pairs PROVE Pair(c, pairs) \in Quiet("in")
<1>1. CASE Pair(c, pairs) = <<c>> /\ c \notin {Quote, Backslash}
  <2>1. "in" \in Modes
    BY DEF Modes
  <2> QED BY Zenon, <1>1, <2>1, QuietLetter
<1>2. CASE Pair(c, pairs) = <<Backslash, c>>
  <2>1. /\ Backslash \in Letter /\ <<Backslash, c>> \in Seq(Letter)
        /\ <<Backslash, c>> = <<Backslash>> \o <<c>>
        /\ <<Backslash>> \in Seq(Letter) /\ <<c>> \in Seq(Letter)
    BY LetterAssumption
  <2>2. ASSUME NEW ps, NEW p \in Seq(Letter)
        PROVE  Reading!Fold(In(ps, p), <<Backslash, c>>) = In(ps, p \o <<Backslash, c>>)
    <3> DEFINE u == Append(p, Backslash)
    <3>1. Reading!Fold(In(ps, p), <<Backslash>> \o <<c>>)
          = Reading!Fold(Reading!Fold(In(ps, p), <<Backslash>>), <<c>>)
      BY Zenon, <2>1, ReadConcat
    <3>2. Reading!Fold(In(ps, p), <<Backslash>>) = Escaping(ps, u)
      <4>1. Reading!Fold(In(ps, p), <<Backslash>>) = ReadLetter(In(ps, p), Backslash)
        BY Reading!FoldOne
      <4> QED BY <4>1, ReadStep
    <3>3. Reading!Fold(Escaping(ps, u), <<c>>) = In(ps, Append(u, c))
      <4> HIDE DEF u
      <4>1. Reading!Fold(Escaping(ps, u), <<c>>) = ReadLetter(Escaping(ps, u), c)
        BY Reading!FoldOne
      <4>2. ReadLetter(Escaping(ps, u), c) = In(ps, Append(u, c))
        BY Zenon, ReadEscaped
      <4> QED BY <4>1, <4>2
    <3>4. Append(u, c) = p \o <<Backslash, c>>
      BY <2>1
    <3> HIDE DEF u
    <3> QED BY <2>1, <3>1, <3>2, <3>3, <3>4
  <2> QED BY <1>2, <2>1, <2>2 DEF Quiet, State
<1> QED BY <1>1, <1>2 DEF Pair

\* A quoted string is one element, with all its commas.
LEMMA QuietQuoted ==
    ASSUME NEW s \in Seq(Letter), NEW pairs PROVE Quoted(s, pairs) \in Quiet("out")
<1>0. \A x, y, z \in Seq(Letter) : x \o (y \o z) = (x \o y) \o z
  OBVIOUS
<1> DEFINE ss == [i \in 1 .. Len(s) |-> Pair(s[i], pairs)]
           t == FlattenSeq(ss)
           q == <<Quote>>
<1>1. ss \in Seq(Quiet("in"))
  <2>1. \A i \in 1 .. Len(s) : Pair(s[i], pairs) \in Quiet("in")
    BY QuietPair
  <2> QED BY <2>1
<1>2. t \in Quiet("in")
  BY <1>1, QuietFlatten
<1>3. Quoted(s, pairs) = (q \o t) \o q
  BY QuotedIs
<1>4. q \in Seq(Letter) /\ t \in Seq(Letter) /\ Quote \in Letter
  BY <1>2, LetterAssumption DEF Quiet
<1>5. q \o t \in Seq(Letter) /\ (q \o t) \o q \in Seq(Letter)
  BY <1>4
<1> HIDE DEF t
<1>6. ASSUME NEW ps, NEW p \in Seq(Letter)
      PROVE  Reading!Fold(Out(ps, p), (q \o t) \o q) = Out(ps, p \o ((q \o t) \o q))
  <2> DEFINE u == Append(p, Quote)
             v == u \o t
  <2>1. u \in Seq(Letter) /\ v \in Seq(Letter) /\ Append(v, Quote) = p \o ((q \o t) \o q)
    <3>1. u = p \o q /\ u \in Seq(Letter)
      BY <1>4
    <3>2. v \in Seq(Letter)
      BY <1>4, <3>1
    <3>5. Append(v, Quote) = v \o q
      BY <1>4, <3>2
    <3>4. p \o ((q \o t) \o q) = (p \o (q \o t)) \o q /\ p \o (q \o t) = (p \o q) \o t
      BY <1>0, <1>4, <1>5
    <3> QED BY <3>1, <3>2, <3>4, <3>5
  <2>2. Reading!Fold(Out(ps, p), q) = In(ps, u)
    <3>1. Reading!Fold(Out(ps, p), q) = ReadLetter(Out(ps, p), Quote)
      BY Reading!FoldOne
    <3> QED BY <3>1, ReadStep
  <2>3. Reading!Fold(In(ps, u), t) = In(ps, v)
    BY <1>2, <2>1 DEF Quiet, State
  <2>4. Reading!Fold(In(ps, v), q) = Out(ps, Append(v, Quote))
    <3>1. Reading!Fold(In(ps, v), q) = ReadLetter(In(ps, v), Quote)
      BY Reading!FoldOne
    <3> QED BY <3>1, ReadStep
  <2> HIDE DEF q, u, v
  <2>5. Reading!Fold(Out(ps, p), q \o t) = In(ps, v)
    <3>1. Reading!Fold(Out(ps, p), q \o t) = Reading!Fold(Reading!Fold(Out(ps, p), q), t)
      BY Zenon, <1>4, ReadConcat
    <3> QED BY <2>2, <2>3, <3>1
  <2>6. Reading!Fold(Out(ps, p), (q \o t) \o q) = Reading!Fold(Reading!Fold(Out(ps, p), q \o t), q)
    BY Zenon, <1>4, <1>5, ReadConcat
  <2> QED BY <2>1, <2>4, <2>5, <2>6
<1> HIDE DEF q
<1> QED BY <1>3, <1>5, <1>6 DEF Quiet, State

(***************************************************************************)
(* A quoted string is unescaped to the text that it was made of.           *)
(***************************************************************************)
Read(out, escape) == [out |-> out, escape |-> escape, ok |-> TRUE]

LEMMA UnescapeStep ==
    ASSUME NEW out, NEW c
    PROVE  /\ Unescape(Read(out, TRUE), c) = Read(Append(out, c), FALSE)
           /\ Unescape(Read(out, FALSE), Backslash) = Read(out, TRUE)
           /\ c \notin {Quote, Backslash} => Unescape(Read(out, FALSE), c) = Read(Append(out, c), FALSE)
<1> USE DEF Unescape, Read
<1>1. Unescape(Read(out, TRUE), c) = Read(Append(out, c), FALSE)
  OBVIOUS
<1>2. Unescape(Read(out, FALSE), Backslash) = Read(out, TRUE)
  BY LettersDiffer
<1>3. c \notin {Quote, Backslash} => Unescape(Read(out, FALSE), c) = Read(Append(out, c), FALSE)
  OBVIOUS
<1> QED BY <1>1, <1>2, <1>3

LEMMA UnescapePair ==
    ASSUME NEW out, NEW c \in Letter, NEW pairs
    PROVE  Unescaping!Fold(Read(out, FALSE), Pair(c, pairs)) = Read(Append(out, c), FALSE)
<1>1. CASE Pair(c, pairs) = <<c>> /\ c \notin {Quote, Backslash}
  <2>1. Unescaping!Fold(Read(out, FALSE), <<c>>) = Unescape(Read(out, FALSE), c)
    BY Unescaping!FoldOne
  <2> QED BY <1>1, <2>1, UnescapeStep
<1>2. CASE Pair(c, pairs) = <<Backslash, c>>
  <2>1. /\ <<Backslash, c>> = <<Backslash>> \o <<c>>
        /\ <<Backslash>> \in Seq(Letter) /\ <<c>> \in Seq(Letter)
    BY LetterAssumption
  <2>2. Unescaping!Fold(Read(out, FALSE), <<Backslash>> \o <<c>>)
        = Unescaping!Fold(Unescaping!Fold(Read(out, FALSE), <<Backslash>>), <<c>>)
    BY Zenon, <2>1, UnescapeConcat
  <2>3. Unescaping!Fold(Read(out, FALSE), <<Backslash>>) = Unescape(Read(out, FALSE), Backslash)
    BY Unescaping!FoldOne
  <2>4. Unescaping!Fold(Read(out, TRUE), <<c>>) = Unescape(Read(out, TRUE), c)
    BY Unescaping!FoldOne
  <2> QED BY <1>2, <2>1, <2>2, <2>3, <2>4, UnescapeStep
<1> QED BY <1>1, <1>2 DEF Pair

LEMMA QuotedReadBack ==
    ASSUME NEW s \in Seq(Letter), NEW pairs
    PROVE  ParseQuotedString(Quoted(s, pairs)) = s
<1> DEFINE n == Len(s)
           ss == [i \in 1 .. n |-> Pair(s[i], pairs)]
           t == FlattenSeq(ss)
           q == Quoted(s, pairs)
           h == [i \in 0 .. n |-> Read(SubSeq(s, 1, i), FALSE)]
<1>1. n \in Nat /\ ss \in Seq(Seq(Letter)) /\ Len(ss) = n
  <2>1. \A i \in 1 .. n : Pair(s[i], pairs) \in Seq(Letter)
    BY LetterAssumption DEF Pair
  <2> QED BY <2>1
<1>2. t \in Seq(Letter)
  BY <1>1, FlattenIs, Reading!FlattenType
<1>3. q = <<Quote>> \o t \o <<Quote>>
  BY QuotedIs
<1>4. Quote \in Letter
  BY LetterAssumption
<1>5. SubSeq(q, 2, Len(q) - 1) = t /\ Len(q) >= 2 /\ q[1] = Quote /\ q[Len(q)] = Quote
  <2> HIDE DEF t, q
  <2>1. q \in Seq(Letter) /\ Len(q) = Len(t) + 2 /\ q[1] = Quote /\ q[Len(q)] = Quote
    BY <1>2, <1>3, <1>4
  <2>2. \A i \in 1 .. Len(t) : q[i + 1] = t[i]
    BY <1>2, <1>3, <1>4
  <2>3. SubSeq(q, 2, Len(q) - 1) = t
    BY <1>2, <2>1, <2>2
  <2>4. Len(t) \in Nat
    BY <1>2
  <2> QED BY <2>1, <2>3, <2>4
<1>6. h[0] = Read(<<>>, FALSE) /\ h[n] = Read(s, FALSE)
  <2>1. SubSeq(s, 1, 0) = <<>> /\ SubSeq(s, 1, n) = s
    OBVIOUS
  <2>2. 0 \in 0 .. n /\ n \in 0 .. n
    BY <1>1
  <2> QED BY <2>1, <2>2
<1>7. ASSUME NEW i \in 1 .. n PROVE h[i] = Unescaping!Fold(h[i - 1], ss[i])
  <2>1. i \in 0 .. n /\ i - 1 \in 0 .. n /\ s[i] \in Letter
    BY <1>1
  <2>2. h[i] = Read(SubSeq(s, 1, i), FALSE) /\ h[i - 1] = Read(SubSeq(s, 1, i - 1), FALSE)
        /\ ss[i] = Pair(s[i], pairs)
    BY <2>1
  <2>3. SubSeq(s, 1, i) = Append(SubSeq(s, 1, i - 1), s[i])
    BY NextLetter
  <2> HIDE DEF h, ss
  <2> QED BY <2>1, <2>2, <2>3, UnescapePair
<1> HIDE DEF h, ss, n, q
<1>8. Unescaping!Fold(Read(<<>>, FALSE), t) = Read(s, FALSE)
  <2>1. Unescaping!Fold(Read(<<>>, FALSE), Unescaping!Flat(ss)) = h[Len(ss)]
    BY <1>1, <1>6, <1>7, Unescaping!FoldFlatten
  <2> QED BY <1>1, <1>6, <2>1, FlattenIs
<1> HIDE DEF t
<1>9. FoldLeft(Unescape, Read(<<>>, FALSE), SubSeq(q, 2, Len(q) - 1)) = Read(s, FALSE)
  BY <1>5, <1>8, UnescapingIs
<1>10. ParseQuotedString(q) = s
  BY <1>5, <1>9 DEF ParseQuotedString, Read
<1> QED BY <1>10 DEF q

-----------------------------------------------------------------------------
(***************************************************************************)
(* Lists.  A text is tight when it neither begins nor ends with a space.   *)
(***************************************************************************)
Blanks == Seq({Space})
Tight == { x \in Seq(Letter) : Len(x) > 0 /\ x[1] # Space /\ x[Len(x)] # Space }

LEMMA BlankLetters ==
    ASSUME NEW b \in Blanks
    PROVE  /\ b \in Seq(Letter) /\ Len(b) \in Nat /\ DOMAIN b = 1 .. Len(b)
           /\ \A i \in 1 .. Len(b) : b[i] = Space
<1>1. {Space} \subseteq Letter
  BY LetterAssumption
<1>2. b \in Seq({Space})
  BY DEF Blanks
<1>3. b \in Seq(Letter)
  BY Zenon, <1>1, <1>2, SeqWider
<1> QED BY <1>2, <1>3

LEMMA TrimBlank == ASSUME NEW b \in Blanks PROVE TrimString(b) = <<>>
BY BlankLetters DEF TrimString

LEMMA TrimTight ==
    ASSUME NEW b \in Blanks, NEW x \in Tight, NEW c \in Blanks
    PROVE  TrimString((b \o x) \o c) = x
<1> DEFINE t == (b \o x) \o c
           m == Len(b) + 1
           n == Len(b) + Len(x)
           kept == { i \in DOMAIN t : t[i] # Space }
<1>1. /\ b \in Seq(Letter) /\ Len(b) \in Nat /\ \A i \in 1 .. Len(b) : b[i] = Space
      /\ c \in Seq(Letter) /\ Len(c) \in Nat /\ \A i \in 1 .. Len(c) : c[i] = Space
  BY BlankLetters
<1>2. x \in Seq(Letter) /\ Len(x) \in Nat /\ Len(x) > 0 /\ x[1] # Space /\ x[Len(x)] # Space
  BY DEF Tight
<1>3. /\ t \in Seq(Letter) /\ Len(t) = n + Len(c) /\ DOMAIN t = 1 .. Len(t)
      /\ \A i \in 1 .. Len(b) : t[i] = b[i]
      /\ \A i \in m .. n : t[i] = x[i - Len(b)]
      /\ \A i \in n + 1 .. Len(t) : t[i] = c[i - n]
  BY <1>1, <1>2
<1>4. t[m] = x[1] /\ t[n] = x[Len(x)]
  <2>1. m \in m .. n /\ n \in m .. n /\ m - Len(b) = 1 /\ n - Len(b) = Len(x)
    BY <1>1, <1>2
  <2> QED BY <1>3, <2>1
<1>5. m \in Int /\ n \in Int /\ m <= n /\ m \in 1 .. Len(t) /\ n \in 1 .. Len(t)
  BY <1>1, <1>2, <1>3
<1>6. SubSeq(t, m, n) = x
  <2> HIDE DEF t
  <2>1. \A i \in 1 .. Len(x) : t[i + Len(b)] = x[i]
    <3> TAKE i \in 1 .. Len(x)
    <3>1. i + Len(b) \in m .. n /\ (i + Len(b)) - Len(b) = i
      BY <1>1, <1>2
    <3> QED BY <1>3, <3>1
  <2> QED BY <1>1, <1>2, <1>3, <1>5, <2>1
<1> HIDE DEF t
<1>7. m \in kept /\ n \in kept
  BY <1>2, <1>3, <1>4, <1>5
<1>8. ASSUME NEW i \in kept PROVE i \in Int /\ m <= i /\ i <= n
  <2>1. i \in 1 .. Len(t) /\ t[i] # Space
    BY <1>3
  <2>2. ~ i \in 1 .. Len(b)
    BY <1>1, <1>3, <2>1
  <2>3. ~ i \in n + 1 .. Len(t)
    <3> SUFFICES ASSUME i \in n + 1 .. Len(t) PROVE FALSE
      OBVIOUS
    <3>1. i - n \in 1 .. Len(c)
      BY <1>1, <1>3, <1>5
    <3> QED BY <1>1, <1>3, <2>1, <3>1
  <2> QED BY <1>1, <1>3, <1>5, <2>1, <2>2, <2>3
<1> HIDE DEF kept
<1>9. Min(kept) = m
  <2>1. \A y \in kept : (\A z \in kept : y <= z) <=> y = m
    BY <1>5, <1>7, <1>8
  <2> QED BY <1>7, <2>1 DEF Min
<1>10. Max(kept) = n
  BY <1>5, <1>7, <1>8, MaxIs
<1> QED BY <1>6, <1>7, <1>9, <1>10 DEF TrimString, kept, t

LEMMA TrimIs == ASSUME NEW x \in Tight \cup {<<>>} PROVE TrimString(x) = x
<1>1. <<>> \in Blanks
  BY DEF Blanks
<1>2. CASE x \in Tight
  <2>1. x \in Seq(Letter)
    BY <1>2 DEF Tight
  <2>2. (<<>> \o x) \o <<>> = x
    BY <2>1
  <2>3. TrimString((<<>> \o x) \o <<>>) = x
    BY Zenon, <1>1, <1>2, TrimTight
  <2> QED BY Zenon, <2>2, <2>3
<1>3. CASE x = <<>>
  BY <1>1, <1>3, TrimBlank
<1> QED BY <1>2, <1>3

\* Commas and spaces alone yield nothing.
LEMMA BlankRead ==
    ASSUME NEW ps, NEW s \in Seq({Space, Comma})
    PROVE  \E c \in Blanks : Reading!Fold(Out(ps, <<>>), s) = Out(ps, c)
<1> DEFINE n == Len(s)
           base == Out(ps, <<>>)
<1>1. n \in Nat /\ DOMAIN s = 1 .. n /\ \A i \in 1 .. n : s[i] \in {Space, Comma}
  OBVIOUS
<1> HIDE DEF n
<1>2. PICK g : Reading!IsRun(g, base, s, n)
  BY <1>1, Reading!FoldRun
<1>3. Reading!Fold(base, s) = g[n]
  BY Zenon, <1>1, <1>2, Reading!FoldBy
<1> DEFINE T == { i \in 0 .. n : \E c \in Blanks : g[i] = Out(ps, c) }
<1>4. <<>> \in Blanks /\ \A c \in Blanks : Append(c, Space) \in Blanks
  BY DEF Blanks
<1>5. 0 \in T
  <2>1. g[0] = Out(ps, <<>>) /\ 0 \in 0 .. n
    BY <1>1, <1>2 DEF Reading!IsRun
  <2> QED BY <1>4, <2>1
<1>6. \A i \in 0 .. n - 1 : i \in T => i + 1 \in T
  <2> SUFFICES ASSUME NEW i \in 0 .. n - 1, i \in T PROVE i + 1 \in T
    OBVIOUS
  <2>1. PICK c \in Blanks : g[i] = Out(ps, c)
    OBVIOUS
  <2>2. i + 1 \in 1 .. n /\ (i + 1) - 1 = i /\ i + 1 \in 0 .. n
    BY <1>1
  <2>3. g[i + 1] = ReadLetter(Out(ps, c), s[i + 1])
    BY <1>2, <2>1, <2>2 DEF Reading!IsRun
  <2>4. CASE s[i + 1] = Space
    <3>1. ReadLetter(Out(ps, c), Space) = Out(ps, Append(c, Space))
      BY LettersDiffer, ReadStep
    <3> QED BY <1>4, <2>2, <2>3, <2>4, <3>1
  <2>5. CASE s[i + 1] = Comma
    <3>1. ReadLetter(Out(ps, c), Comma) = Out(Yield(Out(ps, c)), <<>>)
      BY ReadStep
    <3>2. Yield(Out(ps, c)) = ps
      BY TrimBlank DEF Yield, Out
    <3> QED BY <1>4, <2>2, <2>3, <2>5, <3>1, <3>2
  <2> QED BY <1>1, <2>2, <2>4, <2>5
<1>7. n \in T
  <2> HIDE DEF T
  <2>1. 0 \in Int /\ n \in Int /\ n \in 0 .. n
    BY <1>1
  <2> QED BY Zenon, <1>5, <1>6, <2>1, Reading!UpTo
<1> QED BY <1>3, <1>7

IsSeparator(s) == s \in Seq({Space, Comma}) /\ \E i \in DOMAIN s : s[i] = Comma

\* A separator ends an element.
LEMMA SeparatorRead ==
    ASSUME NEW ps, NEW b \in Blanks, NEW x \in Tight, NEW s, IsSeparator(s)
    PROVE  \E c \in Blanks : Reading!Fold(Out(ps, b \o x), s) = Out(Append(ps, x), c)
<1> DEFINE K == { i \in Nat : i \in DOMAIN s /\ s[i] = Comma }
<1>1. s \in Seq({Space, Comma}) /\ DOMAIN s = 1 .. Len(s) /\ Len(s) \in Nat
      /\ \A i \in 1 .. Len(s) : s[i] \in {Space, Comma}
  BY DEF IsSeparator
<1>2. K # {} /\ K \subseteq Nat
  BY <1>1 DEF IsSeparator
<1>3. PICK k \in K : \A i \in K : k <= i
  <2> HIDE DEF K
  <2> QED BY <1>2, Reading!Least
<1> DEFINE u == SubSeq(s, 1, k - 1)
           v == SubSeq(s, k + 1, Len(s))
           p == (b \o x) \o u
<1>4. k \in 1 .. Len(s) /\ s[k] = Comma /\ \A i \in 1 .. k - 1 : s[i] = Space
  BY <1>1, <1>3
<1>5. u \in Blanks
  <2>1. Len(u) = k - 1 /\ \A i \in 1 .. k - 1 : u[i] = Space
    BY <1>1, <1>4
  <2>3. u \in Seq({Space, Comma}) /\ k - 1 \in Nat
    BY <1>1, <1>4
  <2> HIDE DEF u
  <2>2. u \in [1 .. k - 1 -> {Space}] /\ k - 1 \in Nat
    BY <2>1, <2>3
  <2> QED BY <2>2, SeqIs DEF Blanks
<1>6. v \in Seq({Space, Comma})
  BY <1>1, <1>4
<1>7. s = (u \o <<Comma>>) \o v
  BY Zenon, <1>1, <1>4, CutAt
<1>8. /\ u \in Seq(Letter) /\ v \in Seq(Letter) /\ <<Comma>> \in Seq(Letter)
      /\ b \o x \in Seq(Letter) /\ u \o <<Comma>> \in Seq(Letter)
  <2>1. {Space, Comma} \subseteq Letter
    BY LetterAssumption
  <2>2. u \in Seq(Letter) /\ b \in Seq(Letter)
    BY <1>5, BlankLetters
  <2> HIDE DEF u, v
  <2>3. v \in Seq(Letter)
    BY Zenon, <1>6, <2>1, SeqWider
  <2>4. x \in Seq(Letter) /\ <<Comma>> \in Seq(Letter)
    BY <2>1 DEF Tight
  <2> QED BY <2>2, <2>3, <2>4
<1> HIDE DEF u, v
<1>9. Reading!Fold(Out(ps, b \o x), u) = Out(ps, p)
  <2>1. \A i \in 1 .. Len(u) : u[i] \notin {Comma, Quote, Backslash}
    BY <1>5, BlankLetters, LettersDiffer
  <2>2. u \in Quiet("out")
    BY <1>8, <2>1, QuietPlain
  <2> QED BY <1>8, <2>2 DEF Quiet, State
<1>10. Reading!Fold(Out(ps, p), <<Comma>>) = Out(Append(ps, x), <<>>)
  <2>1. TrimString(p) = x
    BY <1>5, TrimTight
  <2>2. x # <<>>
    BY DEF Tight
  <2> HIDE DEF p
  <2>3. Yield(Out(ps, p)) = Append(ps, x)
    BY <2>1, <2>2 DEF Yield, Out
  <2>4. Reading!Fold(Out(ps, p), <<Comma>>) = ReadLetter(Out(ps, p), Comma)
    BY Reading!FoldOne
  <2>5. ReadLetter(Out(ps, p), Comma) = Out(Yield(Out(ps, p)), <<>>)
    BY ReadStep
  <2> QED BY <2>3, <2>4, <2>5
<1>11. PICK c \in Blanks : Reading!Fold(Out(Append(ps, x), <<>>), v) = Out(Append(ps, x), c)
  BY <1>6, BlankRead
<1> DEFINE base == Out(ps, b \o x)
<1> HIDE DEF base, p
<1>12. Reading!Fold(base, u \o <<Comma>>) = Reading!Fold(Reading!Fold(base, u), <<Comma>>)
  BY Zenon, <1>8, ReadConcat
<1>13. Reading!Fold(base, (u \o <<Comma>>) \o v)
       = Reading!Fold(Reading!Fold(base, u \o <<Comma>>), v)
  BY Zenon, <1>8, ReadConcat
<1>14. Reading!Fold(base, s) = Out(Append(ps, x), c)
  BY <1>7, <1>9, <1>10, <1>11, <1>12, <1>13 DEF base
<1> QED BY <1>14 DEF base

(***************************************************************************)
(* A list whose elements are tight texts that the reader takes as they are *)
(* is read as it was written, whatever separates them.                     *)
(***************************************************************************)
LEMMA ListReadBack ==
    ASSUME NEW texts \in Seq(Tight \cap Quiet("out")), NEW separator, IsSeparator(separator)
    PROVE  TrimmedCSV(Join(texts, separator)) = texts
<1> DEFINE n == Len(texts)
           ss == [i \in 1 .. n |-> IF i = 1 THEN texts[i] ELSE separator \o texts[i]]
           W == Tight \cap Quiet("out")
<1>1. /\ n \in Nat /\ DOMAIN texts = 1 .. n /\ Len(ss) = n
      /\ \A i \in 1 .. n : texts[i] \in W
  OBVIOUS
<1>2. Join(texts, separator) = FlattenSeq(ss)
  BY <1>1 DEF Join
<1>3. separator \in Seq(Letter)
  <2>1. {Space, Comma} \subseteq Letter /\ separator \in Seq({Space, Comma})
    BY LetterAssumption DEF IsSeparator
  <2> QED BY Zenon, <2>1, SeqWider
<1>4. \A i \in 1 .. n : texts[i] \in Seq(Letter) /\ texts[i] \in Tight /\ texts[i] \in Quiet("out")
  BY <1>1 DEF Tight
<1>5. ss \in Seq(Seq(Letter))
  <2>1. \A i \in 1 .. n : ss[i] \in Seq(Letter)
    BY <1>3, <1>4
  <2> HIDE DEF n
  <2>2. ss \in [1 .. n -> Seq(Letter)]
    BY <2>1
  <2> HIDE DEF ss
  <2> QED BY Zenon, <1>1, <2>2, SeqIs
<1>6. Reader = Out(<<>>, <<>>)
  BY DEF Reader, Out
<1>7. <<>> \in Blanks /\ <<>> \in Seq(Letter)
  BY DEF Blanks
<1>8. CASE n = 0
  <2>1. texts = <<>> /\ ss = <<>>
    BY <1>8
  <2>2. FlattenSeq(ss) = <<>>
    BY <2>1, FlattenIs, Reading!FlattenNone
  <2>3. FoldLeft(ReadLetter, Reader, <<>>) = Reader
    BY ReadingIs, Reading!FoldNone
  <2>4. Yield(Reader) = <<>>
    BY <1>6, <1>7, TrimBlank DEF Yield, Out
  <2> QED BY <1>2, <2>1, <2>2, <2>3, <2>4 DEF TrimmedCSV
<1>9. CASE n # 0
  <2>1. n \in Nat \ {0} /\ n \in 1 .. n /\ 1 \in 1 .. n
    BY <1>1, <1>9
  <2>2. PICK g \in [1 .. n -> Seq(Letter)] : Reading!IsFlat(g, ss, n)
    <3> HIDE DEF n, ss
    <3> QED BY <1>1, <1>5, <2>1, Reading!FlatRun
  <2>3. FlattenSeq(ss) = g[n]
    <3>1. Reading!Flat(ss) = g[n]
      <4> HIDE DEF n, ss
      <4> QED BY Zenon, <2>1, <2>2, Reading!FlattenBy
    <3> QED BY <3>1, FlattenIs
  <2>4. g[1] = texts[1] /\ \A i \in 2 .. n : g[i] = g[i - 1] \o (separator \o texts[i])
    <3>1. g[1] = ss[1] /\ \A i \in 2 .. n : g[i] = g[i - 1] \o ss[i]
      BY <2>2 DEF Reading!IsFlat
    <3>2. ss[1] = texts[1] /\ \A i \in 2 .. n : ss[i] = separator \o texts[i]
      BY <2>1
    <3> HIDE DEF ss, n
    <3> QED BY <3>1, <3>2
  <2> DEFINE Done(i, b) == Out(SubSeq(texts, 1, i - 1), b \o texts[i])
             T == { i \in 1 .. n : \E b \in Blanks : Reading!Fold(Reader, g[i]) = Done(i, b) }
  <2>5. 1 \in T
    <3>1. Reading!Fold(Out(<<>>, <<>>), texts[1]) = Out(<<>>, <<>> \o texts[1])
      BY <1>4, <1>7, <2>1 DEF Quiet, State
    <3>2. SubSeq(texts, 1, 1 - 1) = <<>>
      OBVIOUS
    <3>3. Reading!Fold(Reader, g[1]) = Done(1, <<>>)
      BY <1>6, <2>4, <3>1, <3>2
    <3> QED BY <1>7, <2>1, <3>3
  <2>6. \A i \in 1 .. n - 1 : i \in T => i + 1 \in T
    <3> SUFFICES ASSUME NEW i \in 1 .. n - 1, i \in T PROVE i + 1 \in T
      OBVIOUS
    <3>1. PICK b \in Blanks : Reading!Fold(Reader, g[i]) = Done(i, b)
      OBVIOUS
    <3>2. i \in 1 .. n /\ i + 1 \in 1 .. n /\ i + 1 \in 2 .. n /\ (i + 1) - 1 = i
      BY <1>1
    <3> DEFINE ps == SubSeq(texts, 1, i - 1)
               x == texts[i]
               y == texts[i + 1]
    <3>3. g[i] \in Seq(Letter) /\ y \in Seq(Letter) /\ x \in Tight /\ y \in Quiet("out")
      BY <1>4, <3>2
    <3>4. Append(ps, x) = SubSeq(texts, 1, i)
      BY <3>2, NextLetter
    <3> HIDE DEF ps, x, y
    <3>5. PICK c \in Blanks : Reading!Fold(Out(ps, b \o x), separator) = Out(Append(ps, x), c)
      BY <3>3, SeparatorRead
    <3>6. Reading!Fold(Out(Append(ps, x), c), y) = Out(Append(ps, x), c \o y)
      <4>1. c \in Seq(Letter)
        BY BlankLetters
      <4> QED BY <3>3, <4>1 DEF Quiet, State
    <3>7. g[i + 1] = g[i] \o (separator \o y)
      BY <2>4, <3>2 DEF y
    <3>8. separator \o y \in Seq(Letter)
      BY <1>3, <3>3
    <3>9. Reading!Fold(Reader, g[i] \o (separator \o y))
          = Reading!Fold(Reading!Fold(Reader, g[i]), separator \o y)
      BY Zenon, <3>3, <3>8, ReadConcat
    <3>10. Reading!Fold(Out(ps, b \o x), separator \o y)
           = Reading!Fold(Reading!Fold(Out(ps, b \o x), separator), y)
      BY Zenon, <1>3, <3>3, ReadConcat
    <3>11. Reading!Fold(Reader, g[i]) = Out(ps, b \o x)
      BY <3>1 DEF ps, x
    <3>12. Reading!Fold(Reader, g[i + 1]) = Out(Append(ps, x), c \o y)
      BY <3>5, <3>6, <3>7, <3>9, <3>10, <3>11
    <3>13. Reading!Fold(Reader, g[i + 1]) = Done(i + 1, c)
      BY <3>2, <3>4, <3>12 DEF y
    <3> QED BY <3>2, <3>13
  <2>7. n \in T
    <3> HIDE DEF T, n
    <3>1. 1 \in Int /\ n \in Int
      BY <2>1
    <3> QED BY Zenon, <2>1, <2>5, <2>6, <3>1, Reading!UpTo
  <2>8. PICK b \in Blanks : Reading!Fold(Reader, g[n]) = Done(n, b)
    BY <2>7
  <2> DEFINE ps == SubSeq(texts, 1, n - 1)
             x == texts[n]
  <2>9. x \in Tight /\ x # <<>> /\ x \in Seq(Letter) /\ b \in Seq(Letter) /\ Append(ps, x) = texts
    <3>1. x \in Tight /\ b \in Seq(Letter)
      BY <1>4, <2>1, BlankLetters
    <3>2. x # <<>> /\ x \in Seq(Letter)
      BY <3>1 DEF Tight
    <3>3. SubSeq(texts, 1, n) = Append(ps, x)
      BY <2>1, NextLetter
    <3>4. SubSeq(texts, 1, Len(texts)) = texts
      OBVIOUS
    <3> QED BY <3>1, <3>2, <3>3, <3>4
  <2> HIDE DEF ps, x
  <2>10. TrimString(b \o x) = x
    <3>1. (b \o x) \o <<>> = b \o x
      BY <2>9
    <3>2. TrimString((b \o x) \o <<>>) = x
      BY <1>7, <2>9, TrimTight
    <3> QED BY <3>1, <3>2
  <2>11. Yield(Out(ps, b \o x)) = Append(ps, x)
    BY <2>9, <2>10 DEF Yield, Out
  <2>12. FoldLeft(ReadLetter, Reader, g[n]) = Out(ps, b \o x)
    BY <2>8, ReadingIs DEF ps, x
  <2> QED BY <1>2, <2>3, <2>9, <2>11, <2>12 DEF TrimmedCSV
<1> QED BY <1>8, <1>9

-----------------------------------------------------------------------------
(***************************************************************************)
(* Directives.  Elements are tight texts that the reader takes as they     *)
(* are.                                                                    *)
(***************************************************************************)
Elements == Tight \cap Quiet("out")

LEMMA ElementLetters == ASSUME NEW x \in Elements PROVE x \in Seq(Letter) /\ Len(x) > 0
BY DEF Elements, Tight

LEMMA ElementConcat ==
    ASSUME NEW x \in Elements, NEW y \in Elements PROVE x \o y \in Elements
<1> DEFINE z == x \o y
<1>1. /\ x \in Seq(Letter) /\ Len(x) \in Nat /\ Len(x) > 0 /\ x[1] # Space
      /\ y \in Seq(Letter) /\ Len(y) \in Nat /\ Len(y) > 0 /\ y[Len(y)] # Space
  BY DEF Elements, Tight
<1>2. z \in Seq(Letter) /\ Len(z) = Len(x) + Len(y) /\ z[1] = x[1]
  BY <1>1
<1>3. z[Len(x) + Len(y)] = y[Len(y)]
  BY <1>1
<1>4. z \in Quiet("out")
  BY QuietConcat DEF Elements
<1> HIDE DEF z
<1>5. z \in Tight
  <2>1. Len(z) > 0 /\ z[1] # Space /\ z[Len(z)] # Space
    BY <1>1, <1>2, <1>3
  <2> QED BY Zenon, <1>2, <2>1 DEF Tight
<1> QED BY <1>4, <1>5 DEF Elements, z

LEMMA TokenElement ==
    ASSUME NEW x \in Seq(TokenLetters)
    PROVE  x \in Seq(Letter) /\ x \in Elements \cup {<<>>}
<1>1. TokenLetters \subseteq Letter
  BY DEF TokenLetters
<1>2. x \in Seq(Letter)
  BY Zenon, <1>1, SeqWider
<1>3. \A i \in 1 .. Len(x) : x[i] \in TokenLetters
  OBVIOUS
<1>4. \A i \in 1 .. Len(x) : x[i] \notin {Comma, Quote, Backslash} /\ x[i] # Space
  BY <1>3 DEF TokenLetters
<1>5. x \in Quiet("out")
  BY <1>2, <1>4, QuietPlain
<1>6. x # <<>> => x \in Tight
  BY <1>2, <1>4 DEF Tight
<1> QED BY <1>2, <1>5, <1>6 DEF Elements

LEMMA EqualsElement == <<Equals>> \in Elements
<1>1. Equals \in Letter
  BY LetterAssumption
<1>2. <<Equals>> \in Quiet("out")
  <2>1. Equals \notin {Quote, Backslash} /\ Equals # Comma /\ "out" \in Modes
    BY LettersDiffer DEF Modes
  <2> QED BY Zenon, <1>1, <2>1, QuietLetter
<1>3. <<Equals>> \in Tight
  BY <1>1, LettersDiffer DEF Tight
<1> QED BY <1>2, <1>3 DEF Elements

LEMMA QuotedElement ==
    ASSUME NEW s \in Seq(Letter), NEW pairs PROVE Quoted(s, pairs) \in Elements
<1> DEFINE q == Quoted(s, pairs)
           t == FlattenSeq([i \in 1 .. Len(s) |-> Pair(s[i], pairs)])
<1>1. q \in Quiet("out")
  BY QuietQuoted
<1>2. q = <<Quote>> \o t \o <<Quote>>
  BY QuotedIs
<1>3. Quote \in Letter /\ Quote # Space
  BY LetterAssumption, LettersDiffer
<1>4. t \in Seq(Letter)
  <2> DEFINE ss == [i \in 1 .. Len(s) |-> Pair(s[i], pairs)]
  <2>1. \A i \in 1 .. Len(s) : Pair(s[i], pairs) \in Seq(Letter)
    BY LetterAssumption DEF Pair
  <2>2. ss \in Seq(Seq(Letter))
    BY <2>1
  <2> HIDE DEF ss
  <2>3. FlattenSeq(ss) \in Seq(Letter)
    BY <2>2, FlattenIs, Reading!FlattenType
  <2> QED BY <2>3 DEF ss
<1> HIDE DEF t, q
<1>5. q \in Seq(Letter) /\ Len(q) = Len(t) + 2 /\ Len(t) \in Nat /\ q[1] = Quote /\ q[Len(q)] = Quote
  BY <1>2, <1>3, <1>4
<1>6. q \in Tight
  BY <1>3, <1>5 DEF Tight
<1> QED BY <1>1, <1>6 DEF Elements, q

\* An element is cut at its first "=".
LEMMA DirectiveOf ==
    ASSUME NEW name \in Seq(TokenLetters \ {Equals}), name # <<>>,
           NEW value \in Elements \cup {<<>>}
    PROVE  /\ Directive(name) = [name |-> name, value |-> <<>>]
           /\ Directive(name \o (<<Equals>> \o value)) = [name |-> name, value |-> value]
<1>1. name \in Seq(TokenLetters)
  BY SeqWider
<1>2. name \in Seq(Letter) /\ name \in Elements
  BY <1>1, TokenElement
<1>3. \A i \in 1 .. Len(name) : name[i] # Equals
  OBVIOUS
<1>4. TrimString(name) = name
  BY <1>2, TrimIs DEF Elements
<1>5. Directive(name) = [name |-> name, value |-> <<>>]
  <2>1. { i \in 1 .. Len(name) : name[i] = Equals } = {}
    BY <1>3
  <2> QED BY <1>4, <2>1 DEF Directive, SelectInSeq
<1> DEFINE t == name \o (<<Equals>> \o value)
           m == Len(name) + 1
           K == { i \in 1 .. Len(t) : t[i] = Equals }
<1>6. value \in Seq(Letter) /\ TrimString(value) = value
  <2>1. CASE value = <<>>
    BY <2>1, TrimIs
  <2>2. CASE value \in Elements
    BY <2>2, ElementLetters, TrimIs DEF Elements
  <2> QED BY <2>1, <2>2
<1>7. Equals \in Letter
  BY LetterAssumption
<1>8. /\ t \in Seq(Letter) /\ Len(t) = m + Len(value) /\ t[m] = Equals
      /\ \A i \in 1 .. Len(name) : t[i] = name[i]
      /\ SubSeq(t, 1, m - 1) = name /\ SubSeq(t, m + 1, Len(t)) = value
  BY <1>2, <1>6, <1>7
<1>9. m \in Int /\ m # 0 /\ m \in 1 .. Len(t)
  BY <1>2, <1>6, <1>8
<1> HIDE DEF t
<1>10. m \in K /\ \A i \in K : i \in Int /\ m <= i
  BY <1>2, <1>3, <1>8, <1>9
<1> HIDE DEF K
<1>11. Min(K) = m /\ K # {}
  <2>1. \A y \in K : (\A z \in K : y <= z) <=> y = m
    BY <1>9, <1>10
  <2> QED BY <1>10, <2>1 DEF Min
<1> HIDE DEF m
<1>12. SelectInSeq(t, LAMBDA c : c = Equals) = m
  BY <1>11 DEF SelectInSeq, K
<1>13. Directive(t) = [name |-> name, value |-> value]
  BY <1>6, <1>8, <1>9, <1>12 DEF Directive
<1> QED BY <1>5, <1>13 DEF t

LEMMA JoinType ==
    ASSUME NEW texts \in Seq(Seq(Letter)), NEW separator \in Seq(Letter)
    PROVE  Join(texts, separator) \in Seq(Letter)
<1> DEFINE ss == [i \in 1 .. Len(texts) |-> IF i = 1 THEN texts[i] ELSE separator \o texts[i]]
<1>1. \A i \in 1 .. Len(texts) : ss[i] \in Seq(Letter)
  OBVIOUS
<1>2. ss \in Seq(Seq(Letter)) /\ DOMAIN texts = 1 .. Len(texts)
  BY <1>1
<1> HIDE DEF ss
<1>3. FlattenSeq(ss) \in Seq(Letter)
  BY <1>2, FlattenIs, Reading!FlattenType
<1> QED BY <1>2, <1>3 DEF Join, ss

LEMMA FieldsElements ==
    ASSUME NEW fields \in Seq(Seq(TokenLetters) \ {<<>>})
    PROVE  fields \in Seq(Elements) /\ fields \in Seq(Seq(Letter))
<1>1. Seq(TokenLetters) \ {<<>>} \subseteq Elements
  BY TokenElement
<1>2. Elements \subseteq Seq(Letter)
  BY ElementLetters
<1>3. fields \in Seq(Elements)
  BY Zenon, <1>1, SeqWider
<1> QED BY Zenon, <1>2, <1>3, SeqWider

LEMMA DirectiveReadBack ==
    ASSUME NEW d \in CacheDirectives, NEW separator \in Separators
    PROVE  LET t == DirectiveText(d, separator)
               v == ArgumentText(d, separator)
           IN  /\ t \in Elements /\ Directive(t) = [name |-> d.name, value |-> v] /\ d.name # <<>>
               /\ d.form = "fields" => /\ d.name = NoCache
                                       /\ TrimmedCSV(ParseQuotedString(v)) = d.fields
<1> DEFINE t == DirectiveText(d, separator)
           v == ArgumentText(d, separator)
<1>1. /\ d.name \in Seq(TokenLetters \ {Equals}) /\ d.name # <<>>
      /\ \/ d.form = "bare" /\ d.arg = <<>>
         \/ d.form = "token" /\ d.arg \in Seq(TokenLetters)
         \/ d.form = "quoted" /\ d.arg \in Seq(Letter)
         \/ /\ d.form = "fields" /\ d.name = NoCache
            /\ d.fields \in Seq(Seq(TokenLetters) \ {<<>>})
  BY DirectivesAssumption
<1>2. IsSeparator(separator) /\ separator \in Seq(Letter)
  <2>1. IsSeparator(separator)
    BY DirectivesAssumption DEF IsSeparator
  <2>2. {Space, Comma} \subseteq Letter /\ separator \in Seq({Space, Comma})
    BY <2>1, LetterAssumption DEF IsSeparator
  <2>3. separator \in Seq(Letter)
    BY Zenon, <2>2, SeqWider
  <2> QED BY <2>1, <2>3
<1>3. d.name \in Elements /\ d.name \in Seq(Letter)
  <2>1. d.name \in Seq(TokenLetters)
    BY <1>1, SeqWider
  <2> QED BY <1>1, <2>1, TokenElement
<1>4. CASE d.form = "bare"
  <2>1. t = d.name /\ v = <<>>
    BY <1>4 DEF DirectiveText, ArgumentText
  <2>2. Directive(d.name) = [name |-> d.name, value |-> <<>>]
    BY <1>1, DirectiveOf
  <2> QED BY <1>1, <1>3, <1>4, <2>1, <2>2
<1>5. CASE d.form # "bare"
  <2>1. t = d.name \o (<<Equals>> \o v)
    BY <1>5 DEF DirectiveText
  <2>2. /\ v \in Elements \cup {<<>>}
        /\ d.form = "fields" => /\ d.name = NoCache
                                /\ TrimmedCSV(ParseQuotedString(v)) = d.fields
    <3>1. CASE d.form = "token"
      <4>1. v = d.arg /\ d.arg \in Seq(TokenLetters)
        BY <1>1, <3>1 DEF ArgumentText
      <4> QED BY <3>1, <4>1, TokenElement
    <3>2. CASE d.form = "quoted"
      <4>1. v = Quoted(d.arg, d.pairs) /\ d.arg \in Seq(Letter)
        BY <1>1, <3>2 DEF ArgumentText
      <4> HIDE DEF v
      <4> QED BY <3>2, <4>1, QuotedElement
    <3>3. CASE d.form = "fields"
      <4> DEFINE text == Join(d.fields, separator)
      <4>1. v = Quoted(text, d.pairs) /\ d.fields \in Seq(Elements) /\ d.fields \in Seq(Seq(Letter))
        BY <1>1, <3>3, FieldsElements DEF ArgumentText
      <4>2. text \in Seq(Letter)
        BY <1>2, <4>1, JoinType
      <4>3. TrimmedCSV(text) = d.fields
        BY <1>2, <4>1, ListReadBack DEF Elements
      <4> HIDE DEF v, text
      <4> QED BY <1>1, <3>3, <4>1, <4>2, <4>3, QuotedElement, QuotedReadBack
    <3> QED BY <1>1, <1>5, <3>1, <3>2, <3>3
  <2> HIDE DEF t, v
  <2>3. Directive(t) = [name |-> d.name, value |-> v]
    BY <1>1, <2>1, <2>2, DirectiveOf
  <2>4. t \in Elements
    <3>1. CASE v = <<>>
      <4>1. <<Equals>> \o v = <<Equals>>
        BY <3>1
      <4> QED BY <1>3, <2>1, <4>1, EqualsElement, ElementConcat
    <3>2. CASE v \in Elements
      <4>1. <<Equals>> \o v \in Elements
        BY <3>2, EqualsElement, ElementConcat
      <4> QED BY <1>3, <2>1, <4>1, ElementConcat
    <3> QED BY <2>2, <3>1, <3>2
  <2> QED BY <1>1, <2>2, <2>3, <2>4 DEF t, v
<1> QED BY <1>4, <1>5

(***************************************************************************)
(* What directives yields for a field.                                     *)
(***************************************************************************)
LEMMA DirectiveSeqIs ==
    ASSUME NEW ds \in Seq(CacheDirectives), NEW separator \in Separators
    PROVE  DirectiveSeq(FieldText(ds, separator))
           = [i \in 1 .. Len(ds) |-> [name |-> ds[i].name, value |-> ArgumentText(ds[i], separator)]]
<1> DEFINE n == Len(ds)
           texts == [i \in 1 .. n |-> DirectiveText(ds[i], separator)]
           put == [i \in 1 .. n |-> [name |-> ds[i].name, value |-> ArgumentText(ds[i], separator)]]
           h == [i \in 0 .. n |-> SubSeq(put, 1, i)]
<1>1. n \in Nat /\ DOMAIN ds = 1 .. n /\ \A i \in 1 .. n : ds[i] \in CacheDirectives
  OBVIOUS
<1>2. \A i \in 1 .. n : /\ texts[i] \in Elements /\ Directive(texts[i]) = put[i]
                        /\ put[i].name # <<>>
  BY <1>1, DirectiveReadBack
<1>3. texts \in Seq(Elements) /\ Len(texts) = n /\ DOMAIN texts = 1 .. n
  <2>1. texts \in [1 .. n -> Elements]
    BY <1>2
  <2> HIDE DEF texts, n
  <2> QED BY <1>1, <2>1, SeqIs
<1>4. IsSeparator(separator)
  BY DirectivesAssumption DEF IsSeparator
<1>5. FieldText(ds, separator) = Join(texts, separator)
  BY <1>1 DEF FieldText
<1> HIDE DEF texts
<1>6. TrimmedCSV(FieldText(ds, separator)) = texts
  BY <1>3, <1>4, <1>5, ListReadBack DEF Elements
<1> DEFINE P == { put[i] : i \in 1 .. n }
<1>7. put \in Seq(P) /\ Len(put) = n
  <2>1. put \in [1 .. n -> P]
    OBVIOUS
  <2> HIDE DEF put, n, P
  <2> QED BY <1>1, <2>1, SeqIs
<1> HIDE DEF put, P
<1>8. h[0] = <<>> /\ h[n] = put
  <2>1. SubSeq(put, 1, 0) = <<>> /\ SubSeq(put, 1, Len(put)) = put
    BY <1>7
  <2>2. 0 \in 0 .. n /\ n \in 0 .. n
    BY <1>1
  <2> HIDE DEF n
  <2> QED BY <1>7, <2>1, <2>2
<1>9. ASSUME NEW i \in 1 .. n PROVE h[i] = PutDirective(h[i - 1], texts[i])
  <2>1. i \in 0 .. n /\ i - 1 \in 0 .. n /\ i \in 1 .. Len(put)
    BY <1>1, <1>7
  <2>2. h[i] = SubSeq(put, 1, i) /\ h[i - 1] = SubSeq(put, 1, i - 1)
    BY <2>1
  <2>3. SubSeq(put, 1, i) = Append(SubSeq(put, 1, i - 1), put[i])
    BY <1>7, <2>1, NextLetter
  <2> HIDE DEF h
  <2>4. Directive(texts[i]) = put[i] /\ put[i].name # <<>>
    BY <1>2
  <2> QED BY <2>2, <2>3, <2>4 DEF PutDirective
<1> HIDE DEF h, n
<1>10. Putting!IsRun(h, <<>>, texts, n)
  BY <1>3, <1>8, <1>9 DEF Putting!IsRun
<1>11. Putting!Fold(<<>>, texts) = h[n]
  BY Zenon, <1>1, <1>10, Putting!FoldBy
<1> QED BY <1>6, <1>8, <1>11, PuttingIs DEF DirectiveSeq, put, n

(***************************************************************************)
(* For every list of directives, with arguments of any length and of any   *)
(* letters, however they are quoted and separated, the cache finds each    *)
(* directive with the text of its argument, and the field names within     *)
(* that of no-cache.                                                       *)
(***************************************************************************)
THEOREM DirectivesRead == Spec => []DirectivesReadBack
<1>1. Written => DirectivesReadBack
  <2> SUFFICES ASSUME Written, input.kind = "list", NEW separator \in Separators
               PROVE  LET ds == input.items
                          read == ParseDirectives(FieldText(ds, separator))
                      IN  /\ DOMAIN read = { ds[i].name : i \in DOMAIN ds }
                          /\ \A i \in DOMAIN ds :
                               (\A j \in i + 1 .. Len(ds) : ds[j].name # ds[i].name) =>
                                  /\ read[ds[i].name] = ArgumentText(ds[i], separator)
                                  /\ ds[i].form = "fields" => NoCacheFields(read) = ds[i].fields
    BY DEF DirectivesReadBack
  <2> DEFINE ds == input.items
             n == Len(ds)
             put == DirectiveSeq(FieldText(ds, separator))
             read == ParseDirectives(FieldText(ds, separator))
             names == { ds[i].name : i \in DOMAIN ds }
             K(name) == { i \in 1 .. Len(put) : put[i].name = name }
  <2>1. ds \in Seq(CacheDirectives)
    BY DEF Written, Items
  <2>2. n \in Nat /\ DOMAIN ds = 1 .. n /\ \A i \in 1 .. n : ds[i] \in CacheDirectives
    BY <2>1
  <2>3. put = [i \in 1 .. n |-> [name |-> ds[i].name, value |-> ArgumentText(ds[i], separator)]]
    BY <2>1, DirectiveSeqIs
  <2>4. read = [name \in { put[i].name : i \in DOMAIN put } |->
                  put[IF K(name) # {} THEN Max(K(name)) ELSE 0].value]
    BY DEF ParseDirectives, SelectLastInSeq
  <2> HIDE DEF read, put, ds, n
  <2>5. DOMAIN put = 1 .. n /\ Len(put) = n
        /\ \A i \in 1 .. n : /\ put[i].name = ds[i].name
                             /\ put[i].value = ArgumentText(ds[i], separator)
    BY <2>2, <2>3
  <2>6. DOMAIN read = names
    BY <2>2, <2>4, <2>5
  <2>7. ASSUME NEW i \in 1 .. n, \A j \in i + 1 .. n : ds[j].name # ds[i].name
        PROVE  read[ds[i].name] = ArgumentText(ds[i], separator)
    <3>1. i \in K(ds[i].name) /\ K(ds[i].name) \in SUBSET Int
      BY <2>2, <2>5
    <3>2. \A j \in K(ds[i].name) : j <= i
      BY <2>2, <2>5, <2>7
    <3> HIDE DEF K
    <3>3. Max(K(ds[i].name)) = i
      BY <3>1, <3>2, MaxIs
    <3>4. ds[i].name \in { put[j].name : j \in DOMAIN put }
      BY <2>5
    <3> QED BY <2>4, <2>5, <3>1, <3>3, <3>4
  <2>8. ASSUME NEW i \in 1 .. n, \A j \in i + 1 .. n : ds[j].name # ds[i].name
        PROVE  ds[i].form = "fields" => NoCacheFields(read) = ds[i].fields
    <3> DEFINE v == read[ds[i].name]
               d == ds[i]
    <3>1. v = ArgumentText(d, separator) /\ d \in CacheDirectives
      BY <2>2, <2>7, <2>8
    <3> HIDE DEF v, d
    <3>2. d.form = "fields" => /\ d.name = NoCache
                               /\ TrimmedCSV(ParseQuotedString(v)) = d.fields
      BY <3>1, DirectiveReadBack
    <3> QED BY <3>2 DEF v, d, NoCacheFields
  <2> QED BY <2>2, <2>6, <2>7, <2>8 DEF read, ds, n
<1> QED BY <1>1, AlwaysWritten, PTL

-----------------------------------------------------------------------------
(***************************************************************************)
(* The text of a Vary hash: name, value, name, value.                      *)
(***************************************************************************)
Names == Seq(Letter) \ {<<>>}

\* Names known to both variants, each with a value.
IsSelection(names, values, known) ==
    names \in Seq(known) /\ \A i \in 1 .. Len(names) : values[names[i]] \in Seq(Letter)

LEMMA SelectionTail ==
    ASSUME NEW known, NEW names, NEW values, IsSelection(names, values, known), names # <<>>
    PROVE  /\ IsSelection(Tail(names), values, known)
           /\ names[1] \in known /\ values[names[1]] \in Seq(Letter)
           /\ Len(names) \in Nat \ {0} /\ Len(Tail(names)) = Len(names) - 1
           /\ \A i \in 1 .. Len(Tail(names)) : Tail(names)[i] = names[i + 1]
<1>1. /\ names[1] \in known /\ Tail(names) \in Seq(known) /\ Len(names) \in Nat \ {0}
      /\ Len(Tail(names)) = Len(names) - 1
  BY Reading!HeadAndTail DEF IsSelection
<1>2. \A i \in 1 .. Len(Tail(names)) : Tail(names)[i] = names[i + 1] /\ i + 1 \in 1 .. Len(names)
  BY <1>1 DEF IsSelection
<1>3. 1 \in 1 .. Len(names)
  BY <1>1
<1> QED BY <1>1, <1>2, <1>3 DEF IsSelection

LEMMA HashTextNone == \A values : VaryHashText(<<>>, values) = <<>>
<1> SUFFICES ASSUME NEW values PROVE VaryHashText(<<>>, values) = <<>>
  OBVIOUS
<1> DEFINE words == [i \in DOMAIN <<>> |-> <<>>[i] \o values[<<>>[i]]]
<1>1. words = <<>>
  OBVIOUS
<1> HIDE DEF words
<1>2. FlattenSeq(words) = <<>>
  BY <1>1, Reading!FlattenNone, FlattenIs
<1> QED BY <1>2 DEF VaryHashText, words

LEMMA HashTextType ==
    ASSUME NEW known \in SUBSET Names, NEW names, NEW values, IsSelection(names, values, known)
    PROVE  VaryHashText(names, values) \in Seq(Letter)
<1> DEFINE words == [i \in 1 .. Len(names) |-> names[i] \o values[names[i]]]
<1>1. words \in Seq(Seq(Letter)) /\ DOMAIN names = 1 .. Len(names)
  BY DEF IsSelection, Names
<1> HIDE DEF words
<1>2. FlattenSeq(words) \in Seq(Letter)
  BY Zenon, <1>1, Reading!FlattenType, FlattenIs
<1> QED BY <1>1, <1>2 DEF VaryHashText, words

LEMMA LettersAssoc == \A x, y, z \in Seq(Letter) : x \o (y \o z) = (x \o y) \o z
BY Reading!ConcatAssoc

LEMMA FlattenFirst ==
    ASSUME NEW n \in Nat \ {0}, NEW g \in [1 .. n -> Seq(Letter)],
           NEW h \in [1 .. n - 1 -> Seq(Letter)], \A i \in 1 .. n - 1 : h[i] = g[i + 1]
    PROVE  FlattenSeq(g) = g[1] \o FlattenSeq(h)
<1>1. 1 \in 1 .. n /\ n - 1 \in Nat /\ n \in Nat
  OBVIOUS
<1>2. g \in Seq(Seq(Letter)) /\ Len(g) = n
  BY Zenon, <1>1, SeqIs
<1>3. h \in Seq(Seq(Letter)) /\ Len(h) = n - 1
  BY Zenon, <1>1, SeqIs
<1>4. g[1] \in Seq(Letter)
  BY <1>1
<1>5. g = <<g[1]>> \o h
  <2> DEFINE f == <<g[1]>> \o h
  <2>1. f \in Seq(Seq(Letter)) /\ Len(f) = n /\ f[1] = g[1]
    BY <1>1, <1>3, <1>4
  <2>2. \A i \in 2 .. n : f[i] = h[i - 1] /\ i - 1 \in 1 .. n - 1
    BY <1>1, <1>3, <1>4
  <2> HIDE DEF f
  <2>3. ASSUME NEW i \in 1 .. n PROVE f[i] = g[i]
    <3>1. CASE i = 1
      BY <2>1, <3>1
    <3>2. CASE i # 1
      <4>1. i \in 2 .. n
        BY <3>2
      <4>2. f[i] = h[i - 1] /\ h[i - 1] = g[(i - 1) + 1] /\ (i - 1) + 1 = i
        BY <2>2, <4>1
      <4> QED BY <4>2
    <3> QED BY <3>1, <3>2
  <2>4. f = [i \in 1 .. n |-> f[i]] /\ g = [i \in 1 .. n |-> g[i]]
    BY <1>2, <2>1
  <2>5. f = g
    BY <2>3, <2>4
  <2> QED BY <2>5 DEF f
<1>6. Reading!Flat(<<g[1]>> \o h) = g[1] \o Reading!Flat(h)
  BY Zenon, <1>3, <1>4, Reading!FlattenCons
<1> QED BY Zenon, <1>5, <1>6, FlattenIs

LEMMA HashTextCons ==
    ASSUME NEW known \in SUBSET Names, NEW names, NEW values, IsSelection(names, values, known),
           names # <<>>
    PROVE  VaryHashText(names, values)
           = names[1] \o (values[names[1]] \o VaryHashText(Tail(names), values))
<1> DEFINE tail == Tail(names)
           n == Len(names)
           words == [i \in 1 .. n |-> names[i] \o values[names[i]]]
           rest == [i \in 1 .. n - 1 |-> tail[i] \o values[tail[i]]]
<1>1. /\ IsSelection(tail, values, known) /\ n \in Nat \ {0} /\ Len(tail) = n - 1
      /\ \A i \in 1 .. n - 1 : tail[i] = names[i + 1]
      /\ names[1] \in known /\ values[names[1]] \in Seq(Letter)
  BY SelectionTail
<1>2. names \in Seq(known) /\ tail \in Seq(known)
  BY <1>1 DEF IsSelection
<1>3. DOMAIN names = 1 .. n /\ DOMAIN tail = 1 .. n - 1
  BY <1>1, <1>2
<1>4. VaryHashText(names, values) = FlattenSeq(words)
      /\ VaryHashText(tail, values) = FlattenSeq(rest)
  BY Zenon, <1>3 DEF VaryHashText, words, rest
<1>5. names[1] \in Seq(Letter)
  BY <1>1 DEF Names
<1> HIDE DEF tail
<1>6. \A i \in 1 .. n : names[i] \o values[names[i]] \in Seq(Letter)
  BY DEF IsSelection, Names
<1> HIDE DEF n
<1>7. words \in [1 .. n -> Seq(Letter)]
  BY <1>6
<1>8. \A i \in 1 .. n - 1 : i + 1 \in 1 .. n
  BY <1>1
<1>9. \A i \in 1 .. n - 1 : rest[i] = words[i + 1]
  BY <1>1, <1>8
<1>10. rest \in [1 .. n - 1 -> Seq(Letter)]
  BY <1>1, <1>6, <1>8
<1>11. words[1] = names[1] \o values[names[1]]
  <2>1. 1 \in 1 .. n
    BY <1>1
  <2> QED BY Zenon, <2>1 DEF words
<1> HIDE DEF words, rest
<1>12. FlattenSeq(words) = words[1] \o FlattenSeq(rest)
  BY Zenon, <1>1, <1>7, <1>9, <1>10, FlattenFirst
<1>13. VaryHashText(tail, values) \in Seq(Letter)
  BY <1>1, HashTextType
<1>14. names[1] \o (values[names[1]] \o FlattenSeq(rest))
       = (names[1] \o values[names[1]]) \o FlattenSeq(rest)
  <2>1. FlattenSeq(rest) \in Seq(Letter)
    BY <1>4, <1>13
  <2> QED BY Zenon, <1>1, <1>5, <2>1, LettersAssoc
<1> QED BY <1>4, <1>11, <1>12, <1>14 DEF tail

\* A name is read where it is written.
LEMMA ReadAt ==
    ASSUME NEW known \in SUBSET Names, NEW p \in known,
           NEW u \in Seq(Letter), NEW r \in Seq(Letter)
    PROVE  p \in NamesAt(u \o (p \o r), Len(u) + 1, known)
<1> DEFINE t == u \o (p \o r)
<1>1. p \in Seq(Letter)
  BY DEF Names
<1>2. SubSeq(t, Len(u) + 1, Len(t)) = p \o r
  BY <1>1
<1>3. Len(p) <= Len(p \o r) /\ SubSeq(p, 1, Len(p)) = p /\ SubSeq(p \o r, 1, Len(p)) = p
  BY <1>1
<1> HIDE DEF t
<1>4. IsPrefix(p, SubSeq(t, Len(u) + 1, Len(t)))
  BY <1>2, <1>3 DEF IsPrefix
<1> QED BY <1>4 DEF NamesAt, t

\* The rest of a text is empty, or it begins with a name.
IsRest(x, known) ==
    x \in Seq(Letter) /\ (x = <<>> \/ \E p \in known, r \in Seq(Letter) : x = p \o r)

LEMMA HashTextRest ==
    ASSUME NEW known \in SUBSET Names, NEW names, NEW values, IsSelection(names, values, known)
    PROVE  IsRest(VaryHashText(names, values), known)
<1>1. CASE names = <<>>
  <2>1. VaryHashText(names, values) = <<>>
    BY <1>1, HashTextNone
  <2>2. <<>> \in Seq(Letter)
    OBVIOUS
  <2> QED BY <2>1, <2>2 DEF IsRest
<1>2. CASE names # <<>>
  <2> DEFINE r == values[names[1]] \o VaryHashText(Tail(names), values)
  <2>1. VaryHashText(names, values) = names[1] \o r
    BY <1>2, HashTextCons
  <2>2. names[1] \in known /\ r \in Seq(Letter)
    <3>1. IsSelection(Tail(names), values, known) /\ names[1] \in known
          /\ values[names[1]] \in Seq(Letter)
      BY <1>2, SelectionTail
    <3>2. VaryHashText(Tail(names), values) \in Seq(Letter)
      BY <3>1, HashTextType
    <3> QED BY <3>1, <3>2
  <2>3. VaryHashText(names, values) \in Seq(Letter)
    BY HashTextType
  <2> HIDE DEF r
  <2> QED BY <2>1, <2>2, <2>3 DEF IsRest
<1> QED BY <1>1, <1>2

(***************************************************************************)
(* A text that begins with name n and value v, when no other name can be   *)
(* read there.                                                             *)
(***************************************************************************)
Clear(t, n, v, known) ==
    /\ \A p \in NamesAt(t, 1, known) : Len(p) <= Len(n)
    /\ \A j \in Len(n) + 1 .. Len(n) + Len(v) : NamesAt(t, j, known) = {}

LEMMA NameRead ==
    ASSUME NEW known \in SUBSET Names, NEW n \in known, NEW m \in known,
           NEW y \in Seq(Letter), NEW v, Clear(m \o y, n, v, known)
    PROVE  Len(m) <= Len(n)
<1> DEFINE none == <<>>
<1>1. none \in Seq(Letter) /\ none \o (m \o y) = m \o y /\ Len(none) + 1 = 1
  BY DEF Names
<1> HIDE DEF none
<1>2. m \in NamesAt(none \o (m \o y), Len(none) + 1, known)
  BY <1>1, ReadAt
<1>3. m \in NamesAt(m \o y, 1, known)
  BY <1>1, <1>2
<1> QED BY <1>3 DEF Clear

\* A known name is read behind a name and a value that are before it.
LEMMA ReadBehind ==
    ASSUME NEW known \in SUBSET Names, NEW n \in Seq(Letter), NEW v \in Seq(Letter),
           NEW p \in known, NEW r \in Seq(Letter)
    PROVE  p \in NamesAt(n \o (v \o (p \o r)), (Len(n) + Len(v)) + 1, known)
<1>1. p \in Seq(Letter)
  BY DEF Names
<1>2. p \o r \in Seq(Letter)
  BY <1>1
<1>3. n \o (v \o (p \o r)) = (n \o v) \o (p \o r)
  BY Zenon, <1>2, LettersAssoc
<1>4. n \o v \in Seq(Letter) /\ Len(n \o v) = Len(n) + Len(v)
  OBVIOUS
<1>5. p \in NamesAt((n \o v) \o (p \o r), Len(n \o v) + 1, known)
  BY <1>4, ReadAt
<1> QED BY Zenon, <1>3, <1>4, <1>5

LEMMA ValueRead ==
    ASSUME NEW known \in SUBSET Names, NEW n \in known,
           NEW v \in Seq(Letter), NEW w \in Seq(Letter), NEW x, NEW y \in Seq(Letter),
           IsRest(x, known), v \o x = w \o y, Clear(n \o (w \o y), n, w, known)
    PROVE  Len(v) >= Len(w)
<1>1. x \in Seq(Letter) /\ n \in Seq(Letter)
  BY DEF IsRest, Names
<1>2. CASE Len(v) < Len(w)
  <2>1. x # <<>>
    <3>1. Len(v \o x) = Len(v) + Len(x) /\ Len(w \o y) = Len(w) + Len(y)
      BY <1>1
    <3> QED BY <1>1, <1>2, <3>1
  <2>2. PICK p \in known, r \in Seq(Letter) : x = p \o r
    BY <2>1 DEF IsRest
  <2>3. p \in NamesAt(n \o (v \o (p \o r)), (Len(n) + Len(v)) + 1, known)
    BY <1>1, ReadBehind
  <2>4. n \o (v \o (p \o r)) = n \o (w \o y)
    BY Zenon, <2>2
  <2>5. p \in NamesAt(n \o (w \o y), (Len(n) + Len(v)) + 1, known)
    BY Zenon, <2>3, <2>4
  <2>6. (Len(n) + Len(v)) + 1 \in Len(n) + 1 .. Len(n) + Len(w)
    BY <1>1, <1>2
  <2> QED BY <2>5, <2>6 DEF Clear
<1> QED BY <1>2

LEMMA SplitSame ==
    ASSUME NEW u \in Seq(Letter), NEW v \in Seq(Letter),
           NEW x \in Seq(Letter), NEW y \in Seq(Letter), Len(u) = Len(v), u \o x = v \o y
    PROVE  u = v /\ x = y
<1>1. ASSUME NEW i \in 1 .. Len(u) PROVE u[i] = v[i]
  <2>1. (u \o x)[i] = u[i] /\ (v \o y)[i] = v[i]
    OBVIOUS
  <2> QED BY <2>1
<1>2. u = v
  <2>1. u = [i \in 1 .. Len(u) |-> u[i]] /\ v = [i \in 1 .. Len(u) |-> v[i]]
    OBVIOUS
  <2>2. [i \in 1 .. Len(u) |-> u[i]] = [i \in 1 .. Len(u) |-> v[i]]
    BY Zenon, <1>1
  <2> QED BY Zenon, <2>1, <2>2
<1> QED BY <1>2, Reading!ConcatCancel

IsReading(n, v, x, known) ==
    /\ n \in known /\ v \in Seq(Letter) /\ IsRest(x, known)
    /\ Clear(n \o (v \o x), n, v, known)

LEMMA WordRead ==
    ASSUME NEW known \in SUBSET Names, NEW n, NEW v, NEW x, NEW m, NEW w, NEW y,
           IsReading(n, v, x, known), IsReading(m, w, y, known),
           n \o (v \o x) = m \o (w \o y)
    PROVE  n = m /\ v = w /\ x = y
<1>0. /\ n \in known /\ v \in Seq(Letter) /\ IsRest(x, known)
      /\ m \in known /\ w \in Seq(Letter) /\ IsRest(y, known)
      /\ Clear(n \o (v \o x), n, v, known) /\ Clear(m \o (w \o y), m, w, known)
  BY DEF IsReading
<1>1. /\ x \in Seq(Letter) /\ y \in Seq(Letter) /\ n \in Seq(Letter) /\ m \in Seq(Letter)
      /\ v \o x \in Seq(Letter) /\ w \o y \in Seq(Letter)
  BY <1>0 DEF IsRest, Names
<1>2. n = m /\ v \o x = w \o y
  <2>1. Len(m) <= Len(n)
    BY <1>0, <1>1, NameRead
  <2>2. Len(n) <= Len(m)
    BY <1>0, <1>1, NameRead
  <2>3. Len(n) = Len(m)
    BY <1>0, <1>1, <2>1, <2>2
  <2> DEFINE a == v \o x
             b == w \o y
  <2>4. a \in Seq(Letter) /\ b \in Seq(Letter) /\ n \o a = m \o b
    BY <1>0, <1>1
  <2> HIDE DEF a, b
  <2>5. n = m /\ a = b
    BY <1>0, <1>1, <2>3, <2>4, SplitSame
  <2> QED BY <2>5 DEF a, b
<1>3. Len(v) = Len(w)
  <2>1. Len(v) >= Len(w)
    BY <1>0, <1>1, <1>2, ValueRead
  <2>2. Len(w) >= Len(v)
    BY <1>0, <1>1, <1>2, ValueRead
  <2> QED BY <2>1, <2>2
<1> QED BY <1>0, <1>1, <1>2, <1>3, SplitSame

-----------------------------------------------------------------------------
LEMMA RestOfTail ==
    ASSUME NEW known \in SUBSET Names, NEW names, NEW values, IsSelection(names, values, known),
           names # <<>>, NEW i \in 1 .. Len(names) - 1
    PROVE  /\ RestText(Tail(names), values, i) = RestText(names, values, i + 1)
           /\ MistakableAt(Tail(names), values, known, i)
              <=> MistakableAt(names, values, known, i + 1)
<1> DEFINE n == Len(names)
           tail == Tail(names)
           s == SubSeq(tail, i, n - 1)
           t == SubSeq(names, i + 1, n)
<1>1. /\ n \in Nat \ {0} /\ Len(tail) = n - 1
      /\ \A j \in 1 .. n - 1 : tail[j] = names[j + 1]
  BY SelectionTail
<1>2. names \in Seq(known) /\ tail \in Seq(known)
  BY SelectionTail DEF IsSelection
<1>3. s = t
  <2>1. tail = [j \in 1 .. n - 1 |-> names[j + 1]]
    <3> HIDE DEF n, tail
    <3>1. n - 1 \in Nat /\ Len(tail) = n - 1
      BY <1>1
    <3>2. tail = [j \in 1 .. n - 1 |-> tail[j]]
      BY <1>2, <3>1
    <3> QED BY <1>1, <3>2
  <2> QED BY <1>1, <1>2, <2>1
<1>4. RestText(tail, values, i) = RestText(names, values, i + 1) /\ tail[i] = names[i + 1]
  BY <1>1, <1>3 DEF RestText
<1> HIDE DEF tail
<1>5. MistakableAt(tail, values, known, i) <=> MistakableAt(names, values, known, i + 1)
  BY Zenon, <1>4 DEF MistakableAt
<1> QED BY <1>4, <1>5 DEF tail

\* What a variant that is not mistakable says of its first word, and of the rest.
LEMMA FirstWord ==
    ASSUME NEW known \in SUBSET Names, NEW names, NEW values, IsSelection(names, values, known),
           ~ Mistakable(names, values, known), names # <<>>
    PROVE  /\ Clear(VaryHashText(names, values), names[1], values[names[1]], known)
           /\ ~ Mistakable(Tail(names), values, known)
<1>1. /\ Len(names) \in Nat \ {0} /\ Len(Tail(names)) = Len(names) - 1
      /\ names \in Seq(known) /\ Tail(names) \in Seq(known)
  BY SelectionTail DEF IsSelection
<1>2. DOMAIN names = 1 .. Len(names) /\ DOMAIN Tail(names) = 1 .. Len(names) - 1
      /\ 1 \in 1 .. Len(names) /\ SubSeq(names, 1, Len(names)) = names
  BY <1>1
<1>3. ~ MistakableAt(names, values, known, 1)
  BY <1>2 DEF Mistakable
<1>4. RestText(names, values, 1) = VaryHashText(names, values)
  BY Zenon, <1>2 DEF RestText
<1>5. Clear(VaryHashText(names, values), names[1], values[names[1]], known)
  <2> DEFINE text == VaryHashText(names, values)
             name == names[1]
  <2>1. /\ \A p \in NamesAt(text, 1, known) : ~ (Len(p) > Len(name))
        /\ \A j \in Len(name) + 1 .. Len(name) + Len(values[name]) :
              NamesAt(text, j, known) = {}
    BY Zenon, <1>3, <1>4 DEF MistakableAt
  <2>2. \A p \in NamesAt(text, 1, known) : Len(p) \in Nat /\ Len(name) \in Nat
    <3>1. name \in known
      BY SelectionTail
    <3> QED BY <3>1 DEF NamesAt, Names
  <2> HIDE DEF text, name
  <2>3. \A p \in NamesAt(text, 1, known) : Len(p) <= Len(name)
    BY <2>1, <2>2
  <2>4. Clear(text, name, values[name], known)
    BY Zenon, <2>1, <2>3 DEF Clear
  <2> QED BY <2>4 DEF text, name
<1>6. ASSUME NEW i \in 1 .. Len(names) - 1 PROVE ~ MistakableAt(Tail(names), values, known, i)
  <2>1. i + 1 \in DOMAIN names
    BY <1>1, <1>2
  <2>2. ~ MistakableAt(names, values, known, i + 1)
    BY <2>1 DEF Mistakable
  <2> QED BY <2>2, RestOfTail
<1> QED BY <1>2, <1>5, <1>6 DEF Mistakable

\* Two variants with one text are one variant.
SameWords(names, values, others, theirs) ==
    names = others /\ \A i \in 1 .. Len(names) : values[names[i]] = theirs[names[i]]

IsPlainSelection(names, values, known) ==
    IsSelection(names, values, known) /\ ~ Mistakable(names, values, known)

HashTextsApart(known, names) ==
    \A values, others, theirs :
        /\ IsPlainSelection(names, values, known)
        /\ IsPlainSelection(others, theirs, known)
        /\ VaryHashText(names, values) = VaryHashText(others, theirs)
        => SameWords(names, values, others, theirs)

LEMMA HashTextNotNone ==
    ASSUME NEW known \in SUBSET Names, NEW names, NEW values, IsSelection(names, values, known),
           names # <<>>
    PROVE  VaryHashText(names, values) # <<>>
<1> DEFINE r == values[names[1]] \o VaryHashText(Tail(names), values)
<1>1. VaryHashText(names, values) = names[1] \o r
  BY HashTextCons
<1>2. /\ names[1] \in known /\ values[names[1]] \in Seq(Letter)
      /\ IsSelection(Tail(names), values, known)
  BY SelectionTail
<1>3. VaryHashText(Tail(names), values) \in Seq(Letter)
  BY <1>2, HashTextType
<1>4. r \in Seq(Letter) /\ names[1] \in Seq(Letter) /\ names[1] # <<>>
  BY <1>2, <1>3 DEF Names
<1> HIDE DEF r
<1>5. names[1] \o r # <<>>
  BY <1>4
<1> QED BY <1>1, <1>5

LEMMA HashTextsApartStep ==
    ASSUME NEW known \in SUBSET Names, NEW names, names # <<>>, HashTextsApart(known, Tail(names))
    PROVE  HashTextsApart(known, names)
<1> SUFFICES ASSUME NEW values, NEW others, NEW theirs,
                    IsPlainSelection(names, values, known),
                    IsPlainSelection(others, theirs, known),
                    VaryHashText(names, values) = VaryHashText(others, theirs)
             PROVE  SameWords(names, values, others, theirs)
  BY DEF HashTextsApart
<1> DEFINE n == names[1]
           m == others[1]
           v == values[n]
           w == theirs[m]
           x == VaryHashText(Tail(names), values)
           y == VaryHashText(Tail(others), theirs)
<1>1. IsSelection(names, values, known) /\ IsSelection(others, theirs, known)
      /\ ~ Mistakable(names, values, known) /\ ~ Mistakable(others, theirs, known)
  BY DEF IsPlainSelection
<1>2. others # <<>>
  <2>1. VaryHashText(others, theirs) # <<>>
    BY <1>1, HashTextNotNone
  <2> QED BY <2>1, HashTextNone
<1>3. /\ IsSelection(Tail(names), values, known) /\ n \in known /\ v \in Seq(Letter)
      /\ IsSelection(Tail(others), theirs, known) /\ m \in known /\ w \in Seq(Letter)
  BY <1>1, <1>2, SelectionTail
<1>4. IsRest(x, known) /\ IsRest(y, known)
  BY <1>3, HashTextRest
<1>5. VaryHashText(names, values) = n \o (v \o x) /\ VaryHashText(others, theirs) = m \o (w \o y)
  BY <1>1, <1>2, HashTextCons
<1>6. /\ Clear(VaryHashText(names, values), n, v, known)
      /\ Clear(VaryHashText(others, theirs), m, w, known)
      /\ ~ Mistakable(Tail(names), values, known) /\ ~ Mistakable(Tail(others), theirs, known)
  BY <1>1, <1>2, FirstWord
<1>7. n = m /\ v = w /\ x = y
  <2> HIDE DEF n, m, v, w, x, y
  <2>1. n \o (v \o x) = m \o (w \o y)
    BY <1>5
  <2>2. Clear(n \o (v \o x), n, v, known) /\ Clear(m \o (w \o y), m, w, known)
    BY <1>5, <1>6
  <2>3. IsReading(n, v, x, known) /\ IsReading(m, w, y, known)
    BY <1>3, <1>4, <2>2 DEF IsReading
  <2> QED BY Zenon, <2>1, <2>3, WordRead
<1>8. SameWords(Tail(names), values, Tail(others), theirs)
  BY Zenon, <1>3, <1>6, <1>7 DEF HashTextsApart, IsPlainSelection
<1>9. names = <<n>> \o Tail(names) /\ others = <<m>> \o Tail(others)
  BY <1>1, <1>2, Reading!HeadAndTail DEF IsSelection
<1>10. names = others
  BY <1>7, <1>8, <1>9 DEF SameWords
<1>11. ASSUME NEW i \in 1 .. Len(names) PROVE values[names[i]] = theirs[names[i]]
  <2>1. /\ Len(names) \in Nat \ {0} /\ Len(Tail(names)) = Len(names) - 1
        /\ \A j \in 1 .. Len(Tail(names)) : Tail(names)[j] = names[j + 1]
    BY <1>1, SelectionTail
  <2>2. CASE i = 1
    BY <1>7, <2>2
  <2>3. CASE i # 1
    <3>1. i - 1 \in 1 .. Len(Tail(names)) /\ (i - 1) + 1 = i
      BY <2>1, <2>3
    <3>2. Tail(names)[i - 1] = names[i]
      BY <2>1, <3>1
    <3> QED BY <1>8, <3>1, <3>2 DEF SameWords
  <2> QED BY <2>2, <2>3
<1> QED BY <1>10, <1>11 DEF SameWords

LEMMA HashTextsDiffer ==
    ASSUME NEW known \in SUBSET Names, NEW names \in Seq(known)
    PROVE  HashTextsApart(known, names)
<1> DEFINE T == { k \in Nat : \A s \in Seq(known) : Len(s) = k => HashTextsApart(known, s) }
<1>1. 0 \in T
  <2> SUFFICES ASSUME NEW s \in Seq(known), Len(s) = 0 PROVE HashTextsApart(known, s)
    OBVIOUS
  <2>1. s = <<>>
    OBVIOUS
  <2> SUFFICES ASSUME NEW values, NEW others, NEW theirs,
                      IsSelection(others, theirs, known),
                      VaryHashText(s, values) = VaryHashText(others, theirs)
               PROVE  SameWords(s, values, others, theirs)
    BY DEF HashTextsApart, IsPlainSelection
  <2>2. others = <<>>
    BY <2>1, HashTextNone, HashTextNotNone
  <2> QED BY <2>1, <2>2 DEF SameWords
<1>2. ASSUME NEW k \in Nat, k \in T PROVE k + 1 \in T
  <2> SUFFICES ASSUME NEW s \in Seq(known), Len(s) = k + 1 PROVE HashTextsApart(known, s)
    OBVIOUS
  <2>1. s # <<>> /\ Tail(s) \in Seq(known) /\ Len(Tail(s)) = k
    OBVIOUS
  <2>2. HashTextsApart(known, Tail(s))
    BY <1>2, <2>1
  <2> QED BY <2>1, <2>2, HashTextsApartStep
<1> HIDE DEF T
<1>3. \A k \in Nat : k \in T
  BY <1>1, <1>2, Reading!Induction
<1>4. Len(names) \in T
  BY <1>3
<1> QED BY <1>4 DEF T

(***************************************************************************)
(* For every two selections, of fields with any names and with values of   *)
(* any length, the texts that are hashed differ, unless a name can be read *)
(* in one of them where there is none.                                     *)
(***************************************************************************)
THEOREM VariantsDiffer == Spec => []VariantsApart
<1>1. Written => VariantsApart
  <2> SUFFICES ASSUME Written, Is("vary", 2) PROVE VariantsApart
    BY DEF VariantsApart
  <2> DEFINE a == input.items[1]
             b == input.items[2]
             known == DOMAIN a.values \cup DOMAIN b.values
  <2>1. a \in Selections /\ b \in Selections
    <3>1. input.items \in Seq(Selections) /\ Len(input.items) = 2
      BY DEF Written, Items, Is
    <3> QED BY <3>1
  <2> HIDE DEF a, b
  <2> SUFFICES ASSUME ~ Mistakable(a.names, a.values, known),
                      ~ Mistakable(b.names, b.values, known), HashText(a) = HashText(b)
               PROVE  a = b
    BY DEF VariantsApart, a, b
  <2>2. ASSUME NEW s \in {a, b}
        PROVE  /\ s = [names |-> s.names, values |-> s.values]
               /\ s.names \in Seq(Names)
               /\ s.values \in [{ s.names[i] : i \in DOMAIN s.names } -> Seq(Letter)]
    BY <2>1, SelectionsAssumption DEF Names
  <2>3. known \in SUBSET Names
    <3>1. \A s \in {a, b} : DOMAIN s.values \subseteq Names
      BY <2>2
    <3> QED BY <3>1
  <2>4. ASSUME NEW s \in {a, b} PROVE IsSelection(s.names, s.values, known)
    <3>1. \A i \in 1 .. Len(s.names) :
             s.names[i] \in DOMAIN s.values /\ s.values[s.names[i]] \in Seq(Letter)
      BY <2>2
    <3>2. s.names \in Seq(DOMAIN s.values)
      <4>1. Len(s.names) \in Nat /\ s.names \in [1 .. Len(s.names) -> DOMAIN s.values]
        BY <2>2, <3>1
      <4> QED BY Zenon, <4>1, SeqIs
    <3>3. DOMAIN s.values \subseteq known
      OBVIOUS
    <3>4. s.names \in Seq(known)
      BY Zenon, <3>2, <3>3, SeqWider
    <3> QED BY <3>1, <3>4 DEF IsSelection
  <2> HIDE DEF known
  <2>5. a.names \in Seq(known)
    BY <2>4 DEF IsSelection
  <2>6. HashTextsApart(known, a.names)
    BY <2>3, <2>5, HashTextsDiffer
  <2>7. SameWords(a.names, a.values, b.names, b.values)
    BY <2>4, <2>6 DEF HashTextsApart, IsPlainSelection, HashText
  <2>8. a.values = b.values
    <3>1. /\ a.values \in [{ a.names[i] : i \in DOMAIN a.names } -> Seq(Letter)]
          /\ b.values \in [{ a.names[i] : i \in DOMAIN a.names } -> Seq(Letter)]
          /\ DOMAIN a.names = 1 .. Len(a.names)
      BY <2>2, <2>7 DEF SameWords
    <3>2. \A i \in DOMAIN a.names : a.values[a.names[i]] = b.values[a.names[i]]
      BY <2>7, <3>1 DEF SameWords
    <3> QED BY <3>1, <3>2
  <2> QED BY <2>2, <2>7, <2>8 DEF SameWords
<1> QED BY <1>1, AlwaysWritten, PTL

-----------------------------------------------------------------------------
(***************************************************************************)
(* The host of a URL is taken apart at its last colon, when only digits    *)
(* follow it.                                                              *)
(***************************************************************************)
Colons(s) == { i \in 1 .. Len(s) : s[i] = U!Colon }

LEMMA SplitIs ==
    ASSUME NEW s
    PROVE  U!SplitHostPort(s)
           = LET colon == IF Colons(s) # {} THEN Max(Colons(s)) ELSE 0
                 port == SubSeq(s, colon + 1, Len(s))
             IN  IF colon # 0 /\ \A i \in DOMAIN port : port[i] \in U!Digits
                 THEN [host |-> U!StripBrackets(SubSeq(s, 1, colon - 1)), port |-> port]
                 ELSE [host |-> U!StripBrackets(s), port |-> <<>>]
BY DEF U!SplitHostPort, U!SelectLastInSeq, U!Max, Max, Colons

\* A port that is written.
LEMMA SplitPort ==
    ASSUME NEW h \in Seq(Int), NEW p \in Seq(U!Digits)
    PROVE  U!SplitHostPort(h \o (<<U!Colon>> \o p)) = [host |-> U!StripBrackets(h), port |-> p]
<1> DEFINE t == h \o (<<U!Colon>> \o p)
           m == Len(h) + 1
<1>1. p \in Seq(Int) /\ U!Colon \in Int /\ U!Colon \notin U!Digits
  <2>1. U!Digits \subseteq Int /\ U!Colon \in Int /\ U!Colon \notin U!Digits
    BY DEF U!Digits, U!Colon
  <2> QED BY Zenon, <2>1, SeqWider
<1>2. /\ t \in Seq(Int) /\ Len(t) = m + Len(p) /\ t[m] = U!Colon
      /\ \A i \in m + 1 .. Len(t) : t[i] = p[i - m] /\ i - m \in 1 .. Len(p)
  BY <1>1
<1>3. m \in Colons(t) /\ \A i \in Colons(t) : i <= m
  <2>1. m \in 1 .. Len(t)
    BY <1>2
  <2> HIDE DEF t
  <2>3. m \in Int
    OBVIOUS
  <2>2. ASSUME NEW i \in 1 .. Len(t), i > m PROVE t[i] \in U!Digits
    <3>1. i \in m + 1 .. Len(t)
      BY <1>2, <2>2
    <3>2. t[i] = p[i - m] /\ i - m \in 1 .. Len(p)
      BY <1>2, <3>1
    <3> QED BY <3>2
  <2> HIDE DEF m
  <2>4. \A i \in Colons(t) : ~ i > m
    BY <1>1, <2>2 DEF Colons
  <2> QED BY <1>2, <2>1, <2>3, <2>4 DEF Colons
<1>4. Max(Colons(t)) = m /\ Colons(t) # {}
  <2>1. Colons(t) \in SUBSET Int
    BY DEF Colons
  <2> HIDE DEF t, m
  <2> QED BY <1>3, <2>1, MaxIs
<1>5. SubSeq(t, m + 1, Len(t)) = p /\ SubSeq(t, 1, m - 1) = h
  BY <1>1, <1>2
<1>6. m # 0 /\ \A i \in DOMAIN p : p[i] \in U!Digits
  OBVIOUS
<1> HIDE DEF t, m
<1>7. U!SplitHostPort(t) = [host |-> U!StripBrackets(h), port |-> p]
  BY <1>4, <1>5, <1>6, SplitIs
<1> QED BY <1>7 DEF t

\* No port is written: the host has no colon, or it ends in a bracket.
LEMMA SplitNoPort ==
    ASSUME NEW h \in Seq(Int), Colons(h) = {} \/ (Len(h) > 0 /\ h[Len(h)] = U!CloseBracket)
    PROVE  U!SplitHostPort(h) = [host |-> U!StripBrackets(h), port |-> <<>>]
<1>1. CASE Colons(h) = {}
  BY <1>1, SplitIs
<1>2. CASE Colons(h) # {} /\ Len(h) > 0 /\ h[Len(h)] = U!CloseBracket
  <2> DEFINE m == Max(Colons(h))
             p == SubSeq(h, m + 1, Len(h))
  <2>1. m \in Colons(h)
    <3>1. Colons(h) \in SUBSET (1 .. Len(h)) /\ Len(h) \in Nat
      BY DEF Colons
    <3> QED BY <1>2, <3>1, MaxIn
  <2>2. m \in 1 .. Len(h) /\ h[m] = U!Colon
    BY <2>1 DEF Colons
  <2> HIDE DEF m
  <2>3. m < Len(h)
    BY <1>2, <2>2 DEF U!Colon, U!CloseBracket
  <2>4. Len(h) - m \in DOMAIN p /\ p[Len(h) - m] = h[Len(h)]
    BY <2>2, <2>3
  <2>5. U!CloseBracket \notin U!Digits
    BY DEF U!CloseBracket, U!Digits
  <2>6. ~ \A i \in DOMAIN p : p[i] \in U!Digits
    BY <1>2, <2>4, <2>5
  <2> QED BY <1>2, <2>6, SplitIs DEF m
<1> QED BY <1>1, <1>2

LEMMA StripIs ==
    ASSUME NEW n \in Seq(Int), \A i \in 1 .. Len(n) : n[i] # U!OpenBracket
    PROVE  /\ U!StripBrackets(n) = n
           /\ U!StripBrackets(<<U!OpenBracket>> \o n \o <<U!CloseBracket>>) = n
<1>1. U!StripBrackets(n) = n
  BY DEF U!StripBrackets
<1> DEFINE b == <<U!OpenBracket>> \o n \o <<U!CloseBracket>>
<1>2. U!OpenBracket \in Int /\ U!CloseBracket \in Int
  BY DEF U!OpenBracket, U!CloseBracket
<1>3. b \in Seq(Int) /\ Len(b) = Len(n) + 2 /\ b[1] = U!OpenBracket /\ b[Len(b)] = U!CloseBracket
  BY <1>2
<1>4. SubSeq(b, 2, Len(b) - 1) = n
  BY <1>2, <1>3
<1>5. Head(b) = b[1]
  BY <1>3
<1> HIDE DEF b
<1>6. U!StripBrackets(b) = n
  BY <1>3, <1>4, <1>5 DEF U!StripBrackets, U!Last
<1> QED BY <1>1, <1>6 DEF b

-----------------------------------------------------------------------------
NameText(r, style) == IF style.upper THEN ToUpper(r.name) ELSE r.name

LEMMA NameLetters ==
    ASSUME NEW a \in Addresses
    PROVE  LET n == NameText(a.resource, a.style)
           IN  /\ n \in Seq(0 .. 127) /\ U!ToLower(n) = a.resource.name
               /\ \A i \in 1 .. Len(n) : n[i] \notin {U!OpenBracket, U!CloseBracket}
               /\ Colons(n) = Colons(a.resource.name)
<1> DEFINE r == a.resource
           n == NameText(r, a.style)
<1>1. r.name \in Seq(HostLetters)
  BY AddressesAssumption
<1> HIDE DEF r
<1>2. Len(r.name) \in Nat /\ DOMAIN r.name = 1 .. Len(r.name)
      /\ \A i \in 1 .. Len(r.name) : r.name[i] \in HostLetters
  BY <1>1
<1>3. DOMAIN n = 1 .. Len(r.name)
      /\ \A i \in 1 .. Len(r.name) :
           n[i] = IF a.style.upper /\ r.name[i] \in U!Lowers THEN r.name[i] - 32 ELSE r.name[i]
  BY <1>2 DEF NameText, ToUpper
<1>4. n = [i \in 1 .. Len(r.name) |-> n[i]]
  <2>1. r.name = [i \in 1 .. Len(r.name) |-> r.name[i]]
    BY <1>1
  <2>2. CASE a.style.upper
    BY <1>2, <2>2 DEF NameText, ToUpper
  <2>3. CASE ~ a.style.upper
    BY <2>1, <2>3 DEF NameText
  <2> QED BY <2>2, <2>3
<1> HIDE DEF n
<1>5. ASSUME NEW i \in 1 .. Len(r.name)
      PROVE  /\ n[i] \in 0 .. 127 /\ n[i] \notin {U!OpenBracket, U!CloseBracket}
             /\ n[i] = U!Colon <=> r.name[i] = U!Colon
             /\ r.name[i] = IF n[i] \in U!Uppers THEN n[i] + 32 ELSE n[i]
  <2>1. r.name[i] \in HostLetters
        /\ n[i] = IF a.style.upper /\ r.name[i] \in U!Lowers THEN r.name[i] - 32 ELSE r.name[i]
    BY <1>2, <1>3
  <2>2. ASSUME NEW c \in HostLetters, NEW d, d = c \/ (c \in U!Lowers /\ d = c - 32)
        PROVE  /\ d \in 0 .. 127 /\ d \notin {U!OpenBracket, U!CloseBracket}
               /\ d = U!Colon <=> c = U!Colon
               /\ c = IF d \in U!Uppers THEN d + 32 ELSE d
    <3> USE DEF HostLetters, U!Uppers, U!Lowers, U!OpenBracket, U!CloseBracket, U!Colon
    <3>1. c \in Int /\ c \in 0 .. 127 /\ c \notin 65 .. 90 /\ c # 91 /\ c # 93
      OBVIOUS
    <3>2. CASE d = c
      BY <3>1, <3>2
    <3>3. CASE c \in U!Lowers /\ d = c - 32
      BY <3>1, <3>3
    <3> QED BY Zenon, <2>2, <3>2, <3>3
  <2>3. n[i] = r.name[i] \/ (r.name[i] \in U!Lowers /\ n[i] = r.name[i] - 32)
    BY Zenon, <2>1
  <2> QED BY Zenon, <2>1, <2>2, <2>3
<1>6. n \in Seq(0 .. 127) /\ Len(n) = Len(r.name)
  <2>1. n \in [1 .. Len(r.name) -> 0 .. 127]
    BY <1>4, <1>5
  <2> QED BY Zenon, <1>2, <2>1, SeqIs
<1>7. Colons(n) = Colons(r.name)
  BY <1>5, <1>6 DEF Colons
<1>8. U!ToLower(n) = r.name
  <2>1. r.name = [i \in 1 .. Len(r.name) |-> r.name[i]]
    BY <1>1
  <2> QED BY <1>3, <1>5, <2>1 DEF U!ToLower
<1> QED BY <1>5, <1>6, <1>7, <1>8 DEF n, r

(***************************************************************************)
(* However the host of a resource is written, its name and its port are    *)
(* read back from it.                                                      *)
(***************************************************************************)
LEMMA HostReadBack ==
    ASSUME NEW a \in Addresses
    PROVE  LET h == HostText(a.resource, a.style)
           IN  /\ U!ToLower(U!SplitHostPort(h).host) = a.resource.name
               /\ U!PortOf(a.resource.scheme, h) = a.resource.port
<1> DEFINE r == a.resource
           n == NameText(r, a.style)
           b == IF r.ip6 THEN <<U!OpenBracket>> \o n \o <<U!CloseBracket>> ELSE n
           h == HostText(r, a.style)
<1>1. /\ n \in Seq(0 .. 127) /\ U!ToLower(n) = r.name
      /\ \A i \in 1 .. Len(n) : n[i] \notin {U!OpenBracket, U!CloseBracket}
      /\ Colons(n) = Colons(r.name)
  BY NameLetters
<1>2. r.ip6 \in BOOLEAN /\ r.port \in Seq(U!Digits) /\ r.port # <<>> /\ r.name \in Seq(HostLetters)
      /\ (~ r.ip6 => { i \in DOMAIN r.name : r.name[i] = U!Colon } = {})
  <2>1. r.ip6 \in BOOLEAN /\ r.name \in Seq(HostLetters)
    BY Zenon, AddressesAssumption
  <2>2. r.port \in Seq(U!Digits) /\ r.port # <<>>
    BY Zenon, AddressesAssumption
  <2>3. ~ r.ip6 => { i \in DOMAIN r.name : r.name[i] = U!Colon } = {}
    BY Zenon, AddressesAssumption
  <2> QED BY Zenon, <2>1, <2>2, <2>3
<1>3. ~ r.ip6 => Colons(r.name) = {}
  BY <1>2 DEF Colons
<1>4. h = b \o (IF r.port = U!DefaultPort(r.scheme) /\ ~ a.style.port THEN <<>>
                ELSE <<U!Colon>> \o r.port)
  BY DEF HostText, NameText
<1> HIDE DEF n, r, h
<1>10. n \in Seq(Int)
  <2>1. 0 .. 127 \subseteq Int
    OBVIOUS
  <2> QED BY <1>1, <2>1, SeqWider
<1>5. U!StripBrackets(b) = n
  BY <1>1, <1>2, <1>10, StripIs
<1>6. b \in Seq(Int)
  <2>1. U!OpenBracket \in Int /\ U!CloseBracket \in Int
    BY DEF U!OpenBracket, U!CloseBracket
  <2>2. <<U!OpenBracket>> \o n \o <<U!CloseBracket>> \in Seq(Int)
    BY <1>10, <2>1
  <2> QED BY <1>10, <2>2
<1>7. Colons(b) = {} \/ (Len(b) > 0 /\ b[Len(b)] = U!CloseBracket)
  <2>1. CASE r.ip6
    <3>1. U!OpenBracket \in Int /\ U!CloseBracket \in Int
      BY DEF U!OpenBracket, U!CloseBracket
    <3>2. Len(b) = Len(n) + 2 /\ b[Len(b)] = U!CloseBracket
      BY <1>1, <2>1, <3>1
    <3>3. Len(n) \in Nat
      BY <1>1
    <3> HIDE DEF b
    <3> QED BY <3>2, <3>3
  <2>2. CASE ~ r.ip6
    BY <1>1, <1>3, <2>2
  <2> QED BY <1>2, <2>1, <2>2
<1> HIDE DEF b
<1>8. CASE r.port = U!DefaultPort(r.scheme) /\ ~ a.style.port
  <2>1. h = b
    BY <1>4, <1>6, <1>8
  <2>2. U!SplitHostPort(h) = [host |-> n, port |-> <<>>]
    BY <1>5, <1>6, <1>7, <2>1, SplitNoPort
  <2>3. U!PortOf(r.scheme, h) = r.port
    BY <1>8, <2>2 DEF U!PortOf
  <2> QED BY <1>1, <2>2, <2>3 DEF r, h
<1>9. CASE ~ (r.port = U!DefaultPort(r.scheme) /\ ~ a.style.port)
  <2>1. h = b \o (<<U!Colon>> \o r.port)
    BY <1>4, <1>9
  <2>2. U!SplitHostPort(h) = [host |-> n, port |-> r.port]
    BY <1>2, <1>5, <1>6, <2>1, SplitPort
  <2>3. U!PortOf(r.scheme, h) = r.port
    BY <1>2, <2>2 DEF U!PortOf
  <2> QED BY <1>1, <2>2, <2>3 DEF r, h
<1> QED BY <1>8, <1>9

(***************************************************************************)
(* For all URLs, sameOrigin tells exactly whether scheme, host and port    *)
(* are the same.                                                           *)
(***************************************************************************)
THEOREM OriginDecided == Spec => []OriginOfResource
<1>1. Written => OriginOfResource
  <2> SUFFICES ASSUME Written, Is("url", 2) PROVE OriginOfResource
    BY DEF OriginOfResource
  <2> DEFINE a == input.items[1]
             b == input.items[2]
             r == a.resource
             s == b.resource
  <2>1. a \in Addresses /\ b \in Addresses
    <3>1. input.items \in Seq(Addresses) /\ Len(input.items) = 2
      BY DEF Written, Items, Is
    <3> QED BY <3>1
  <2> HIDE DEF a, b
  <2>2. /\ U!ToLower(U!SplitHostPort(HostText(r, a.style)).host) = r.name
        /\ U!PortOf(r.scheme, HostText(r, a.style)) = r.port
        /\ U!ToLower(U!SplitHostPort(HostText(s, b.style)).host) = s.name
        /\ U!PortOf(s.scheme, HostText(s, b.style)) = s.port
    BY <2>1, HostReadBack
  <2>3. r.name = s.name => r.ip6 = s.ip6
    <3>1. ASSUME NEW c \in Addresses
          PROVE  /\ c.resource.ip6 \in BOOLEAN
                 /\ c.resource.ip6 <=>
                       \E i \in DOMAIN c.resource.name : c.resource.name[i] = U!Colon
      BY Zenon, AddressesAssumption
    <3> QED BY Zenon, <2>1, <3>1
  <2>4. /\ Url(a).scheme = r.scheme /\ Url(a).host = HostText(r, a.style)
        /\ Url(b).scheme = s.scheme /\ Url(b).host = HostText(s, b.style)
    BY DEF Url
  <2>5. U!SameOrigin(Url(a), Url(b))
        <=> r.scheme = s.scheme /\ r.name = s.name /\ r.port = s.port
    BY <2>2, <2>4 DEF U!SameOrigin
  <2>6. U!SameOrigin(Url(a), Url(b))
        <=> <<r.scheme, r.name, r.ip6, r.port>> = <<s.scheme, s.name, s.ip6, s.port>>
    BY <2>3, <2>5
  <2> QED BY <2>6 DEF OriginOfResource, a, b
<1> QED BY <1>1, AlwaysWritten, PTL

-----------------------------------------------------------------------------
(***************************************************************************)
(* The recursion of normalizePercentEncoding over the bytes from i on.     *)
(***************************************************************************)
Coded(b) == IF U!IsUnreserved(b) THEN U!WriteRune(b) ELSE U!PercentEncodeUpper(b)
ByteAt(s, i) == 16 * U!FromHex(s[i + 1]) + U!FromHex(s[i + 2])

FromBody(f, s, i) ==
    IF i > Len(s) THEN <<>>
    ELSE IF U!IsEscape(s, i) THEN Coded(ByteAt(s, i)) \o f[i + 3]
    ELSE <<s[i]>> \o f[i + 1]

IsFrom(f, s) == f = [i \in Nat |-> FromBody(f, s, i)]
From(s) == CHOOSE f : IsFrom(f, s)

LEMMA NormalizeIs == \A s : U!NormalizePercentEncoding(s) = From(s)[1]
BY DEF U!NormalizePercentEncoding, From, IsFrom, FromBody, Coded, ByteAt

LEMMA FromExists == ASSUME NEW S, NEW s \in Seq(S) PROVE IsFrom(From(s), s)
<1> DEFINE n == Len(s)
           Down(f, k) == \A i \in Nat : i + k > n => f[i] = FromBody(f, s, i)
           T == { k \in Nat : \E f : DOMAIN f = Nat /\ f = [i \in Nat |-> f[i]] /\ Down(f, k) }
<1>1. n \in Nat
  OBVIOUS
<1> HIDE DEF n
<1>2. 0 \in T
  <2> DEFINE f == [i \in Nat |-> <<>>]
  <2>1. \A i \in Nat : i + 0 > n => FromBody(f, s, i) = <<>>
    BY <1>1 DEF FromBody, n
  <2>2. DOMAIN f = Nat /\ f = [i \in Nat |-> f[i]] /\ Down(f, 0)
    BY <2>1
  <2> HIDE DEF f
  <2>3. \E e : DOMAIN e = Nat /\ e = [i \in Nat |-> e[i]] /\ Down(e, 0)
    BY Zenon, <2>2
  <2> QED BY <2>3
<1>3. ASSUME NEW k \in Nat, k \in T PROVE k + 1 \in T
  <2>1. PICK f : DOMAIN f = Nat /\ f = [i \in Nat |-> f[i]] /\ Down(f, k)
    BY <1>3
  <2> DEFINE g == [i \in Nat |-> IF i + k > n THEN f[i] ELSE FromBody(f, s, i)]
  <2>2. ASSUME NEW i \in Nat, i + (k + 1) > n PROVE g[i] = FromBody(g, s, i)
    <3>1. i + 1 \in Nat /\ i + 3 \in Nat /\ (i + 1) + k > n /\ (i + 3) + k > n
      BY <1>1, <2>2
    <3>2. g[i + 1] = f[i + 1] /\ g[i + 3] = f[i + 3]
      BY <3>1
    <3>3. g[i] = FromBody(f, s, i)
      BY <1>1, <2>1
    <3> HIDE DEF g
    <3> QED BY <3>2, <3>3 DEF FromBody
  <2>3. DOMAIN g = Nat /\ g = [i \in Nat |-> g[i]]
    OBVIOUS
  <2> HIDE DEF g
  <2>4. Down(g, k + 1)
    BY <2>2
  <2>5. \E e : DOMAIN e = Nat /\ e = [i \in Nat |-> e[i]] /\ Down(e, k + 1)
    BY Zenon, <2>3, <2>4
  <2> QED BY <2>5
<1>4. n + 1 \in T
  <2> HIDE DEF T
  <2>1. \A k \in Nat : k \in T
    BY <1>2, <1>3, Reading!Induction
  <2> QED BY <1>1, <2>1
<1>5. PICK f : f = [i \in Nat |-> f[i]] /\ Down(f, n + 1)
  BY <1>4
<1>6. \A i \in Nat : f[i] = FromBody(f, s, i)
  BY <1>1, <1>5
<1>7. IsFrom(f, s)
  BY <1>5, <1>6 DEF IsFrom
<1> QED BY <1>7 DEF From

LEMMA FromAt ==
    ASSUME NEW S, NEW s \in Seq(S), NEW i \in Nat PROVE From(s)[i] = FromBody(From(s), s, i)
<1> DEFINE f == From(s)
<1>1. f = [j \in Nat |-> FromBody(f, s, j)]
  BY FromExists DEF IsFrom
<1> HIDE DEF f
<1> QED BY <1>1 DEF f

\* What is read behind x does not depend on x.
LEMMA FromShift ==
    ASSUME NEW S, NEW x \in Seq(S), NEW t \in Seq(S)
    PROVE  From(x \o t)[Len(x) + 1] = From(t)[1]
<1> DEFINE m == Len(x)
           n == Len(t)
           s == x \o t
           T == { k \in Nat : \A i \in Nat : i >= 1 /\ i + k > n => From(s)[i + m] = From(t)[i] }
<1>1. /\ m \in Nat /\ n \in Nat /\ s \in Seq(S) /\ Len(s) = m + n
      /\ \A i \in 1 .. n : s[i + m] = t[i]
  OBVIOUS
<1> HIDE DEF m, n, s
<1>2. \A i \in Nat : /\ From(s)[i + m] = FromBody(From(s), s, i + m)
                     /\ From(t)[i] = FromBody(From(t), t, i)
  BY <1>1, FromAt
<1>3. 0 \in T
  <2> SUFFICES ASSUME NEW i \in Nat, i > n PROVE From(s)[i + m] = From(t)[i]
    BY <1>1
  <2>1. i + m > Len(s) /\ i > Len(t)
    BY <1>1 DEF n
  <2> QED BY <1>2, <2>1 DEF FromBody
<1>4. ASSUME NEW k \in Nat, k \in T PROVE k + 1 \in T
  <2> SUFFICES ASSUME NEW i \in Nat, i >= 1, i + (k + 1) > n PROVE From(s)[i + m] = From(t)[i]
    OBVIOUS
  <2>1. CASE i > n
    <3>1. i + m > Len(s) /\ i > Len(t)
      BY <1>1, <2>1 DEF n
    <3> QED BY <1>2, <3>1 DEF FromBody
  <2>2. CASE i <= n
    <3>1. i + 1 \in Nat /\ i + 3 \in Nat /\ i + 1 >= 1 /\ i + 3 >= 1 /\ (i + 1) + k > n /\ (i + 3) + k > n
      BY <1>1
    <3>2. From(s)[(i + 1) + m] = From(t)[i + 1] /\ From(s)[(i + 3) + m] = From(t)[i + 3]
      BY <1>4, <3>1
    <3>3. (i + 1) + m = (i + m) + 1 /\ (i + 2) + m = (i + m) + 2 /\ (i + 3) + m = (i + m) + 3
      BY <1>1
    <3>4. s[i + m] = t[i] /\ ~ i + m > Len(s) /\ ~ i > Len(t)
      BY <1>1, <2>2 DEF n
    <3>5. i + 2 <= Len(t) => s[(i + m) + 1] = t[i + 1] /\ s[(i + m) + 2] = t[i + 2]
      <4> SUFFICES ASSUME i + 2 <= Len(t)
                   PROVE  s[(i + m) + 1] = t[i + 1] /\ s[(i + m) + 2] = t[i + 2]
        OBVIOUS
      <4>1. i + 1 \in 1 .. n /\ i + 2 \in 1 .. n
        BY <1>1 DEF n
      <4> QED BY <1>1, <3>3, <4>1
    <3>6. (i + m) + 2 <= Len(s) <=> i + 2 <= Len(t)
      BY <1>1 DEF n
    <3>7. U!IsEscape(s, i + m) <=> U!IsEscape(t, i)
      BY <3>4, <3>5, <3>6 DEF U!IsEscape
    <3>8. U!IsEscape(t, i) => ByteAt(s, i + m) = ByteAt(t, i)
      BY <3>5 DEF ByteAt, U!IsEscape
    <3>9. FromBody(From(s), s, i + m) = FromBody(From(t), t, i)
      BY <3>2, <3>3, <3>4, <3>7, <3>8 DEF FromBody
    <3> QED BY <1>2, <3>9
  <2> QED BY <1>1, <2>1, <2>2
<1>5. n + 1 \in T
  <2> HIDE DEF T
  <2>1. \A k \in Nat : k \in T
    BY <1>3, <1>4, Reading!Induction
  <2> QED BY <1>1, <2>1
<1>6. From(s)[1 + m] = From(t)[1]
  BY <1>1, <1>5
<1> QED BY <1>1, <1>6 DEF m, s

Text == Seq(Int)
N(s) == U!NormalizePercentEncoding(s)

\* What escapes are made of.
LEMMA HexValue ==
    \A c : U!IsHexDigit(c) => U!FromHex(c) \in 0 .. 15
<1> SUFFICES ASSUME NEW c, U!IsHexDigit(c) PROVE U!FromHex(c) \in 0 .. 15
  OBVIOUS
<1> USE DEF U!Digits, U!Lowers
<1>1. c \in 48 .. 57 \/ c \in 65 .. 70 \/ c \in 97 .. 102
  BY DEF U!IsHexDigit
<1>2. CASE c \in 48 .. 57
  BY <1>2 DEF U!FromHex
<1>3. CASE c \in 65 .. 70
  BY <1>3 DEF U!FromHex
<1>4. CASE c \in 97 .. 102
  BY <1>4 DEF U!FromHex
<1> QED BY <1>1, <1>2, <1>3, <1>4

LEMMA HexDigits ==
    \A n \in 0 .. 15 : /\ U!HexDigit(n) \in (48 .. 57) \cup (65 .. 70)
                       /\ U!IsHexDigit(U!HexDigit(n)) /\ U!FromHex(U!HexDigit(n)) = n
BY DEF U!HexDigit, U!FromHex, U!IsHexDigit, U!Digits, U!Lowers

(***************************************************************************)
(* How an octet is written in a key: an ASCII letter, a letter of Latin-1  *)
(* in two bytes, or an escape.                                             *)
(***************************************************************************)
Wide(o) == o >= 128 /\ U!IsUnreserved(o)

LEMMA CodedPlain == \A o \in 0 .. 255 : o \in Plain => Coded(o) = <<o>> /\ o < 128 /\ ~ Wide(o)
<1> SUFFICES ASSUME NEW o \in 0 .. 255, o \in Plain
             PROVE  Coded(o) = <<o>> /\ o < 128 /\ ~ Wide(o)
  OBVIOUS
<1>1. o < 128 /\ U!IsUnreserved(o)
  BY DEF Plain, U!IsUnreserved, U!Letters, U!Digits, U!Uppers, U!Lowers, U!Dot
<1> QED BY <1>1 DEF Coded, Wide, U!WriteRune

LEMMA CodedWide ==
    \A o \in 0 .. 255 : Wide(o) =>
        Coded(o) = <<192 + (o \div 64), 128 + (o % 64)>> /\ o \notin Plain
<1> SUFFICES ASSUME NEW o \in 0 .. 255, Wide(o)
             PROVE  Coded(o) = <<192 + (o \div 64), 128 + (o % 64)>> /\ o \notin Plain
  OBVIOUS
<1>1. o \notin Plain
  BY CodedPlain
<1> QED BY <1>1 DEF Coded, Wide, U!WriteRune

LEMMA CodedEscape ==
    \A o \in 0 .. 255 : o \notin Plain /\ ~ Wide(o) =>
        Coded(o) = <<U!Percent, U!HexDigit(o \div 16), U!HexDigit(o % 16)>>
<1> SUFFICES ASSUME NEW o \in 0 .. 255, o \notin Plain, ~ Wide(o)
             PROVE  Coded(o) = <<U!Percent, U!HexDigit(o \div 16), U!HexDigit(o % 16)>>
  OBVIOUS
<1>1. ~ U!IsUnreserved(o)
  BY DEF Wide, Plain, U!IsUnreserved, U!Letters, U!Digits, U!Uppers, U!Lowers, U!Dot
<1> QED BY <1>1 DEF Coded, U!PercentEncodeUpper

LEMMA CodedType == \A o \in 0 .. 255 : Coded(o) \in Text
<1> SUFFICES ASSUME NEW o \in 0 .. 255 PROVE Coded(o) \in Text
  OBVIOUS
<1>1. o \div 16 \in 0 .. 15 /\ o % 16 \in 0 .. 15
  OBVIOUS
<1>2. U!HexDigit(o \div 16) \in Int /\ U!HexDigit(o % 16) \in Int /\ U!Percent \in Int
  BY <1>1, HexDigits DEF U!Percent
<1>3. CASE o \in Plain
  <2>1. Coded(o) = <<o>>
    BY Zenon, <1>3, CodedPlain
  <2> QED BY <2>1 DEF Text
<1>4. CASE Wide(o)
  <2>1. Coded(o) = <<192 + (o \div 64), 128 + (o % 64)>>
    BY Zenon, <1>4, CodedWide
  <2>2. 192 + (o \div 64) \in Int /\ 128 + (o % 64) \in Int
    OBVIOUS
  <2> QED BY <2>1, <2>2 DEF Text
<1>5. CASE o \notin Plain /\ ~ Wide(o)
  <2>1. Coded(o) = <<U!Percent, U!HexDigit(o \div 16), U!HexDigit(o % 16)>>
    BY Zenon, <1>5, CodedEscape
  <2> QED BY <1>2, <2>1 DEF Text
<1> QED BY <1>3, <1>4, <1>5

LEMMA FromType ==
    ASSUME NEW s \in Text PROVE \A i \in Nat : i >= 1 => From(s)[i] \in Text
<1> DEFINE n == Len(s)
           T == { k \in Nat : \A i \in Nat : i >= 1 /\ i + k > n => From(s)[i] \in Text }
<1>1. n \in Nat /\ \A i \in 1 .. n : s[i] \in Int
  BY DEF Text
<1>2. \A i \in Nat : From(s)[i] = FromBody(From(s), s, i)
  BY FromAt DEF Text
<1> HIDE DEF n
<1>3. 0 \in T
  <2> SUFFICES ASSUME NEW i \in Nat, i > n PROVE From(s)[i] \in Text
    BY <1>1
  <2>1. From(s)[i] = <<>>
    BY <1>2 DEF FromBody, n
  <2> QED BY <2>1 DEF Text
<1>4. ASSUME NEW k \in Nat, k \in T PROVE k + 1 \in T
  <2> SUFFICES ASSUME NEW i \in Nat, i >= 1, i + (k + 1) > n PROVE From(s)[i] \in Text
    OBVIOUS
  <2>1. CASE i > n
    <3>1. From(s)[i] = <<>>
      BY <1>2, <2>1 DEF FromBody, n
    <3> QED BY <3>1 DEF Text
  <2>2. CASE i <= n
    <3>1. i + 1 \in Nat /\ i + 3 \in Nat /\ i + 1 >= 1 /\ i + 3 >= 1
          /\ (i + 1) + k > n /\ (i + 3) + k > n
      BY <1>1
    <3>2. From(s)[i + 1] \in Text /\ From(s)[i + 3] \in Text
      BY <1>4, <3>1
    <3>3. i \in 1 .. n /\ s[i] \in Int /\ ~ i > Len(s)
      BY <1>1, <2>2 DEF n
    <3>4. CASE U!IsEscape(s, i)
      <4>1. U!IsHexDigit(s[i + 1]) /\ U!IsHexDigit(s[i + 2])
        BY <3>4 DEF U!IsEscape
      <4>2. ByteAt(s, i) \in 0 .. 255
        <5>1. U!FromHex(s[i + 1]) \in 0 .. 15 /\ U!FromHex(s[i + 2]) \in 0 .. 15
          BY <4>1, HexValue
        <5> QED BY <5>1 DEF ByteAt
      <4>3. Coded(ByteAt(s, i)) \in Text
        BY <4>2, CodedType
      <4>4. From(s)[i] = Coded(ByteAt(s, i)) \o From(s)[i + 3]
        BY <1>2, <3>3, <3>4 DEF FromBody
      <4> QED BY <3>2, <4>3, <4>4 DEF Text
    <3>5. CASE ~ U!IsEscape(s, i)
      <4>1. From(s)[i] = <<s[i]>> \o From(s)[i + 1]
        BY <1>2, <3>3, <3>5 DEF FromBody
      <4> QED BY <3>2, <3>3, <4>1 DEF Text
    <3> QED BY <3>4, <3>5
  <2> QED BY <1>1, <2>1, <2>2
<1>5. \A k \in Nat : k \in T
  <2> HIDE DEF T
  <2> QED BY <1>3, <1>4, Reading!Induction
<1> SUFFICES ASSUME NEW i \in Nat, i >= 1 PROVE From(s)[i] \in Text
  OBVIOUS
<1>6. n \in T
  BY <1>1, <1>5
<1> QED BY <1>1, <1>6

LEMMA NType == ASSUME NEW s \in Text PROVE N(s) \in Text
BY FromType, NormalizeIs DEF N

LEMMA NNone == N(<<>>) = <<>>
<1>1. <<>> \in Seq(Int)
  OBVIOUS
<1>2. From(<<>>)[1] = FromBody(From(<<>>), <<>>, 1)
  BY <1>1, FromAt
<1>3. FromBody(From(<<>>), <<>>, 1) = <<>>
  BY DEF FromBody
<1> QED BY <1>2, <1>3, NormalizeIs DEF N

\* A byte that begins no escape stays.
LEMMA NPlain ==
    ASSUME NEW c \in Int, c # U!Percent, NEW t \in Text
    PROVE  N(<<c>> \o t) = <<c>> \o N(t)
<1> DEFINE s == <<c>> \o t
<1>1. s \in Seq(Int) /\ s[1] = c /\ ~ 1 > Len(s) /\ <<c>> \in Seq(Int) /\ Len(<<c>>) = 1 /\ t \in Seq(Int)
  BY DEF Text
<1>2. From(s)[1 + 1] = From(t)[1]
  BY <1>1, FromShift
<1> HIDE DEF s
<1>3. From(s)[1] = FromBody(From(s), s, 1)
  BY <1>1, FromAt
<1>4. ~ U!IsEscape(s, 1)
  BY <1>1 DEF U!IsEscape
<1>5. From(s)[1] = <<c>> \o From(t)[1]
  BY <1>1, <1>2, <1>3, <1>4 DEF FromBody
<1> QED BY <1>5, NormalizeIs DEF N, s

\* An escape is read as one octet.
LEMMA NEscape ==
    ASSUME NEW x \in Int, NEW y \in Int, U!IsHexDigit(x), U!IsHexDigit(y), NEW t \in Text
    PROVE  N(<<U!Percent, x, y>> \o t) = Coded(16 * U!FromHex(x) + U!FromHex(y)) \o N(t)
<1> DEFINE e == <<U!Percent, x, y>>
           s == e \o t
<1>0. U!Percent \in Int
  BY DEF U!Percent
<1>1. /\ e \in Seq(Int) /\ Len(e) = 3 /\ t \in Seq(Int)
      /\ s \in Seq(Int) /\ s[1] = U!Percent /\ s[2] = x /\ s[3] = y /\ Len(s) = 3 + Len(t)
      /\ Len(t) \in Nat
  BY <1>0 DEF Text
<1>2. From(s)[3 + 1] = From(t)[1]
  BY <1>1, FromShift
<1> HIDE DEF s
<1>3. From(s)[1] = FromBody(From(s), s, 1)
  BY <1>1, FromAt
<1>4. U!IsEscape(s, 1) /\ ~ 1 > Len(s)
  BY <1>1 DEF U!IsEscape
<1>5. ByteAt(s, 1) = 16 * U!FromHex(x) + U!FromHex(y)
  BY <1>1 DEF ByteAt
<1>6. FromBody(From(s), s, 1) = Coded(ByteAt(s, 1)) \o From(s)[1 + 3]
  BY Zenon, <1>4 DEF FromBody
<1>7. From(s)[1 + 3] = From(t)[1]
  BY <1>2
<1>8. From(s)[1] = Coded(16 * U!FromHex(x) + U!FromHex(y)) \o From(t)[1]
  BY <1>3, <1>5, <1>6, <1>7
<1> QED BY <1>8, NormalizeIs DEF N, s

Assoc(x, y, z) == x \o (y \o z) = (x \o y) \o z

LEMMA SeqAssoc == \A S : \A x, y, z \in Seq(S) : Assoc(x, y, z)
<1> SUFFICES ASSUME NEW S, NEW x \in Seq(S), NEW y \in Seq(S), NEW z \in Seq(S)
             PROVE  Assoc(x, y, z)
  BY Zenon
<1> QED BY DEF Assoc

LEMMA TextAssoc == \A x, y, z \in Text : Assoc(x, y, z)
BY Zenon, SeqAssoc DEF Text

LEMMA TextConcat ==
    /\ \A x, y \in Text : x \o y \in Text
    /\ \A x, y, z \in Text : x \o (y \o z) = (x \o y) \o z
    /\ \A x \in Text : x \o <<>> = x /\ <<>> \o x = x
<1>1. \A x, y \in Text : x \o y \in Text
  BY DEF Text
<1>2. \A x, y, z \in Text : x \o (y \o z) = (x \o y) \o z
  <2> SUFFICES ASSUME NEW x \in Text, NEW y \in Text, NEW z \in Text PROVE Assoc(x, y, z)
    BY Zenon DEF Assoc
  <2> QED BY Zenon, TextAssoc
<1>3. \A x \in Text : x \o <<>> = x /\ <<>> \o x = x
  BY DEF Text
<1> QED BY <1>1, <1>2, <1>3

\* A list of texts, taken apart.
LEMMA TextCons ==
    ASSUME NEW x \in Text, NEW ss \in Seq(Text)
    PROVE  FlattenSeq(<<x>> \o ss) = x \o FlattenSeq(ss) /\ FlattenSeq(ss) \in Text
<1>1. x \in Seq(Int) /\ ss \in Seq(Seq(Int))
  BY DEF Text
<1>2. Reading!Flat(<<x>> \o ss) = x \o Reading!Flat(ss)
  BY <1>1, Reading!FlattenCons
<1>3. Reading!Flat(ss) \in Seq(Int)
  BY <1>1, Reading!FlattenType
<1> QED BY Zenon, <1>2, <1>3, FlattenIs DEF Text

(***************************************************************************)
(* y is what is made of x, whatever follows x.                             *)
(***************************************************************************)
Normal(x, y) == x \in Text /\ y \in Text /\ \A t \in Text : N(x \o t) = y \o N(t)

LEMMA NormalNone == Normal(<<>>, <<>>)
<1> SUFFICES ASSUME NEW t \in Text PROVE N(<<>> \o t) = <<>> \o N(t)
  BY DEF Normal, Text
<1>1. N(t) \in Text /\ <<>> \o t = t
  BY NType DEF Text
<1> QED BY <1>1 DEF Text

LEMMA NormalConcat ==
    ASSUME NEW x, NEW y, NEW u, NEW v, Normal(x, y), Normal(u, v)
    PROVE  Normal(x \o u, y \o v)
<1>1. x \in Text /\ y \in Text /\ u \in Text /\ v \in Text
  BY DEF Normal
<1>2. x \o u \in Text /\ y \o v \in Text
  BY <1>1 DEF Text
<1>3. ASSUME NEW t \in Text PROVE N((x \o u) \o t) = (y \o v) \o N(t)
  <2>1. (x \o u) \o t = x \o (u \o t) /\ u \o t \in Text
    BY <1>1 DEF Text
  <2>2. N(x \o (u \o t)) = y \o N(u \o t) /\ N(u \o t) = v \o N(t)
    BY <2>1 DEF Normal
  <2>3. y \o (v \o N(t)) = (y \o v) \o N(t)
    <3>1. N(t) \in Text
      BY NType
    <3> QED BY Zenon, <1>1, <3>1, TextConcat
  <2> QED BY <2>1, <2>2, <2>3
<1> QED BY <1>2, <1>3 DEF Normal

LEMMA NormalFlatten ==
    ASSUME NEW ss \in Seq(Text), NEW cs \in Seq(Text), Len(ss) = Len(cs),
           \A i \in 1 .. Len(ss) : Normal(ss[i], cs[i])
    PROVE  Normal(FlattenSeq(ss), FlattenSeq(cs))
<1> DEFINE Pairs(x, y) == Len(x) = Len(y) /\ \A i \in 1 .. Len(x) : Normal(x[i], y[i])
           T == { k \in Nat : \A x, y \in Seq(Text) :
                    Len(x) = k /\ Pairs(x, y) => Normal(FlattenSeq(x), FlattenSeq(y)) }
<1>1. 0 \in T
  <2> SUFFICES ASSUME NEW x \in Seq(Text), NEW y \in Seq(Text), Len(x) = 0, Len(y) = 0
               PROVE  Normal(FlattenSeq(x), FlattenSeq(y))
    OBVIOUS
  <2>1. x = <<>> /\ y = <<>>
    OBVIOUS
  <2> QED BY <2>1, NormalNone, FlattenIs, Reading!FlattenNone
<1>2. ASSUME NEW k \in Nat, k \in T PROVE k + 1 \in T
  <2> SUFFICES ASSUME NEW x \in Seq(Text), NEW y \in Seq(Text), Len(x) = k + 1, Pairs(x, y)
               PROVE  Normal(FlattenSeq(x), FlattenSeq(y))
    OBVIOUS
  <2>0. x # <<>> /\ y # <<>> /\ Len(y) = k + 1
    OBVIOUS
  <2>1. /\ x[1] \in Text /\ Tail(x) \in Seq(Text) /\ x = <<x[1]>> \o Tail(x)
        /\ Len(Tail(x)) = Len(x) - 1
    BY <2>0, Reading!HeadAndTail
  <2>2. /\ y[1] \in Text /\ Tail(y) \in Seq(Text) /\ y = <<y[1]>> \o Tail(y)
        /\ Len(Tail(y)) = Len(y) - 1
    BY <2>0, Reading!HeadAndTail
  <2>3. Normal(x[1], y[1])
    OBVIOUS
  <2>4. Pairs(Tail(x), Tail(y))
    <3>1. \A i \in 1 .. k : Tail(x)[i] = x[i + 1] /\ Tail(y)[i] = y[i + 1] /\ i + 1 \in 1 .. k + 1
      BY <2>0, <2>1, <2>2
    <3>2. Len(Tail(x)) = k /\ Len(Tail(y)) = k
      BY <2>0, <2>1, <2>2
    <3> QED BY <3>1, <3>2
  <2>5. Normal(FlattenSeq(Tail(x)), FlattenSeq(Tail(y)))
    <3>1. Len(Tail(x)) = k
      BY <2>1
    <3> HIDE DEF Pairs
    <3> QED BY <1>2, <2>1, <2>2, <2>4, <3>1
  <2> HIDE DEF Pairs, T
  <2>6. FlattenSeq(<<x[1]>> \o Tail(x)) = x[1] \o FlattenSeq(Tail(x))
    BY <2>1, TextCons
  <2>7. FlattenSeq(<<y[1]>> \o Tail(y)) = y[1] \o FlattenSeq(Tail(y))
    BY <2>2, TextCons
  <2>8. FlattenSeq(x) = x[1] \o FlattenSeq(Tail(x)) /\ FlattenSeq(y) = y[1] \o FlattenSeq(Tail(y))
    BY Zenon, <2>1, <2>2, <2>6, <2>7
  <2>9. Normal(x[1] \o FlattenSeq(Tail(x)), y[1] \o FlattenSeq(Tail(y)))
    BY <2>3, <2>5, NormalConcat
  <2> QED BY <2>8, <2>9
<1> HIDE DEF T
<1>3. \A k \in Nat : k \in T
  BY <1>1, <1>2, Reading!Induction
<1>4. Len(ss) \in T
  BY <1>3
<1> QED BY <1>4 DEF T

LEMMA NormalAlone == ASSUME NEW x, NEW y, Normal(x, y) PROVE N(x) = y
<1>1. x \in Text /\ y \in Text /\ <<>> \in Text
  BY DEF Normal, Text
<1>2. N(x \o <<>>) = y \o N(<<>>)
  BY <1>1 DEF Normal
<1>3. x \o <<>> = x /\ y \o <<>> = y
  BY <1>1 DEF Text
<1> QED BY <1>2, <1>3, NNone

LEMMA NormalPlain == ASSUME NEW c \in Int, c # U!Percent PROVE Normal(<<c>>, <<c>>)
<1>1. <<c>> \in Text
  BY DEF Text
<1> QED BY <1>1, NPlain DEF Normal

-----------------------------------------------------------------------------
Octal == (0 .. 255) \cup { Delimiter + d : d \in Delimiters }

Canon(o) == IF o >= Delimiter THEN <<o - Delimiter>> ELSE Coded(o)
Canonical(s) == FlattenSeq([i \in 1 .. Len(s) |-> Canon(s[i])])

\* A digit of an escape, in either case.
LEMMA HexText ==
    ASSUME NEW n \in 0 .. 15, NEW style
    PROVE  /\ Hex(n, style) \in Int \ {U!Slash} /\ U!IsHexDigit(Hex(n, style))
           /\ U!FromHex(Hex(n, style)) = n
<1> USE DEF Hex, U!IsHexDigit, U!FromHex, U!Digits, U!Lowers, U!Slash
<1>1. CASE n < 10
  BY <1>1
<1>2. CASE n >= 10 /\ style = "lower"
  BY <1>2
<1>3. CASE n >= 10 /\ style # "lower"
  BY <1>3
<1> QED BY <1>1, <1>2, <1>3

(***************************************************************************)
(* An octet comes out as its canonical form, however it is written.        *)
(***************************************************************************)
LEMMA OctetNormal ==
    ASSUME NEW o \in Octal, NEW style, NEW raw, o \in raw => o \in Plain \/ o >= Delimiter
    PROVE  /\ Normal(Octet(o, style, raw), Canon(o))
           /\ Len(Octet(o, style, raw)) > 0
           /\ o < Delimiter => Octet(o, style, raw) \in Seq(Int \ {U!Slash})
<1>1. CASE o >= Delimiter
  <2>1. PICK d \in Delimiters : o = Delimiter + d
    BY <1>1 DEF Octal, Delimiter
  <2>2. d \in Int /\ d # U!Percent /\ o - Delimiter = d
    BY <2>1 DEF Delimiters, Delimiter
  <2>3. Octet(o, style, raw) = <<d>> /\ Canon(o) = <<d>>
    BY <1>1, <2>2 DEF Octet, Canon
  <2>4. Normal(<<d>>, <<d>>) /\ Len(<<d>>) > 0
    BY <2>2, NormalPlain
  <2>5. ~ o < Delimiter
    BY <1>1, <2>1, <2>2 DEF Delimiter
  <2> QED BY Zenon, <2>3, <2>4, <2>5
<1>2. CASE o \in 0 .. 255 /\ style = "least" /\ o \in raw
  <2>1. o < Delimiter /\ o \in Plain /\ ~ o >= Delimiter
    BY <1>2 DEF Delimiter
  <2>2. Octet(o, style, raw) = <<o>> /\ Canon(o) = <<o>>
    BY <1>2, <2>1, CodedPlain DEF Octet, Canon
  <2>3. o # U!Percent /\ o # U!Slash
    BY <2>1 DEF Plain, U!Percent, U!Slash, U!Digits, U!Uppers, U!Lowers
  <2>4. Normal(<<o>>, <<o>>) /\ Len(<<o>>) > 0
    BY <1>2, <2>3, NormalPlain
  <2>5. <<o>> \in Seq(Int \ {U!Slash})
    BY <1>2, <2>3
  <2> QED BY Zenon, <2>2, <2>4, <2>5
<1>3. CASE o \in 0 .. 255 /\ ~ (style = "least" /\ o \in raw)
  <2> DEFINE x == Hex(o \div 16, style)
             y == Hex(o % 16, style)
  <2>1. ~ o >= Delimiter /\ o \div 16 \in 0 .. 15 /\ o % 16 \in 0 .. 15
        /\ o = 16 * (o \div 16) + (o % 16)
    BY <1>3 DEF Delimiter
  <2>2. Octet(o, style, raw) = <<U!Percent, x, y>> /\ Canon(o) = Coded(o)
    BY <1>3, <2>1 DEF Octet, Canon
  <2>3. /\ x \in Int \ {U!Slash} /\ U!IsHexDigit(x) /\ U!FromHex(x) = o \div 16
        /\ y \in Int \ {U!Slash} /\ U!IsHexDigit(y) /\ U!FromHex(y) = o % 16
    BY <2>1, HexText
  <2>4. U!Percent \in Int \ {U!Slash}
    BY DEF U!Percent, U!Slash
  <2>5. 16 * U!FromHex(x) + U!FromHex(y) = o
    BY <2>1, <2>3
  <2> HIDE DEF x, y
  <2>6. \A t \in Text : N(<<U!Percent, x, y>> \o t) = Coded(o) \o N(t)
    BY <2>3, <2>5, NEscape
  <2>7. Coded(o) \in Text
    BY <1>3, CodedType
  <2>8. <<U!Percent, x, y>> \in Text /\ <<U!Percent, x, y>> \in Seq(Int \ {U!Slash})
        /\ Len(<<U!Percent, x, y>>) > 0
    BY <2>3, <2>4 DEF Text
  <2> QED BY <2>2, <2>6, <2>7, <2>8 DEF Normal
<1>4. o \in 0 .. 255 \/ o >= Delimiter
  BY DEF Octal, Delimiter, Delimiters
<1> QED BY <1>1, <1>2, <1>3, <1>4

\* What is written by the octets s comes out as their canonical text.
LEMMA OctetsNormal ==
    ASSUME NEW s \in Seq(Octal), NEW style, NEW raw,
           \A i \in 1 .. Len(s) : s[i] \in raw => s[i] \in Plain \/ s[i] >= Delimiter
    PROVE  Normal(Octets(s, style, raw), Canonical(s))
<1> DEFINE ss == [i \in DOMAIN s |-> Octet(s[i], style, raw)]
           cs == [i \in 1 .. Len(s) |-> Canon(s[i])]
<1>1. \A i \in 1 .. Len(s) : s[i] \in Octal
  OBVIOUS
<1>2. \A i \in 1 .. Len(s) : Normal(Octet(s[i], style, raw), Canon(s[i]))
  BY <1>1, OctetNormal
<1>3. Len(s) \in Nat /\ DOMAIN s = 1 .. Len(s)
  OBVIOUS
<1>4. \A i \in 1 .. Len(s) : Octet(s[i], style, raw) \in Text /\ Canon(s[i]) \in Text
  BY <1>2 DEF Normal
<1>5. ss \in Seq(Text) /\ cs \in Seq(Text) /\ Len(ss) = Len(s) /\ Len(cs) = Len(s)
  BY <1>3, <1>4
<1>6. \A i \in 1 .. Len(ss) : Normal(ss[i], cs[i])
  BY <1>2, <1>3, <1>5
<1> HIDE DEF ss, cs
<1>7. Normal(FlattenSeq(ss), FlattenSeq(cs))
  BY <1>5, <1>6, NormalFlatten
<1> QED BY <1>7 DEF Octets, Canonical, ss, cs

-----------------------------------------------------------------------------
(***************************************************************************)
(* Canonical forms can be told apart, and taken apart again.               *)
(***************************************************************************)
\* How many bytes a canonical form has can be seen from its first one.
Bytes(c) == IF c = U!Percent THEN 3 ELSE IF c >= 128 THEN 2 ELSE 1

LEMMA CanonBytes ==
    ASSUME NEW o \in Octal
    PROVE  /\ Canon(o) \in Text /\ Len(Canon(o)) > 0
           /\ Len(Canon(o)) = Bytes(Canon(o)[1])
           /\ \A i \in 1 .. Len(Canon(o)) : o < Delimiter => Canon(o)[i] \notin {U!Slash, U!Question}
<1> USE DEF U!Percent, U!Slash, U!Question
<1>1. CASE o >= Delimiter
  <2>1. PICK d \in Delimiters : o = Delimiter + d
    BY <1>1 DEF Octal, Delimiter
  <2>2. d \in 0 .. 127 /\ d # U!Percent /\ o - Delimiter = d /\ ~ o < Delimiter
    BY <1>1, <2>1 DEF Delimiters, Delimiter
  <2>3. Canon(o) = <<d>> /\ <<d>> \in Text /\ Len(<<d>>) = 1 /\ <<d>>[1] = d /\ Bytes(d) = 1
    BY <1>1, <2>2 DEF Canon, Text, Bytes
  <2> QED BY <2>2, <2>3
<1>2. CASE o \in 0 .. 255 /\ ~ o >= Delimiter
  <2>0. Canon(o) = Coded(o)
    BY <1>2 DEF Canon
  <2>1. CASE o \in Plain
    <3>1. Coded(o) = <<o>> /\ o < 128
      BY Zenon, <1>2, <2>1, CodedPlain
    <3>2. o # U!Percent /\ o \notin {U!Slash, U!Question}
      BY <2>1 DEF Plain, U!Digits, U!Uppers, U!Lowers
    <3>3. <<o>> \in Text /\ Len(<<o>>) = 1 /\ <<o>>[1] = o /\ Bytes(o) = 1
      BY <1>2, <3>1, <3>2 DEF Text, Bytes
    <3> QED BY <2>0, <3>1, <3>2, <3>3
  <2>2. CASE Wide(o)
    <3> DEFINE x == 192 + (o \div 64)
               y == 128 + (o % 64)
    <3>1. Coded(o) = <<x, y>>
      BY Zenon, <1>2, <2>2, CodedWide
    <3>2. x \in Int /\ y \in Int /\ x >= 128 /\ y >= 128
      BY <1>2
    <3> HIDE DEF x, y
    <3>3. <<x, y>> \in Text /\ Len(<<x, y>>) = 2 /\ <<x, y>>[1] = x /\ <<x, y>>[2] = y /\ Bytes(x) = 2
      BY <3>2 DEF Text, Bytes
    <3> QED BY <2>0, <3>1, <3>2, <3>3
  <2>3. CASE o \notin Plain /\ ~ Wide(o)
    <3> DEFINE x == U!HexDigit(o \div 16)
               y == U!HexDigit(o % 16)
    <3>1. Coded(o) = <<U!Percent, x, y>>
      BY Zenon, <1>2, <2>3, CodedEscape
    <3>0. o \div 16 \in 0 .. 15 /\ o % 16 \in 0 .. 15
      BY <1>2
    <3>2. x \in (48 .. 57) \cup (65 .. 70) /\ y \in (48 .. 57) \cup (65 .. 70)
      BY <3>0, HexDigits
    <3> HIDE DEF x, y
    <3>3. /\ <<U!Percent, x, y>> \in Text /\ Len(<<U!Percent, x, y>>) = 3
          /\ <<U!Percent, x, y>>[1] = U!Percent /\ Bytes(U!Percent) = 3
          /\ \A i \in 1 .. 3 : <<U!Percent, x, y>>[i] \notin {U!Slash, U!Question}
      BY <3>2 DEF Text, Bytes
    <3> QED BY <2>0, <3>1, <3>3
  <2> QED BY <2>1, <2>2, <2>3
<1>4. o \in 0 .. 255 \/ o >= Delimiter
  BY DEF Octal, Delimiter, Delimiters
<1> QED BY <1>1, <1>2, <1>4

LEMMA SameByte == \A a, b : <<a>> = <<b>> => a = b
OBVIOUS

LEMMA SamePair ==
    /\ \A a, b, c, d : <<a, b>> = <<c, d>> => a = c /\ b = d
    /\ \A e, a, b, c, d : <<e, a, b>> = <<e, c, d>> => a = c /\ b = d
OBVIOUS

LEMMA CodedApart ==
    ASSUME NEW o \in 0 .. 255, NEW p \in 0 .. 255, Coded(o) = Coded(p) PROVE o = p
<1>0. \A q \in 0 .. 255 : /\ q \div 16 \in 0 .. 15 /\ q % 16 \in 0 .. 15
                          /\ q = 16 * (q \div 16) + (q % 16)
                          /\ q = 64 * (q \div 64) + (q % 64)
                          /\ q \div 64 \in 0 .. 3 /\ q % 64 \in 0 .. 63
  OBVIOUS
<1>1. ASSUME NEW q \in 0 .. 255
      PROVE  /\ q \in Plain => Len(Coded(q)) = 1 /\ ~ Wide(q)
             /\ Wide(q) => Len(Coded(q)) = 2
             /\ q \notin Plain /\ ~ Wide(q) => Len(Coded(q)) = 3
  <2>1. CASE q \in Plain
    <3>1. Coded(q) = <<q>> /\ ~ Wide(q)
      BY Zenon, <2>1, CodedPlain
    <3>2. \A x : Len(<<x>>) = 1
      OBVIOUS
    <3> QED BY Zenon, <2>1, <3>1, <3>2
  <2>2. CASE Wide(q)
    <3>1. Coded(q) = <<192 + (q \div 64), 128 + (q % 64)>> /\ q \notin Plain
      BY Zenon, <2>2, CodedWide
    <3>2. \A x, y : Len(<<x, y>>) = 2
      OBVIOUS
    <3> QED BY Zenon, <2>2, <3>1, <3>2
  <2>3. CASE q \notin Plain /\ ~ Wide(q)
    <3>1. Coded(q) = <<U!Percent, U!HexDigit(q \div 16), U!HexDigit(q % 16)>>
      BY Zenon, <2>3, CodedEscape
    <3>2. \A x, y, z : Len(<<x, y, z>>) = 3
      OBVIOUS
    <3> QED BY Zenon, <2>3, <3>1, <3>2
  <2> QED BY <2>1, <2>2, <2>3
<1>2. (o \in Plain <=> p \in Plain) /\ (Wide(o) <=> Wide(p))
  <2>1. Len(Coded(o)) = Len(Coded(p))
    OBVIOUS
  <2>2. (o \in Plain /\ ~ Wide(o)) \/ (Wide(o) /\ o \notin Plain) \/ (o \notin Plain /\ ~ Wide(o))
    BY Zenon, CodedPlain
  <2>3. (p \in Plain /\ ~ Wide(p)) \/ (Wide(p) /\ p \notin Plain) \/ (p \notin Plain /\ ~ Wide(p))
    BY Zenon, CodedPlain
  <2>4. 1 # 2 /\ 1 # 3 /\ 2 # 3
    OBVIOUS
  <2> QED BY Zenon, <1>1, <2>1, <2>2, <2>3, <2>4
<1>3. CASE o \in Plain
  <2>1. Coded(o) = <<o>> /\ Coded(p) = <<p>>
    BY Zenon, <1>2, <1>3, CodedPlain
  <2> QED BY <2>1, SameByte
<1>4. CASE Wide(o)
  <2>1. /\ Coded(o) = <<192 + (o \div 64), 128 + (o % 64)>>
        /\ Coded(p) = <<192 + (p \div 64), 128 + (p % 64)>>
    BY Zenon, <1>2, <1>4, CodedWide
  <2>2. 192 + (o \div 64) = 192 + (p \div 64) /\ 128 + (o % 64) = 128 + (p % 64)
    <3>1. <<192 + (o \div 64), 128 + (o % 64)>> = <<192 + (p \div 64), 128 + (p % 64)>>
      BY Zenon, <2>1
    <3> QED BY Zenon, <3>1, SamePair
  <2>3. o \div 64 = p \div 64 /\ o % 64 = p % 64
    BY <1>0, <2>2
  <2> QED BY <1>0, <2>3
<1>5. CASE o \notin Plain /\ ~ Wide(o)
  <2>1. /\ Coded(o) = <<U!Percent, U!HexDigit(o \div 16), U!HexDigit(o % 16)>>
        /\ Coded(p) = <<U!Percent, U!HexDigit(p \div 16), U!HexDigit(p % 16)>>
    BY Zenon, <1>2, <1>5, CodedEscape
  <2>2. U!HexDigit(o \div 16) = U!HexDigit(p \div 16) /\ U!HexDigit(o % 16) = U!HexDigit(p % 16)
    <3>1. <<U!Percent, U!HexDigit(o \div 16), U!HexDigit(o % 16)>>
          = <<U!Percent, U!HexDigit(p \div 16), U!HexDigit(p % 16)>>
      BY Zenon, <2>1
    <3> QED BY Zenon, <3>1, SamePair
  <2>3. o \div 16 = p \div 16 /\ o % 16 = p % 16
    BY <1>0, <2>2, HexDigits
  <2> QED BY <1>0, <2>3
<1> QED BY <1>3, <1>4, <1>5

-----------------------------------------------------------------------------
LEMMA TextEqual ==
    ASSUME NEW u \in Text, NEW v \in Text, Len(u) = Len(v), \A i \in 1 .. Len(u) : u[i] = v[i]
    PROVE  u = v
BY DEF Text

\* Two ways to cut a text at one place are one.
LEMMA SameCut ==
    ASSUME NEW u \in Text, NEW v \in Text, NEW x \in Text, NEW y \in Text,
           u \o x = v \o y, Len(u) = Len(v)
    PROVE  u = v /\ x = y
<1>1. ASSUME NEW i \in 1 .. Len(u) PROVE u[i] = v[i]
  <2>1. (u \o x)[i] = u[i] /\ (v \o y)[i] = v[i]
    BY DEF Text
  <2> QED BY <2>1
<1>2. u = v
  BY <1>1, TextEqual
<1>3. x = y
  BY <1>2, Reading!ConcatCancel DEF Text
<1> QED BY <1>2, <1>3

LEMMA NextByte ==
    ASSUME NEW u \in Text, NEW x \in Text, Len(x) > 0 PROVE (u \o x)[Len(u) + 1] = x[1]
<1>1. u \in Seq(Int) /\ x \in Seq(Int) /\ Len(u) \in Nat /\ Len(x) \in Nat \ {0}
  BY DEF Text
<1> QED BY <1>1

\* A text is cut at the first m, or it ends before it.
Behind(x, m) == x = <<>> \/ x[1] = m

LEMMA CutLonger ==
    ASSUME NEW m, NEW u \in Text, NEW v \in Text, NEW x \in Text, NEW y \in Text,
           \A i \in 1 .. Len(v) : v[i] # m, Behind(x, m), u \o x = v \o y
    PROVE  Len(u) >= Len(v)
<1>1. /\ Len(u) \in Nat /\ Len(v) \in Nat /\ Len(x) \in Nat /\ Len(y) \in Nat
      /\ Len(u \o x) = Len(u) + Len(x) /\ Len(v \o y) = Len(v) + Len(y)
  BY DEF Text
<1>2. CASE Len(u) < Len(v)
  <2>1. Len(x) > 0 /\ Len(u) + 1 \in 1 .. Len(v) /\ x # <<>>
    BY <1>1, <1>2
  <2>2. (u \o x)[Len(u) + 1] = x[1]
    BY <2>1, NextByte
  <2>3. (v \o y)[Len(u) + 1] = v[Len(u) + 1]
    BY <2>1 DEF Text
  <2> QED BY <2>1, <2>2, <2>3 DEF Behind
<1> QED BY <1>1, <1>2

LEMMA FirstCut ==
    ASSUME NEW m, NEW u \in Text, NEW v \in Text, NEW x \in Text, NEW y \in Text,
           \A i \in 1 .. Len(u) : u[i] # m, \A i \in 1 .. Len(v) : v[i] # m,
           Behind(x, m), Behind(y, m), u \o x = v \o y
    PROVE  u = v /\ x = y
<1>1. Len(u) >= Len(v)
  BY CutLonger
<1>2. Len(v) >= Len(u)
  BY CutLonger
<1>3. Len(u) = Len(v)
  BY <1>1, <1>2 DEF Text
<1> QED BY <1>3, SameCut

\* What follows is the same: so is what it follows.
LEMMA SameEnd ==
    ASSUME NEW u \in Text, NEW v \in Text, NEW x \in Text, u \o x = v \o x
    PROVE  u = v
<1>1. Len(u \o x) = Len(u) + Len(x) /\ Len(v \o x) = Len(v) + Len(x)
  BY DEF Text
<1>2. Len(u) = Len(v)
  BY <1>1 DEF Text
<1> QED BY <1>2, SameCut

-----------------------------------------------------------------------------
LEMMA CanonApart ==
    ASSUME NEW o \in Octal, NEW p \in Octal, Canon(o) = Canon(p) PROVE o = p
<1>0. ASSUME NEW q \in Octal
      PROVE  \/ q \in 0 .. 255 /\ Canon(q) = Coded(q)
             \/ q - Delimiter \in Delimiters /\ q \in Int /\ Canon(q) = <<q - Delimiter>>
  <2>1. CASE q \in 0 .. 255
    <3>1. ~ q >= Delimiter
      BY <2>1 DEF Delimiter
    <3> QED BY <2>1, <3>1 DEF Canon
  <2>2. CASE q \notin 0 .. 255
    <3>1. PICK d \in Delimiters : q = Delimiter + d
      BY <2>2 DEF Octal
    <3>2. q >= Delimiter /\ q - Delimiter = d /\ q \in Int
      BY <3>1 DEF Delimiter, Delimiters
    <3> QED BY <3>1, <3>2 DEF Canon
  <2> QED BY <2>1, <2>2
<1>1. ASSUME NEW q \in 0 .. 255, NEW d \in Delimiters, Coded(q) = <<d>> PROVE FALSE
  <2>1. Len(Coded(q)) = 1
    BY <1>1
  <2>2. q \in Plain
    <3>1. CASE Wide(q)
      <4>1. Coded(q) = <<192 + (q \div 64), 128 + (q % 64)>>
        BY Zenon, <3>1, CodedWide
      <4> QED BY <2>1, <4>1
    <3>2. CASE q \notin Plain /\ ~ Wide(q)
      <4>1. Coded(q) = <<U!Percent, U!HexDigit(q \div 16), U!HexDigit(q % 16)>>
        BY Zenon, <3>2, CodedEscape
      <4> QED BY <2>1, <4>1
    <3> QED BY <3>1, <3>2
  <2>3. Coded(q) = <<q>>
    BY Zenon, <2>2, CodedPlain
  <2>4. q = d
    BY <1>1, <2>3
  <2> QED BY <2>2, <2>4 DEF Delimiters
<1>2. CASE o \in 0 .. 255 /\ p \in 0 .. 255
  <2>1. ~ o >= Delimiter /\ ~ p >= Delimiter
    BY <1>2 DEF Delimiter
  <2>2. Coded(o) = Coded(p)
    BY <2>1 DEF Canon
  <2> QED BY <1>2, <2>2, CodedApart
<1>3. CASE o \in 0 .. 255 /\ p \notin 0 .. 255
  <2>1. ~ o >= Delimiter
    BY <1>3 DEF Delimiter
  <2>2. Coded(o) = <<p - Delimiter>> /\ p - Delimiter \in Delimiters
    BY <1>0, <1>3, <2>1 DEF Canon
  <2> QED BY <1>1, <1>3, <2>2
<1>4. CASE o \notin 0 .. 255 /\ p \in 0 .. 255
  <2>1. ~ p >= Delimiter
    BY <1>4 DEF Delimiter
  <2>2. Coded(p) = <<o - Delimiter>> /\ o - Delimiter \in Delimiters
    BY <1>0, <1>4, <2>1 DEF Canon
  <2> QED BY <1>1, <1>4, <2>2
<1>5. CASE o \notin 0 .. 255 /\ p \notin 0 .. 255
  <2>1. <<o - Delimiter>> = <<p - Delimiter>> /\ o \in Int /\ p \in Int
    BY <1>0, <1>5
  <2>2. o - Delimiter = p - Delimiter
    BY Zenon, <2>1, SameByte
  <2> QED BY <2>1, <2>2 DEF Delimiter
<1> QED BY <1>2, <1>3, <1>4, <1>5

LEMMA CanonicalType ==
    ASSUME NEW s \in Seq(Octal)
    PROVE  [i \in 1 .. Len(s) |-> Canon(s[i])] \in Seq({ Canon(o) : o \in Octal })
OBVIOUS

LEMMA CanonicalApart ==
    ASSUME NEW s \in Seq(Octal), NEW t \in Seq(Octal), Canonical(s) = Canonical(t)
    PROVE  s = t
<1> DEFINE W == { Canon(o) : o \in Octal }
           a == [i \in 1 .. Len(s) |-> Canon(s[i])]
           b == [i \in 1 .. Len(t) |-> Canon(t[i])]
<1>1. a \in Seq(W) /\ b \in Seq(W) /\ Len(a) = Len(s) /\ Len(b) = Len(t)
  BY CanonicalType
<1>2. \A w \in W : w \in Text /\ Len(w) > 0 /\ Len(w) = Bytes(w[1])
  BY CanonBytes
<1>3. W \in SUBSET Seq(Int) /\ <<>> \notin W
  BY <1>2 DEF Text
<1> HIDE DEF W
<1>4. ASSUME NEW u \in W, NEW v \in W, NEW c \in Seq(W), NEW d \in Seq(W),
             u \o FlattenSeq(c) = v \o FlattenSeq(d)
      PROVE  u = v
  <2> DEFINE x == FlattenSeq(c)
             y == FlattenSeq(d)
  <2>1. x \in Text /\ y \in Text
    <3>1. c \in Seq(Seq(Int)) /\ d \in Seq(Seq(Int))
      BY <1>3
    <3> QED BY <3>1, Reading!FlattenType, FlattenIs DEF Text
  <2>2. u \o x = v \o y
    BY <1>4
  <2> HIDE DEF x, y
  <2>3. u \in Text /\ v \in Text /\ Len(u) > 0 /\ Len(v) > 0
    BY <1>2
  <2>4. (u \o x)[1] = u[1] /\ (v \o y)[1] = v[1]
    BY <2>1, <2>3 DEF Text
  <2>5. Len(u) = Len(v)
    BY <1>2, <2>2, <2>4
  <2> QED BY <2>1, <2>2, <2>3, <2>5, SameCut
<1>5. \A u, v \in W, c, d \in Seq(W) :
         u \o Reading!Flat(c) = v \o Reading!Flat(d) => u = v
  <2> SUFFICES ASSUME NEW u \in W, NEW v \in W, NEW c \in Seq(W), NEW d \in Seq(W),
                      u \o Reading!Flat(c) = v \o Reading!Flat(d)
               PROVE  u = v
    OBVIOUS
  <2>1. u \o FlattenSeq(c) = v \o FlattenSeq(d)
    BY Zenon, FlattenIs
  <2> QED BY Zenon, <1>4, <2>1
<1>6. Reading!Flat(a) = Reading!Flat(b)
  BY FlattenIs DEF Canonical
<1>7. a = b
  <2> HIDE DEF a, b
  <2> QED BY Zenon, <1>1, <1>3, <1>5, <1>6, Reading!FlattenApart
<1>8. Len(s) = Len(t)
  BY <1>1, <1>7
<1>9. ASSUME NEW i \in 1 .. Len(s) PROVE s[i] = t[i]
  <2>1. a[i] = Canon(s[i]) /\ b[i] = Canon(t[i]) /\ s[i] \in Octal /\ t[i] \in Octal
    BY <1>8
  <2>2. Canon(s[i]) = Canon(t[i])
    BY <1>7, <2>1
  <2> QED BY <2>1, <2>2, CanonApart
<1> QED BY <1>8, <1>9

-----------------------------------------------------------------------------
(***************************************************************************)
(* A path is taken apart at its slashes, and its dot segments are          *)
(* resolved.                                                               *)
(***************************************************************************)
Cutting == INSTANCE Folding WITH Step <- U!PutByte
Resolving == INSTANCE Folding WITH Step <- U!PutSegment

LEMMA CuttingIs == \A s : U!Segments(s) = Cutting!Fold(<< <<>> >>, s)
BY DEF U!Segments, Cutting!Fold, U!FoldLeft, U!MapThenFoldSet, Cutting!MapThenFoldSet,
       U!Max, Cutting!Largest

LEMMA ResolvingIs == \A base, s : U!FoldLeft(U!PutSegment, base, s) = Resolving!Fold(base, s)
BY DEF Resolving!Fold, U!FoldLeft, U!MapThenFoldSet, Resolving!MapThenFoldSet, U!Max,
       Resolving!Largest

LEMMA PathFlattenIs ==
    \A ss : /\ FlattenSeq(ss) = U!FlattenSeq(ss) /\ FlattenSeq(ss) = Cutting!Flat(ss)
BY DEF FlattenSeq, U!FlattenSeq, Cutting!Flat, Cutting!TheFlat

Segment == Seq(Int \ {U!Slash})
Slashed(L) == [i \in 1 .. Len(L) |-> <<U!Slash>> \o L[i]]
SlashText(L) == FlattenSeq(Slashed(L))

LEMMA SegmentText == Segment \subseteq Text
BY DEF Segment, Text

LEMMA CutConcat ==
    \A base : \A x, y \in Seq(Int) : Cutting!Fold(base, x \o y) = Cutting!Fold(Cutting!Fold(base, x), y)
BY Cutting!FoldConcat

LEMMA AppendIs ==
    ASSUME NEW S, NEW acc \in Seq(S), NEW q
    PROVE  /\ Len(acc) \in Nat /\ Len(Append(acc, q)) = Len(acc) + 1
           /\ Append(acc, q) = [i \in 1 .. Len(acc) + 1 |-> IF i = Len(acc) + 1 THEN q ELSE acc[i]]
<1> DEFINE W == S \cup {q}
<1>1. acc \in Seq(W) /\ q \in W
  OBVIOUS
<1> HIDE DEF W
<1>2. /\ Len(acc) \in Nat /\ Append(acc, q) \in Seq(W) /\ Len(Append(acc, q)) = Len(acc) + 1
      /\ \A i \in 1 .. Len(acc) + 1 : Append(acc, q)[i] = IF i = Len(acc) + 1 THEN q ELSE acc[i]
  BY <1>1
<1>3. \A s \in Seq(W) : s = [i \in 1 .. Len(s) |-> s[i]]
  OBVIOUS
<1>4. Append(acc, q) = [i \in 1 .. Len(Append(acc, q)) |-> Append(acc, q)[i]]
  BY Zenon, <1>2, <1>3
<1> QED BY <1>2, <1>4

\* What is not a slash is added to the last segment.
LEMMA PutByteIs ==
    ASSUME NEW S, NEW acc \in Seq(S), NEW p, NEW c, c # U!Slash
    PROVE  /\ U!PutByte(Append(acc, p), c) = Append(acc, Append(p, c))
           /\ U!PutByte(acc, U!Slash) = Append(acc, <<>>)
<1>1. U!PutByte(acc, U!Slash) = Append(acc, <<>>)
  BY DEF U!PutByte
<1>2. ASSUME NEW a, NEW n \in Nat, NEW x, DOMAIN a = 1 .. n + 1, Len(a) = n + 1, a[n + 1] = p,
             x = [i \in 1 .. n + 1 |-> IF i = n + 1 THEN Append(p, c) ELSE a[i]]
      PROVE  U!PutByte(a, c) = x
  <2>1. U!PutByte(a, c) = [a EXCEPT ![n + 1] = Append(@, c)]
    BY <1>2 DEF U!PutByte
  <2>2. [a EXCEPT ![n + 1] = Append(@, c)]
        = [i \in 1 .. n + 1 |-> IF i = n + 1 THEN Append(p, c) ELSE a[i]]
    BY <1>2
  <2> QED BY <1>2, <2>1, <2>2
<1> DEFINE n == Len(acc)
           a == Append(acc, p)
           x == Append(acc, Append(p, c))
<1>3. n \in Nat /\ a = [i \in 1 .. n + 1 |-> IF i = n + 1 THEN p ELSE acc[i]] /\ Len(a) = n + 1
  BY AppendIs
<1>4. x = [i \in 1 .. n + 1 |-> IF i = n + 1 THEN Append(p, c) ELSE acc[i]]
  BY Zenon, AppendIs
<1> HIDE DEF a, n, x
<1>5. x = [i \in 1 .. n + 1 |-> IF i = n + 1 THEN Append(p, c) ELSE a[i]]
  BY <1>3, <1>4
<1>6. DOMAIN a = 1 .. n + 1 /\ a[n + 1] = p
  BY <1>3
<1>7. U!PutByte(a, c) = x
  BY <1>2, <1>3, <1>5, <1>6
<1> QED BY <1>1, <1>7 DEF a, x

LEMMA CutSegment ==
    ASSUME NEW acc \in Seq(Segment), NEW seg \in Segment
    PROVE  Cutting!Fold(acc, <<U!Slash>> \o seg) = Append(acc, seg)
<1> DEFINE n == Len(seg)
           base == Append(acc, <<>>)
           g == [j \in 0 .. n |-> Append(acc, SubSeq(seg, 1, j))]
<1>0. seg \in Seq(Int \ {U!Slash}) /\ seg \in Seq(Int) /\ <<U!Slash>> \in Seq(Int)
      /\ n \in Nat /\ DOMAIN seg = 1 .. n
  BY DEF Segment, U!Slash
<1>1. Cutting!Fold(acc, <<U!Slash>>) = base
  <2>1. Cutting!Fold(acc, <<U!Slash>>) = U!PutByte(acc, U!Slash)
    BY Cutting!FoldOne
  <2> QED BY <2>1 DEF U!PutByte
<1>2. Cutting!Fold(acc, <<U!Slash>> \o seg) = Cutting!Fold(base, seg)
  <2>1. Cutting!Fold(acc, <<U!Slash>> \o seg) = Cutting!Fold(Cutting!Fold(acc, <<U!Slash>>), seg)
    BY Zenon, <1>0, CutConcat
  <2> QED BY <1>1, <2>1
<1>3. g[0] = base /\ g[n] = Append(acc, seg)
  <2>1. SubSeq(seg, 1, 0) = <<>> /\ SubSeq(seg, 1, Len(seg)) = seg
    BY <1>0
  <2>2. 0 \in 0 .. n /\ n \in 0 .. n
    BY <1>0
  <2>3. g[0] = Append(acc, SubSeq(seg, 1, 0)) /\ g[n] = Append(acc, SubSeq(seg, 1, n))
    BY <2>2
  <2> QED BY <2>1, <2>3
<1>4. ASSUME NEW i \in 1 .. n PROVE g[i] = U!PutByte(g[i - 1], seg[i])
  <2>1. i \in 0 .. n /\ i - 1 \in 0 .. n /\ seg[i] # U!Slash
    BY <1>0
  <2>2. g[i] = Append(acc, SubSeq(seg, 1, i)) /\ g[i - 1] = Append(acc, SubSeq(seg, 1, i - 1))
    BY <2>1
  <2>3. SubSeq(seg, 1, i) = Append(SubSeq(seg, 1, i - 1), seg[i])
    BY <1>0, NextLetter
  <2> HIDE DEF g
  <2>4. U!PutByte(Append(acc, SubSeq(seg, 1, i - 1)), seg[i])
        = Append(acc, Append(SubSeq(seg, 1, i - 1), seg[i]))
    <3>1. \A z \in Seq(Segment) : \A p, c : c # U!Slash =>
             U!PutByte(Append(z, p), c) = Append(z, Append(p, c))
      BY PutByteIs
    <3> QED BY Zenon, <2>1, <3>1
  <2> QED BY <2>2, <2>3, <2>4
<1> HIDE DEF g, n, base
<1>5. Cutting!IsRun(g, base, seg, n)
  BY <1>0, <1>3, <1>4 DEF Cutting!IsRun
<1>6. Cutting!Fold(base, seg) = g[n]
  BY Zenon, <1>0, <1>5, Cutting!FoldBy
<1> QED BY <1>2, <1>3, <1>6

LEMMA SlashedType ==
    ASSUME NEW L \in Seq(Segment)
    PROVE  /\ Slashed(L) \in Seq(Seq(Int)) /\ Slashed(L) \in Seq(Text) /\ Len(Slashed(L)) = Len(L)
           /\ \A i \in 1 .. Len(L) : Slashed(L)[i] = <<U!Slash>> \o L[i] /\ L[i] \in Segment
<1>1. \A s \in Segment : <<U!Slash>> \o s \in Seq(Int)
  BY DEF Segment, U!Slash
<1>2. Len(L) \in Nat /\ \A i \in 1 .. Len(L) : L[i] \in Segment
  OBVIOUS
<1> QED BY <1>1, <1>2 DEF Slashed, Text

LEMMA SegmentsAre ==
    ASSUME NEW L \in Seq(Segment)
    PROVE  U!Segments(SlashText(L)) = << <<>> >> \o L
<1> DEFINE n == Len(L)
           all == << <<>> >> \o L
           h == [i \in 0 .. n |-> SubSeq(all, 1, i + 1)]
           ss == Slashed(L)
<1>0. <<>> \in Segment
  BY DEF Segment
<1>1. n \in Nat /\ all \in Seq(Segment) /\ Len(all) = n + 1 /\ all[1] = <<>>
      /\ \A i \in 1 .. n : all[i + 1] = L[i] /\ L[i] \in Segment
  BY <1>0
<1>2. ss \in Seq(Seq(Int)) /\ Len(ss) = n /\ \A i \in 1 .. n : ss[i] = <<U!Slash>> \o L[i]
  BY SlashedType
<1> HIDE DEF all, ss, n
<1>3. h[0] = << <<>> >> /\ h[n] = all
  <2>1. SubSeq(all, 1, 0 + 1) = << <<>> >> /\ SubSeq(all, 1, n + 1) = all
    <3>1. SubSeq(all, 1, n + 1) = all
      BY <1>1
    <3>2. Len(SubSeq(all, 1, 1)) = 1 /\ SubSeq(all, 1, 1)[1] = <<>> /\ SubSeq(all, 1, 1) \in Seq(Segment)
      BY <1>1
    <3>3. \A q \in Seq(Segment) : Len(q) = 1 => q = <<q[1]>>
      OBVIOUS
    <3>4. SubSeq(all, 1, 1) = <<SubSeq(all, 1, 1)[1]>>
      BY Zenon, <3>2, <3>3
    <3>5. 0 + 1 = 1
      OBVIOUS
    <3> QED BY Zenon, <3>1, <3>2, <3>4, <3>5
  <2>2. 0 \in 0 .. n /\ n \in 0 .. n
    BY <1>1
  <2>3. h[0] = SubSeq(all, 1, 0 + 1) /\ h[n] = SubSeq(all, 1, n + 1)
    BY Zenon, <2>2
  <2> QED BY <2>1, <2>3
<1>4. ASSUME NEW i \in 1 .. n PROVE h[i] = Cutting!Fold(h[i - 1], ss[i])
  <2>1. i \in 0 .. n /\ i - 1 \in 0 .. n /\ (i - 1) + 1 = i /\ i \in 1 .. Len(all)
        /\ i + 1 \in 1 .. Len(all) /\ (i + 1) - 1 = i
    BY <1>1
  <2>2. h[i] = SubSeq(all, 1, i + 1) /\ h[i - 1] = SubSeq(all, 1, (i - 1) + 1)
    BY <2>1
  <2> HIDE DEF h
  <2>3. SubSeq(all, 1, i + 1) = Append(SubSeq(all, 1, (i + 1) - 1), all[i + 1])
    BY <1>1, <2>1, NextLetter
  <2>4. SubSeq(all, 1, i) \in Seq(Segment)
    BY <1>1, <2>1
  <2>5. Cutting!Fold(SubSeq(all, 1, i), <<U!Slash>> \o L[i]) = Append(SubSeq(all, 1, i), L[i])
    BY <1>1, <2>4, CutSegment
  <2> QED BY <1>1, <1>2, <2>1, <2>2, <2>3, <2>5
<1> HIDE DEF h
<1>5. Cutting!Fold(<< <<>> >>, Cutting!Flat(ss)) = h[Len(ss)]
  BY <1>2, <1>3, <1>4, Cutting!FoldFlatten
<1> QED BY <1>2, <1>3, <1>5, CuttingIs, PathFlattenIs DEF SlashText, ss, all, n

-----------------------------------------------------------------------------
Steady == Segment \ U!Dots

LEMMA ResolvingConcat ==
    \A base : \A x, y \in Seq(Segment) :
        Resolving!Fold(base, x \o y) = Resolving!Fold(Resolving!Fold(base, x), y)
BY Resolving!FoldConcat

\* What is no dot segment is kept.
LEMMA SteadyStay ==
    ASSUME NEW base \in Seq(Segment), NEW L \in Seq(Steady)
    PROVE  Resolving!Fold(base, L) = base \o L
<1> DEFINE n == Len(L)
           g == [j \in 0 .. n |-> base \o SubSeq(L, 1, j)]
<1>1. n \in Nat /\ L \in Seq(Segment) /\ \A i \in 1 .. n : L[i] \in Segment /\ L[i] \notin U!Dots
  BY DEF Steady
<1> HIDE DEF n
<1>2. g[0] = base /\ g[n] = base \o L
  <2>1. SubSeq(L, 1, 0) = <<>> /\ SubSeq(L, 1, n) = L
    BY <1>1 DEF n
  <2>2. 0 \in 0 .. n /\ n \in 0 .. n
    BY <1>1
  <2>3. g[0] = base \o SubSeq(L, 1, 0) /\ g[n] = base \o SubSeq(L, 1, n)
    BY Zenon, <2>2
  <2>4. base \o <<>> = base
    OBVIOUS
  <2> QED BY <2>1, <2>3, <2>4
<1>3. ASSUME NEW i \in 1 .. n PROVE g[i] = U!PutSegment(g[i - 1], L[i])
  <2>1. i \in 0 .. n /\ i - 1 \in 0 .. n /\ i \in 1 .. Len(L)
    BY <1>1 DEF n
  <2>2. g[i] = base \o SubSeq(L, 1, i) /\ g[i - 1] = base \o SubSeq(L, 1, i - 1)
    BY Zenon, <2>1
  <2>3. SubSeq(L, 1, i) = Append(SubSeq(L, 1, i - 1), L[i])
    BY <1>1, <2>1, NextLetter
  <2>4. SubSeq(L, 1, i - 1) \in Seq(Segment) /\ L[i] \in Segment
    BY <1>1, <2>1
  <2> HIDE DEF g
  <2>5. base \o SubSeq(L, 1, i) = Append(base \o SubSeq(L, 1, i - 1), L[i])
    <3>1. \A x \in Seq(Segment) : \A e \in Segment : base \o Append(x, e) = Append(base \o x, e)
      OBVIOUS
    <3> QED BY Zenon, <2>3, <2>4, <3>1
  <2>6. U!PutSegment(g[i - 1], L[i]) = Append(g[i - 1], L[i])
    BY <1>1 DEF U!PutSegment, U!Dots
  <2> QED BY Zenon, <2>2, <2>5, <2>6
<1> HIDE DEF g
<1>4. Resolving!IsRun(g, base, L, n)
  BY <1>2, <1>3 DEF Resolving!IsRun, n
<1>5. Resolving!Fold(base, L) = g[n]
  BY Zenon, <1>1, <1>4, Resolving!FoldBy
<1> QED BY <1>2, <1>5

LEMMA SlashTextCons ==
    ASSUME NEW x \in Segment, NEW L \in Seq(Segment)
    PROVE  /\ SlashText(<<x>> \o L) = (<<U!Slash>> \o x) \o SlashText(L)
           /\ SlashText(L) \in Text /\ <<U!Slash>> \o x \in Text
<1>1. Slashed(L) \in Seq(Text) /\ <<U!Slash>> \o x \in Text
  BY SlashedType DEF Segment, Text, U!Slash
<1>2. Slashed(<<x>> \o L) = <<<<U!Slash>> \o x>> \o Slashed(L)
  <2> DEFINE n == Len(L)
             a == Slashed(<<x>> \o L)
             b == <<<<U!Slash>> \o x>> \o Slashed(L)
  <2>1. n \in Nat /\ Len(<<x>> \o L) = n + 1 /\ (<<x>> \o L)[1] = x
        /\ \A i \in 2 .. n + 1 : (<<x>> \o L)[i] = L[i - 1]
    OBVIOUS
  <2>2. a = [i \in 1 .. n + 1 |-> <<U!Slash>> \o (<<x>> \o L)[i]]
    BY <2>1 DEF Slashed
  <2>3. Slashed(L) \in Seq(Text) /\ Len(Slashed(L)) = n
        /\ \A i \in 1 .. n : Slashed(L)[i] = <<U!Slash>> \o L[i]
    BY SlashedType
  <2>4. b \in Seq(Text) /\ Len(b) = n + 1 /\ b[1] = <<U!Slash>> \o x
        /\ \A i \in 2 .. n + 1 : b[i] = Slashed(L)[i - 1]
    <3> HIDE DEF n
    <3> QED BY <1>1, <2>1, <2>3
  <2>5. \A s \in Seq(Text) : s = [i \in 1 .. Len(s) |-> s[i]]
    OBVIOUS
  <2>6. b = [i \in 1 .. n + 1 |-> b[i]]
    BY <2>4, <2>5
  <2> HIDE DEF a, b, n
  <2>7. ASSUME NEW i \in 1 .. n + 1 PROVE a[i] = b[i]
    <3>1. CASE i = 1
      BY <2>1, <2>2, <2>4, <3>1
    <3>2. CASE i # 1
      <4>1. i \in 2 .. n + 1 /\ i - 1 \in 1 .. n
        BY <2>1, <3>2
      <4>2. a[i] = <<U!Slash>> \o L[i - 1]
        BY <2>1, <2>2, <4>1
      <4> QED BY <2>3, <2>4, <4>1, <4>2
    <3> QED BY <3>1, <3>2
  <2> QED BY <2>2, <2>6, <2>7 DEF a, b
<1> QED BY <1>1, <1>2, TextCons DEF SlashText

LEMMA SecondByte ==
    \A z \in Seq(Int) : Len(z) \in Nat \ {0} =>
        \A s, c : s = <<c>> \o z /\ z[1] = c => Len(s) > 1 /\ s[2] = c /\ Tail(s) = z
<1>1. ASSUME NEW z \in Seq(Int), Len(z) \in Nat \ {0}, NEW c \in Int
      PROVE  Len(<<c>> \o z) > 1 /\ (<<c>> \o z)[2] = z[1] /\ Tail(<<c>> \o z) = z
  BY <1>1
<1>2. ASSUME NEW z \in Seq(Int), Len(z) \in Nat \ {0} PROVE z[1] \in Int
  BY <1>2
<1> QED BY <1>1, <1>2

LEMMA SlashTextBegins ==
    ASSUME NEW L \in Seq(Segment), L # <<>>
    PROVE  SlashText(L) \in Text /\ Len(SlashText(L)) > 0 /\ SlashText(L)[1] = U!Slash
<1>1. L[1] \in Segment /\ Tail(L) \in Seq(Segment) /\ L = <<L[1]>> \o Tail(L)
  BY Reading!HeadAndTail
<1>2. /\ SlashText(L) = (<<U!Slash>> \o L[1]) \o SlashText(Tail(L))
      /\ SlashText(Tail(L)) \in Text /\ <<U!Slash>> \o L[1] \in Text
  BY <1>1, SlashTextCons
<1>3. L[1] \in Text
  BY <1>1, SegmentText
<1> QED BY <1>2, <1>3 DEF Text, U!Slash

(***************************************************************************)
(* The path of the segments pre and raw, of which raw has no dot segment,  *)
(* when pre alone leaves eff.                                              *)
(***************************************************************************)
LEMMA DotsRemoved ==
    ASSUME NEW pre \in Seq(Segment), NEW raw \in Seq(Steady), raw # <<>>, NEW eff \in Seq(Segment),
           Resolving!Fold(<< <<>> >>, pre) = << <<>> >> \o eff
    PROVE  U!RemoveDots(SlashText(pre \o raw)) = SlashText(eff \o raw)
<1> DEFINE one == << <<>> >>
           path == SlashText(pre \o raw)
           segs == one \o (pre \o raw)
           L == eff \o raw
           out == one \o L
           text == SlashText(out)
<1>0. /\ <<>> \in Segment /\ raw \in Seq(Segment) /\ one \in Seq(Segment)
      /\ \A i \in 1 .. Len(raw) : raw[i] \notin U!Dots
      /\ Len(raw) \in Nat \ {0}
  BY DEF Steady, Segment
<1> HIDE DEF one
<1>1. /\ pre \o raw \in Seq(Segment) /\ pre \o raw # <<>>
      /\ L \in Seq(Segment) /\ L # <<>> /\ out \in Seq(Segment)
      /\ segs \in Seq(Segment)
  BY <1>0
<1>2. U!Segments(path) = segs
  BY <1>1, SegmentsAre DEF one
<1>3. U!FoldLeft(U!PutSegment, <<>>, segs) = out
  <2>1. Resolving!Fold(<<>>, one) = one
    <3>1. Resolving!Fold(<<>>, << <<>> >>) = U!PutSegment(<<>>, <<>>)
      BY Resolving!FoldOne
    <3>2. U!PutSegment(<<>>, <<>>) = << <<>> >>
      BY DEF U!PutSegment, U!Dot
    <3> QED BY <3>1, <3>2 DEF one
  <2>2. Resolving!Fold(<<>>, segs) = Resolving!Fold(one, pre \o raw)
    <3>1. one \in Seq(Segment) /\ pre \o raw \in Seq(Segment)
      BY <1>0, <1>1
    <3>2. Resolving!Fold(<<>>, one \o (pre \o raw)) = Resolving!Fold(Resolving!Fold(<<>>, one), pre \o raw)
      BY Zenon, <3>1, ResolvingConcat
    <3> QED BY <2>1, <3>2
  <2>3. Resolving!Fold(one, pre \o raw) = Resolving!Fold(one \o eff, raw)
    <3>1. pre \in Seq(Segment) /\ raw \in Seq(Segment)
      BY <1>0
    <3>2. Resolving!Fold(one, pre \o raw) = Resolving!Fold(Resolving!Fold(one, pre), raw)
      BY Zenon, <3>1, ResolvingConcat
    <3> QED BY <3>2 DEF one
  <2>4. one \o eff \in Seq(Segment)
    BY <1>0
  <2>5. Resolving!Fold(one \o eff, raw) = (one \o eff) \o raw
    BY <2>4, SteadyStay
  <2>6. (one \o eff) \o raw = out
    BY <1>0
  <2> QED BY <2>2, <2>3, <2>5, <2>6, ResolvingIs
<1>4. U!Last(segs) \notin U!Dots
  <2>1. Len(segs) = Len(one) + Len(pre) + Len(raw) /\ segs[Len(segs)] = raw[Len(raw)]
    BY <1>0
  <2> HIDE DEF segs
  <2> QED BY <1>0, <2>1 DEF U!Last
<1>5. text = <<U!Slash>> \o SlashText(L) /\ SlashText(L) \in Text /\ Len(SlashText(L)) > 0
      /\ SlashText(L)[1] = U!Slash
  <2>1. text = (<<U!Slash>> \o <<>>) \o SlashText(L)
    BY <1>0, <1>1, SlashTextCons DEF one
  <2>2. <<U!Slash>> \o <<>> = <<U!Slash>>
    OBVIOUS
  <2> QED BY <1>1, <2>1, <2>2, SlashTextBegins
<1>6. path # <<>>
  <2>1. SlashText(pre \o raw) \in Text /\ Len(SlashText(pre \o raw)) > 0
    BY <1>1, SlashTextBegins
  <2>2. \A x : Len(x) > 0 => x # <<>>
    OBVIOUS
  <2> QED BY <2>1, <2>2
<1>7. Len(text) > 1 /\ text[2] = U!Slash /\ Tail(text) = SlashText(L)
  <2> DEFINE z == SlashText(L)
  <2>1. z \in Seq(Int) /\ Len(z) \in Nat \ {0} /\ z[1] = U!Slash
    BY <1>5 DEF Text
  <2> HIDE DEF z, text
  <2>2. text = <<U!Slash>> \o z
    BY <1>5 DEF z
  <2>3. Len(text) > 1 /\ text[2] = U!Slash /\ Tail(text) = z
    BY Zenon, <2>1, <2>2, SecondByte
  <2> QED BY <2>3 DEF z
<1>8. U!FlattenSeq([i \in DOMAIN out |-> <<U!Slash>> \o out[i]]) = text
  <2>1. DOMAIN out = 1 .. Len(out)
    BY <1>1
  <2> HIDE DEF out
  <2>2. [i \in DOMAIN out |-> <<U!Slash>> \o out[i]] = Slashed(out)
    BY <2>1 DEF Slashed
  <2> QED BY <2>2, PathFlattenIs DEF SlashText
<1> HIDE DEF text, out, segs, path
<1>9. U!RemoveDots(path) = Tail(text)
  BY <1>2, <1>3, <1>4, <1>6, <1>7, <1>8 DEF U!RemoveDots
<1> QED BY <1>7, <1>9 DEF path

-----------------------------------------------------------------------------
(***************************************************************************)
(* The path of an address, and of its key.                                 *)
(***************************************************************************)
PathWords(L) == [i \in 1 .. Len(L) |-> <<U!Slash>> \o Canonical(L[i])]
PathKey(L) == FlattenSeq(PathWords(L))

LEMMA SameLetters ==
    ASSUME NEW S, NEW u \in Seq(S), NEW v \in Seq(S), Len(u) = Len(v),
           \A i \in 1 .. Len(u) : u[i] = v[i]
    PROVE  u = v
OBVIOUS

LEMMA TwoBytes == \A c, d : <<c>> \o <<d>> = <<c, d>>
<1> SUFFICES ASSUME NEW c, NEW d PROVE <<c>> \o <<d>> = <<c, d>>
  OBVIOUS
<1> DEFINE S == {c, d}
           x == <<c>> \o <<d>>
           y == <<c, d>>
<1>1. x \in Seq(S) /\ y \in Seq(S) /\ Len(x) = 2 /\ Len(y) = 2
  OBVIOUS
<1>2. \A i \in 1 .. 2 : x[i] = y[i]
  OBVIOUS
<1> HIDE DEF S, x, y
<1>3. x = y
  BY <1>1, <1>2, SameLetters
<1> QED BY <1>3 DEF x, y

LEMMA DotsNormal ==
    /\ Normal(<<U!Dot>>, Canonical(<<U!Dot>>))
    /\ Normal(<<U!Dot, U!Dot>>, Canonical(<<U!Dot, U!Dot>>))
    /\ Normal(<<U!Percent, 50, 69>>, Canonical(<<U!Dot>>))
<1>1. U!Dot \in 0 .. 255 /\ U!Dot \in Plain /\ U!Dot \in Int /\ U!Dot # U!Percent /\ ~ U!Dot >= Delimiter
  BY DEF U!Dot, Plain, U!Percent, Delimiter
<1>2. Coded(U!Dot) = <<U!Dot>> /\ Canon(U!Dot) = <<U!Dot>>
  <2>1. Coded(U!Dot) = <<U!Dot>>
    BY Zenon, <1>1, CodedPlain
  <2> QED BY <1>1, <2>1 DEF Canon
<1>3. <<U!Dot>> \in Text /\ <<U!Dot>> \o <<U!Dot>> = <<U!Dot, U!Dot>>
  <2>1. <<U!Dot>> \in Text
    BY <1>1 DEF Text
  <2> QED BY Zenon, <2>1, TwoBytes
<1>4. Canonical(<<U!Dot>>) = <<U!Dot>>
  <2>1. [i \in 1 .. Len(<<U!Dot>>) |-> Canon(<<U!Dot>>[i])] = << <<U!Dot>> >>
    BY <1>2
  <2>2. Reading!Flat(<< <<U!Dot>> >>) = <<U!Dot>>
    BY Zenon, Reading!FlattenOne
  <2> QED BY Zenon, <2>1, <2>2, FlattenIs DEF Canonical
<1>5. Canonical(<<U!Dot, U!Dot>>) = <<U!Dot, U!Dot>>
  <2> DEFINE d == <<U!Dot>>
  <2>1. [i \in 1 .. Len(<<U!Dot, U!Dot>>) |-> Canon(<<U!Dot, U!Dot>>[i])] = <<d, d>>
    BY <1>2
  <2>2. <<d>> \in Seq(Text) /\ d \in Text /\ <<d>> \o <<d>> = <<d, d>>
    <3>1. d \in Text /\ <<d>> \o <<d>> = <<d, d>>
      BY Zenon, <1>3, TwoBytes
    <3> HIDE DEF d
    <3> QED BY <3>1
  <2>3. FlattenSeq(<<d>> \o <<d>>) = d \o FlattenSeq(<<d>>)
    BY Zenon, <2>2, TextCons
  <2>4. FlattenSeq(<<d>>) = d
    BY Zenon, Reading!FlattenOne, FlattenIs
  <2> QED BY Zenon, <1>3, <2>1, <2>2, <2>3, <2>4 DEF Canonical
<1>6. Normal(<<U!Dot>>, <<U!Dot>>)
  BY <1>1, NormalPlain
<1>7. Normal(<<U!Dot>> \o <<U!Dot>>, <<U!Dot>> \o <<U!Dot>>)
  BY Zenon, <1>6, NormalConcat
<1>8. Normal(<<U!Percent, 50, 69>>, <<U!Dot>>)
  <2>1. /\ 50 \in Int /\ 69 \in Int /\ U!IsHexDigit(50) /\ U!IsHexDigit(69)
        /\ 16 * U!FromHex(50) + U!FromHex(69) = U!Dot
    BY DEF U!IsHexDigit, U!FromHex, U!Digits, U!Lowers, U!Dot
  <2>2. \A t \in Text : N(<<U!Percent, 50, 69>> \o t) = <<U!Dot>> \o N(t)
    <3>1. \A t \in Text : N(<<U!Percent, 50, 69>> \o t) = Coded(16 * U!FromHex(50) + U!FromHex(69)) \o N(t)
      BY Zenon, <2>1, NEscape
    <3> QED BY <1>2, <2>1, <3>1
  <2>3. <<U!Percent, 50, 69>> \in Text
    BY DEF Text, U!Percent
  <2> QED BY <1>3, <2>2, <2>3 DEF Normal
<1> QED BY <1>3, <1>4, <1>5, <1>6, <1>7, <1>8

LEMMA LettersOf == ASSUME NEW S, NEW s \in Seq(S) PROVE \A i \in 1 .. Len(s) : s[i] \in S
OBVIOUS

\* A segment that is no dot segment is none when it is written.
LEMMA OctetsSteady ==
    ASSUME NEW s \in Seq(0 .. 255), s \notin U!Dots, NEW style
    PROVE  /\ Octets(s, style, Plain) \in Steady
           /\ Normal(Octets(s, style, Plain), Canonical(s)) /\ s \in Seq(Octal)
<1> DEFINE x == Octets(s, style, Plain)
<1>1. s \in Seq(Octal) /\ \A i \in 1 .. Len(s) : s[i] \in Octal /\ s[i] < Delimiter
  <2>1. \A o \in 0 .. 255 : o \in Octal /\ o < Delimiter
    BY DEF Octal, Delimiter
  <2>2. \A i \in 1 .. Len(s) : s[i] \in 0 .. 255
    BY LettersOf
  <2> HIDE DEF x
  <2>3. 0 .. 255 \subseteq Octal
    BY <2>1
  <2>4. s \in Seq(Octal)
    BY Zenon, <2>3, SeqWider
  <2> QED BY Zenon, <2>1, <2>2, <2>4
<1>2. Normal(x, Canonical(s))
  BY <1>1, OctetsNormal
<1>3. x \in Segment
  <2> DEFINE ss == [i \in DOMAIN s |-> Octet(s[i], style, Plain)]
  <2>1. \A i \in 1 .. Len(s) : Octet(s[i], style, Plain) \in Seq(Int \ {U!Slash})
    BY <1>1, OctetNormal
  <2>2. ss \in Seq(Seq(Int \ {U!Slash}))
    BY <2>1
  <2> HIDE DEF ss
  <2>3. Reading!Flat(ss) \in Seq(Int \ {U!Slash})
    BY Zenon, <2>2, Reading!FlattenType
  <2> QED BY <2>3, FlattenIs DEF Segment, Octets, ss
<1> HIDE DEF x
<1>4. ASSUME NEW d \in U!Dots, x = d PROVE FALSE
  <2>1. Normal(d, Canonical(d)) /\ d \in Seq(Octal)
    <3>1. Normal(d, Canonical(d))
      BY DotsNormal DEF U!Dots
    <3>2. <<U!Dot>> \in Seq(Octal) /\ <<U!Dot, U!Dot>> \in Seq(Octal)
      BY DEF Octal, U!Dot
    <3> QED BY <3>1, <3>2 DEF U!Dots
  <2>2. Canonical(s) = Canonical(d)
    BY Zenon, <1>2, <1>4, <2>1, NormalAlone
  <2>3. s = d
    BY <1>1, <2>1, <2>2, CanonicalApart
  <2> QED BY <2>3
<1> QED BY <1>1, <1>2, <1>3, <1>4 DEF Steady, x

\* A path of segments comes out as the path of their canonical texts.
LEMMA PathNormal ==
    ASSUME NEW L \in Seq(Segment), NEW M, M \in Seq(Seq(Octal)), Len(L) = Len(M),
           \A i \in 1 .. Len(L) : Normal(L[i], Canonical(M[i]))
    PROVE  Normal(SlashText(L), PathKey(M))
<1> DEFINE ss == Slashed(L)
           cs == PathWords(M)
<1>1. Len(L) \in Nat /\ ss \in Seq(Text) /\ Len(ss) = Len(L)
      /\ \A i \in 1 .. Len(L) : ss[i] = <<U!Slash>> \o L[i]
  BY SlashedType
<1>2. Normal(<<U!Slash>>, <<U!Slash>>)
  BY NormalPlain DEF U!Slash, U!Percent
<1>3. \A i \in 1 .. Len(L) : Normal(<<U!Slash>> \o L[i], <<U!Slash>> \o Canonical(M[i]))
  BY <1>2, NormalConcat
<1>4. \A i \in 1 .. Len(L) : <<U!Slash>> \o Canonical(M[i]) \in Text
  BY <1>3 DEF Normal
<1>5. cs \in Seq(Text) /\ Len(cs) = Len(L) /\ \A i \in 1 .. Len(L) : cs[i] = <<U!Slash>> \o Canonical(M[i])
  BY <1>1, <1>4 DEF PathWords
<1> HIDE DEF ss, cs
<1>6. \A i \in 1 .. Len(ss) : Normal(ss[i], cs[i])
  BY <1>1, <1>3, <1>5
<1>7. Normal(FlattenSeq(ss), FlattenSeq(cs))
  BY <1>1, <1>5, <1>6, NormalFlatten
<1> QED BY <1>7 DEF SlashText, PathKey, ss, cs

-----------------------------------------------------------------------------
(***************************************************************************)
(* What comes before the segments of a resource in a path: segments that   *)
(* are resolved to eff, which stands for the segments m in the key.        *)
(***************************************************************************)
Dotted(text, m) ==
    \E pre, eff \in Seq(Segment) :
        /\ text = SlashText(pre)
        /\ Resolving!Fold(<< <<>> >>, pre) = << <<>> >> \o eff
        /\ m \in Seq(Seq(Octal)) /\ Len(eff) = Len(m)
        /\ \A i \in 1 .. Len(eff) : Normal(eff[i], Canonical(m[i]))

LEMMA FourBytes == \A a, b, c, d \in Int : <<a>> \o <<b, c, d>> = <<a, b, c, d>>
<1> SUFFICES ASSUME NEW a \in Int, NEW b \in Int, NEW c \in Int, NEW d \in Int
             PROVE  <<a>> \o <<b, c, d>> = <<a, b, c, d>>
  OBVIOUS
<1> DEFINE x == <<a>> \o <<b, c, d>>
           y == <<a, b, c, d>>
<1>1. x \in Seq(Int) /\ y \in Seq(Int) /\ Len(x) = 4 /\ Len(y) = 4
  OBVIOUS
<1>2. \A i \in 1 .. 4 : x[i] = y[i]
  OBVIOUS
<1> HIDE DEF x, y
<1>3. x = y
  BY <1>1, <1>2, SameLetters
<1> QED BY <1>3 DEF x, y

LEMMA FiveBytes ==
    \A a, b, c, d \in Int : (<<a>> \o <<b>>) \o (<<c>> \o <<d, d>>) = <<a, b, c, d, d>>
<1> SUFFICES ASSUME NEW a \in Int, NEW b \in Int, NEW c \in Int, NEW d \in Int
             PROVE  (<<a>> \o <<b>>) \o (<<c>> \o <<d, d>>) = <<a, b, c, d, d>>
  OBVIOUS
<1> DEFINE u == <<a>> \o <<b>>
           v == <<c>> \o <<d, d>>
           x == u \o v
           y == <<a, b, c, d, d>>
<1>1. u \in Seq(Int) /\ Len(u) = 2 /\ u[1] = a /\ u[2] = b
  OBVIOUS
<1>2. v \in Seq(Int) /\ Len(v) = 3 /\ v[1] = c /\ v[2] = d /\ v[3] = d
  OBVIOUS
<1>3. y \in Seq(Int) /\ Len(y) = 5
      /\ y[1] = a /\ y[2] = b /\ y[3] = c /\ y[4] = d /\ y[5] = d
  OBVIOUS
<1> HIDE DEF u, v, y
<1>4. x \in Seq(Int) /\ Len(x) = 5
      /\ x[1] = a /\ x[2] = b /\ x[3] = c /\ x[4] = d /\ x[5] = d
  <2>1. \A p, q \in Seq(Int) :
          /\ p \o q \in Seq(Int) /\ Len(p \o q) = Len(p) + Len(q)
          /\ \A i \in 1 .. Len(p) : (p \o q)[i] = p[i]
          /\ \A i \in 1 .. Len(q) : (p \o q)[Len(p) + i] = q[i]
    OBVIOUS
  <2>2. /\ x \in Seq(Int) /\ Len(x) = Len(u) + Len(v)
        /\ \A i \in 1 .. Len(u) : x[i] = u[i]
        /\ \A i \in 1 .. Len(v) : x[Len(u) + i] = v[i]
    BY Zenon, <1>1, <1>2, <2>1
  <2> HIDE DEF x
  <2> QED BY <1>1, <1>2, <2>2
<1> HIDE DEF x
<1>5. \A i \in 1 .. 5 : x[i] = y[i]
  BY <1>3, <1>4
<1>6. x = y
  BY <1>3, <1>4, <1>5, SameLetters
<1> QED BY <1>6 DEF x, y, u, v

LEMMA SlashTextNone == SlashText(<<>>) = <<>>
<1>1. Slashed(<<>>) = <<>>
  BY DEF Slashed
<1> QED BY <1>1, Reading!FlattenNone, FlattenIs DEF SlashText

LEMMA SlashTextOne ==
    ASSUME NEW x \in Segment PROVE SlashText(<<x>>) = <<U!Slash>> \o x
<1>1. <<>> \in Seq(Segment) /\ <<x>> \o <<>> = <<x>>
  OBVIOUS
<1>2. SlashText(<<x>> \o <<>>) = (<<U!Slash>> \o x) \o SlashText(<<>>) /\ <<U!Slash>> \o x \in Text
  BY <1>1, SlashTextCons
<1> QED BY <1>1, <1>2, SlashTextNone, TextConcat

LEMMA LiteralSegments ==
    /\ << <<>> >> \in Seq(Segment)
    /\ <<U!Dot>> \in Segment /\ <<U!Dot, U!Dot>> \in Segment /\ <<120>> \in Segment
    /\ <<U!Percent, 50, 69>> \in Segment /\ <<U!Dot>> \in Seq(Octal)
BY DEF Segment, U!Dot, U!Slash, U!Percent, Octal

LEMMA DottedNone == Dotted(<<>>, <<>>)
<1>1. <<>> \in Seq(Segment) /\ <<>> \in Seq(Seq(Octal)) /\ Len(<<>>) = 0
      /\ << <<>> >> \o <<>> = << <<>> >>
  OBVIOUS
<1>2. Resolving!Fold(<< <<>> >>, <<>>) = << <<>> >>
  BY Resolving!FoldNone
<1>3. \A i \in 1 .. Len(<<>>) : FALSE
  OBVIOUS
<1> QED BY <1>1, <1>2, <1>3, SlashTextNone DEF Dotted

LEMMA DottedHere == Dotted(<<U!Slash, U!Dot>>, <<>>)
<1> DEFINE pre == << <<U!Dot>> >>
<1>1. /\ <<>> \in Seq(Segment) /\ <<>> \in Seq(Seq(Octal)) /\ Len(<<>>) = 0
      /\ << <<>> >> \o <<>> = << <<>> >> /\ pre \in Seq(Segment)
  BY LiteralSegments
<1>2. Resolving!Fold(<< <<>> >>, pre) = << <<>> >>
  <2>1. Resolving!Fold(<< <<>> >>, pre) = U!PutSegment(<< <<>> >>, <<U!Dot>>)
    BY Resolving!FoldOne
  <2> QED BY <2>1 DEF U!PutSegment
<1>3. SlashText(pre) = <<U!Slash, U!Dot>>
  <2>1. SlashText(pre) = <<U!Slash>> \o <<U!Dot>>
    BY LiteralSegments, SlashTextOne
  <2>2. \A c, d : <<c>> \o <<d>> = <<c, d>>
    BY TwoBytes
  <2> QED BY <2>1, <2>2
<1>4. \A i \in 1 .. Len(<<>>) : FALSE
  OBVIOUS
<1> HIDE DEF pre
<1> QED BY <1>1, <1>2, <1>3, <1>4 DEF Dotted

LEMMA DottedUp == Dotted(<<U!Slash, 120, U!Slash, U!Dot, U!Dot>>, <<>>)
<1> DEFINE x == <<120>>
           up == <<U!Dot, U!Dot>>
           pre == <<x, up>>
           one == << <<>> >>
<1>0. x \in Segment /\ up \in Segment /\ one \in Seq(Segment)
  BY LiteralSegments
<1>1. /\ <<>> \in Seq(Segment) /\ <<>> \in Seq(Seq(Octal)) /\ Len(<<>>) = 0
      /\ one \o <<>> = one /\ <<x>> \in Seq(Segment) /\ <<up>> \in Seq(Segment)
  BY <1>0
<1>2. <<x>> \o <<up>> = pre
  BY TwoBytes
<1>3. Resolving!Fold(one, <<x>>) = Append(one, x)
  <2>1. Resolving!Fold(one, <<x>>) = U!PutSegment(one, x)
    BY Resolving!FoldOne
  <2> QED BY <2>1 DEF U!PutSegment, U!Dot
<1>4. Resolving!Fold(Append(one, x), <<up>>) = one
  <2>1. Resolving!Fold(Append(one, x), <<up>>) = U!PutSegment(Append(one, x), up)
    BY Resolving!FoldOne
  <2>2. up # <<U!Dot>> /\ Append(one, x) # <<>> /\ U!Front(Append(one, x)) = one
    <3>1. up # <<U!Dot>>
      OBVIOUS
    <3>2. \A s \in Seq(Segment) : \A e \in Segment :
             Append(s, e) # <<>> /\ SubSeq(Append(s, e), 1, Len(Append(s, e)) - 1) = s
      OBVIOUS
    <3> QED BY Zenon, <1>0, <3>1, <3>2 DEF U!Front
  <2> QED BY <2>1, <2>2 DEF U!PutSegment
<1> HIDE DEF one, x
<1>5. Resolving!Fold(one, pre) = one
  <2>1. Resolving!Fold(one, <<x>> \o <<up>>) = Resolving!Fold(Resolving!Fold(one, <<x>>), <<up>>)
    BY Zenon, <1>1, ResolvingConcat
  <2> QED BY Zenon, <1>2, <1>3, <1>4, <2>1
<1>6. SlashText(pre) = <<U!Slash, 120, U!Slash, U!Dot, U!Dot>>
  <2>1. SlashText(<<x>> \o <<up>>) = (<<U!Slash>> \o x) \o SlashText(<<up>>)
    BY Zenon, <1>0, <1>1, SlashTextCons
  <2>2. SlashText(<<up>>) = <<U!Slash>> \o up
    BY Zenon, <1>0, SlashTextOne
  <2>3. (<<U!Slash>> \o x) \o (<<U!Slash>> \o up) = <<U!Slash, 120, U!Slash, U!Dot, U!Dot>>
    BY FiveBytes DEF x, U!Slash, U!Dot
  <2> QED BY Zenon, <1>2, <2>1, <2>2, <2>3
<1>7. pre \in Seq(Segment)
  BY <1>0
<1>8. \A i \in 1 .. Len(<<>>) : FALSE
  OBVIOUS
<1> HIDE DEF pre
<1> QED BY <1>1, <1>5, <1>6, <1>7, <1>8 DEF Dotted, one

LEMMA DottedEscaped == Dotted(<<U!Slash, U!Percent, 50, 69>>, << <<U!Dot>> >>)
<1> DEFINE e == <<U!Percent, 50, 69>>
           m == << <<U!Dot>> >>
<1>1. /\ e \in Segment /\ m \in Seq(Seq(Octal)) /\ Len(m) = 1 /\ m[1] = <<U!Dot>>
  BY LiteralSegments
<1>2. Resolving!Fold(<< <<>> >>, <<e>>) = Append(<< <<>> >>, e)
  <2>1. Resolving!Fold(<< <<>> >>, <<e>>) = U!PutSegment(<< <<>> >>, e)
    BY Resolving!FoldOne
  <2>2. e # <<U!Dot>> /\ e # <<U!Dot, U!Dot>>
    OBVIOUS
  <2> QED BY <2>1, <2>2 DEF U!PutSegment
<1>3. << <<>> >> \o <<e>> = Append(<< <<>> >>, e)
  <2>1. \A s \in Seq(Segment) : \A x \in Segment : s \o <<x>> = Append(s, x)
    OBVIOUS
  <2> QED BY Zenon, <1>1, <2>1, LiteralSegments
<1>4. SlashText(<<e>>) = <<U!Slash, U!Percent, 50, 69>>
  <2>1. SlashText(<<e>>) = <<U!Slash>> \o e
    BY Zenon, <1>1, SlashTextOne
  <2>2. <<U!Slash>> \o e = <<U!Slash, U!Percent, 50, 69>>
    BY FourBytes DEF U!Slash, U!Percent
  <2> QED BY <2>1, <2>2
<1>5. Normal(e, Canonical(<<U!Dot>>))
  BY DotsNormal
<1> HIDE DEF e, m
<1>6. <<e>> \in Seq(Segment) /\ Len(<<e>>) = 1 /\ \A i \in 1 .. 1 : <<e>>[i] = e /\ i = 1
  BY <1>1
<1>7. \A i \in 1 .. Len(<<e>>) : Normal(<<e>>[i], Canonical(m[i]))
  BY <1>1, <1>5, <1>6
<1> QED BY <1>1, <1>2, <1>3, <1>4, <1>6, <1>7 DEF Dotted, m

-----------------------------------------------------------------------------
Bare(a) == a.resource.segments = << <<>> >> /\ a.style.bare
Lead(a) == IF Bare(a) \/ a.style.dots # "escaped" THEN <<>> ELSE << <<U!Dot>> >>
Raw(a) == [i \in 1 .. Len(a.resource.segments) |->
             Octets(a.resource.segments[i], a.style.escapes, Plain)]

LEMMA SegmentsOf ==
    ASSUME NEW a \in Addresses
    PROVE  LET L == a.resource.segments
           IN  /\ L \in Seq(Seq(Octal)) /\ Len(L) \in Nat \ {0} /\ DOMAIN L = 1 .. Len(L)
               /\ \A i \in 1 .. Len(L) : L[i] \in Seq(0 .. 255) /\ L[i] \notin U!Dots
               /\ Raw(a) \in Seq(Steady) /\ Len(Raw(a)) = Len(L)
               /\ \A i \in 1 .. Len(L) : /\ Normal(Raw(a)[i], Canonical(L[i]))
                                         /\ Raw(a)[i] = Octets(L[i], a.style.escapes, Plain)
<1> DEFINE L == a.resource.segments
           e == a.style.escapes
<1>1. L \in Seq(Seq(0 .. 255) \ U!Dots) /\ L # <<>>
  BY Zenon, AddressesAssumption
<1> HIDE DEF L, e
<1>2. /\ Len(L) \in Nat \ {0} /\ DOMAIN L = 1 .. Len(L)
      /\ \A i \in 1 .. Len(L) : L[i] \in Seq(0 .. 255) /\ L[i] \notin U!Dots
  BY <1>1
<1>3. \A i \in 1 .. Len(L) : /\ Octets(L[i], e, Plain) \in Steady
                             /\ Normal(Octets(L[i], e, Plain), Canonical(L[i]))
                             /\ L[i] \in Seq(Octal)
  BY <1>2, OctetsSteady
<1>4. L \in Seq(Seq(Octal))
  <2>1. L \in [1 .. Len(L) -> Seq(Octal)]
    BY <1>1, <1>3
  <2> QED BY <1>2, <2>1, SeqIs
<1>5. Raw(a) = [i \in 1 .. Len(L) |-> Octets(L[i], e, Plain)]
  BY DEF Raw, L, e
<1>6. Raw(a) \in Seq(Steady) /\ Len(Raw(a)) = Len(L)
  <2>1. Raw(a) \in [1 .. Len(L) -> Steady]
    BY <1>3, <1>5
  <2> QED BY <1>2, <2>1, SeqIs
<1>7. \A i \in 1 .. Len(L) : Raw(a)[i] = Octets(L[i], e, Plain)
  BY <1>5
<1> QED BY <1>2, <1>3, <1>4, <1>6, <1>7 DEF L, e

\* The dot segments of a style, whatever comes before the segments in the key.
LEMMA StyleDots ==
    ASSUME NEW a \in Addresses, ~ Bare(a) PROVE Dotted(DotText(a.style.dots), Lead(a))
<1>1. a.style.dots \in {"none", "here", "up", "escaped"}
  BY Zenon, AddressesAssumption
<1>2. CASE a.style.dots = "none"
  <2>1. DotText(a.style.dots) = <<>> /\ Lead(a) = <<>>
    BY Zenon, <1>2 DEF DotText, Lead
  <2> QED BY Zenon, <2>1, DottedNone
<1>3. CASE a.style.dots = "here"
  <2>1. DotText(a.style.dots) = <<U!Slash, U!Dot>> /\ Lead(a) = <<>>
    BY Zenon, <1>3 DEF DotText, Lead
  <2> QED BY Zenon, <2>1, DottedHere
<1>4. CASE a.style.dots = "up"
  <2>1. DotText(a.style.dots) = <<U!Slash, 120, U!Slash, U!Dot, U!Dot>> /\ Lead(a) = <<>>
    BY Zenon, <1>4 DEF DotText, Lead
  <2> QED BY Zenon, <2>1, DottedUp
<1>5. CASE a.style.dots = "escaped"
  <2>1. DotText(a.style.dots) = <<U!Slash, U!Percent, 50, 69>> /\ Lead(a) = << <<U!Dot>> >>
    BY Zenon, <1>5 DEF DotText, Lead
  <2> QED BY Zenon, <2>1, DottedEscaped
<1> QED BY Zenon, <1>1, <1>2, <1>3, <1>4, <1>5

LEMMA SlashTextConcat ==
    ASSUME NEW x \in Seq(Segment), NEW y \in Seq(Segment)
    PROVE  SlashText(x \o y) = SlashText(x) \o SlashText(y)
<1> DEFINE T == { k \in Nat : \A z \in Seq(Segment) :
                    Len(z) = k => SlashText(z \o y) = SlashText(z) \o SlashText(y) }
<1>0. SlashText(y) \in Text
  <2>1. Slashed(y) \in Seq(Seq(Int))
    BY SlashedType
  <2> QED BY <2>1, Reading!FlattenType, FlattenIs DEF SlashText, Text
<1>1. 0 \in T
  <2> SUFFICES ASSUME NEW z \in Seq(Segment), Len(z) = 0
               PROVE  SlashText(z \o y) = SlashText(z) \o SlashText(y)
    OBVIOUS
  <2>1. z = <<>> /\ z \o y = y
    OBVIOUS
  <2> QED BY <1>0, <2>1, SlashTextNone, TextConcat
<1>2. ASSUME NEW k \in Nat, k \in T PROVE k + 1 \in T
  <2> SUFFICES ASSUME NEW z \in Seq(Segment), Len(z) = k + 1
               PROVE  SlashText(z \o y) = SlashText(z) \o SlashText(y)
    BY <1>2
  <2>0. z # <<>>
    OBVIOUS
  <2>1. z[1] \in Segment /\ Tail(z) \in Seq(Segment) /\ z = <<z[1]>> \o Tail(z)
        /\ Len(Tail(z)) = Len(z) - 1
    BY <2>0, Reading!HeadAndTail
  <2>2. SlashText(Tail(z) \o y) = SlashText(Tail(z)) \o SlashText(y)
    <3>1. Len(Tail(z)) = k
      BY <2>1
    <3> QED BY Zenon, <1>2, <2>1, <3>1
  <2> HIDE DEF T
  <2>3. Tail(z) \o y \in Seq(Segment)
    BY <2>1
  <2>4. z \o y = <<z[1]>> \o (Tail(z) \o y)
    <3>1. \A p, q, r \in Seq(Segment) : Assoc(p, q, r)
      BY Zenon, SeqAssoc
    <3>2. <<z[1]>> \in Seq(Segment)
      BY <2>1
    <3>3. <<z[1]>> \o (Tail(z) \o y) = (<<z[1]>> \o Tail(z)) \o y
      <4>1. Assoc(<<z[1]>>, Tail(z), y)
        BY Zenon, <2>1, <3>1, <3>2
      <4> QED BY Zenon, <4>1 DEF Assoc
    <3> QED BY Zenon, <2>1, <3>3
  <2>5. /\ SlashText(z \o y) = (<<U!Slash>> \o z[1]) \o SlashText(Tail(z) \o y)
        /\ <<U!Slash>> \o z[1] \in Text
    BY <2>1, <2>3, <2>4, SlashTextCons
  <2>6. /\ SlashText(z) = (<<U!Slash>> \o z[1]) \o SlashText(Tail(z))
        /\ SlashText(Tail(z)) \in Text
    BY Zenon, <2>1, SlashTextCons
  <2>7. (<<U!Slash>> \o z[1]) \o (SlashText(Tail(z)) \o SlashText(y))
        = ((<<U!Slash>> \o z[1]) \o SlashText(Tail(z))) \o SlashText(y)
    BY Zenon, <1>0, <2>5, <2>6, TextConcat
  <2> QED BY Zenon, <2>2, <2>5, <2>6, <2>7
<1> HIDE DEF T
<1>3. \A k \in Nat : k \in T
  BY <1>1, <1>2, Reading!Induction
<1>4. Len(x) \in T
  BY <1>3
<1> QED BY <1>4 DEF T

(***************************************************************************)
(* However the path of a resource is written, in the key it is made of     *)
(* its segments; an escaped dot segment before them stays.                 *)
(***************************************************************************)
LEMMA PathReadBack ==
    ASSUME NEW a \in Addresses
    PROVE  U!PathText(Url(a)) = PathKey(Lead(a) \o a.resource.segments)
           /\ PathKey(Lead(a) \o a.resource.segments) \in Text
<1> DEFINE r == a.resource
           L == r.segments
           path == PathOf(r, a.style)
<1>1. /\ L \in Seq(Seq(Octal)) /\ Len(L) \in Nat \ {0} /\ DOMAIN L = 1 .. Len(L)
      /\ Raw(a) \in Seq(Steady) /\ Len(Raw(a)) = Len(L)
      /\ \A i \in 1 .. Len(L) : /\ Normal(Raw(a)[i], Canonical(L[i]))
                                /\ Raw(a)[i] = Octets(L[i], a.style.escapes, Plain)
  BY Zenon, SegmentsOf
<1>2. Url(a).path = path /\ Url(a).scheme = r.scheme
  BY DEF Url
<1>3. r.scheme \in {"http", "https"}
  BY Zenon, AddressesAssumption
<1>4. CASE Bare(a)
  <2>1. path = <<>> /\ Lead(a) = <<>> /\ L = << <<>> >>
    BY Zenon, <1>4 DEF Bare, Lead, PathOf
  <2>2. U!RemoveDots(<<>>) = <<>>
    BY DEF U!RemoveDots
  <2>3. U!PathText(Url(a)) = U!NormalizePercentEncoding(<<U!Slash>>)
    BY Zenon, <1>2, <1>3, <2>1, <2>2 DEF U!PathText
  <2>4. Normal(<<U!Slash>>, <<U!Slash>>)
    BY NormalPlain DEF U!Slash, U!Percent
  <2>5. U!NormalizePercentEncoding(<<U!Slash>>) = <<U!Slash>>
    BY <2>4, NormalAlone DEF N
  <2>6. PathKey(<<>> \o << <<>> >>) = <<U!Slash>>
    <3>1. <<>> \o << <<>> >> = << <<>> >>
      OBVIOUS
    <3>2. Canonical(<<>>) = <<>>
      <4>1. [i \in 1 .. Len(<<>>) |-> Canon(<<>>[i])] = <<>>
        OBVIOUS
      <4> QED BY Zenon, <4>1, Reading!FlattenNone, FlattenIs DEF Canonical
    <3>3. PathWords(<< <<>> >>) = << <<U!Slash>> >>
      <4>1. <<U!Slash>> \o <<>> = <<U!Slash>>
        OBVIOUS
      <4>2. Len(<< <<>> >>) = 1 /\ \A i \in 1 .. 1 : << <<>> >>[i] = <<>>
        OBVIOUS
      <4>3. \A i \in 1 .. 1 : <<U!Slash>> \o Canonical(<< <<>> >>[i]) = <<U!Slash>>
        BY Zenon, <3>2, <4>1, <4>2
      <4>4. PathWords(<< <<>> >>) = [i \in 1 .. 1 |-> <<U!Slash>>]
        BY Zenon, <4>2, <4>3 DEF PathWords
      <4>5. \A x : [i \in 1 .. 1 |-> x] = <<x>>
        OBVIOUS
      <4> QED BY Zenon, <4>4, <4>5
    <3> QED BY Zenon, <3>1, <3>3, Reading!FlattenOne, FlattenIs DEF PathKey
  <2>7. <<U!Slash>> \in Text
    BY DEF Text, U!Slash
  <2> QED BY <2>1, <2>3, <2>5, <2>6, <2>7
<1>5. CASE ~ Bare(a)
  <2>1. PICK pre \in Seq(Segment), eff \in Seq(Segment) :
          /\ DotText(a.style.dots) = SlashText(pre)
          /\ Resolving!Fold(<< <<>> >>, pre) = << <<>> >> \o eff
          /\ Lead(a) \in Seq(Seq(Octal)) /\ Len(eff) = Len(Lead(a))
          /\ \A i \in 1 .. Len(eff) : Normal(eff[i], Canonical(Lead(a)[i]))
    BY Zenon, <1>5, StyleDots DEF Dotted
  <2> HIDE DEF L, path, r
  <2>2. Raw(a) \in Seq(Segment) /\ Raw(a) # <<>>
    BY <1>1 DEF Steady
  <2>3. path = SlashText(pre \o Raw(a))
    <3>1. path = DotText(a.style.dots)
                 \o FlattenSeq([i \in 1 .. Len(L) |-> <<U!Slash>> \o Octets(L[i], a.style.escapes, Plain)])
      BY Zenon, <1>1, <1>5 DEF path, PathOf, Bare, L, r
    <3>2. [i \in 1 .. Len(L) |-> <<U!Slash>> \o Octets(L[i], a.style.escapes, Plain)] = Slashed(Raw(a))
      BY <1>1 DEF Slashed
    <3>3. path = SlashText(pre) \o SlashText(Raw(a))
      BY Zenon, <2>1, <3>1, <3>2 DEF SlashText
    <3> QED BY <2>2, <3>3, SlashTextConcat
  <2>4. U!RemoveDots(path) = SlashText(eff \o Raw(a))
    BY <1>1, <2>1, <2>2, <2>3, DotsRemoved
  <2> DEFINE E == eff \o Raw(a)
             M == Lead(a) \o L
  <2>5. /\ E \in Seq(Segment) /\ M \in Seq(Seq(Octal)) /\ Len(E) = Len(M) /\ E # <<>>
        /\ \A i \in 1 .. Len(E) : Normal(E[i], Canonical(M[i]))
    <3>1. E \in Seq(Segment) /\ M \in Seq(Seq(Octal)) /\ Len(E) = Len(M) /\ E # <<>>
      <4>1. M \in Seq(Seq(Octal)) /\ Len(M) = Len(Lead(a)) + Len(L)
        BY <1>1, <2>1
      <4>2. E \in Seq(Segment) /\ Len(E) = Len(eff) + Len(Raw(a))
        <5>1. \A p, q \in Seq(Segment) : p \o q \in Seq(Segment) /\ Len(p \o q) = Len(p) + Len(q)
          OBVIOUS
        <5> QED BY Zenon, <2>2, <5>1
      <4>3. Len(E) > 0 /\ Len(E) = Len(M)
        BY <1>1, <2>1, <4>1, <4>2
      <4> QED BY <4>1, <4>2, <4>3
    <3>2. ASSUME NEW i \in 1 .. Len(E) PROVE Normal(E[i], Canonical(M[i]))
      <4>1. CASE i <= Len(eff)
        <5>1. i \in 1 .. Len(eff) /\ E[i] = eff[i] /\ M[i] = Lead(a)[i]
          BY <1>1, <2>1, <2>2, <4>1
        <5> QED BY <2>1, <5>1
      <4>2. CASE i > Len(eff)
        <5> DEFINE j == i - Len(eff)
        <5>1. j \in 1 .. Len(L) /\ E[i] = Raw(a)[j] /\ M[i] = L[j]
          <6>1. \A S : \A f, g \in Seq(S) : \A k \in 1 .. Len(f \o g) :
                   k > Len(f) => k - Len(f) \in 1 .. Len(g) /\ (f \o g)[k] = g[k - Len(f)]
            OBVIOUS
          <6> QED BY <1>1, <2>1, <2>2, <4>2, <6>1
        <5> QED BY <1>1, <5>1
      <4>3. i <= Len(eff) \/ i > Len(eff)
        BY <2>1
      <4> QED BY <4>1, <4>2, <4>3
    <3> QED BY <3>1, <3>2
  <2> HIDE DEF E, M
  <2>6. Normal(SlashText(E), PathKey(M))
    BY <2>5, PathNormal
  <2>7. SlashText(E) # <<>>
    <3>1. Len(SlashText(E)) > 0
      BY <2>5, SlashTextBegins
    <3> QED BY <3>1
  <2>8. U!PathText(Url(a)) = U!NormalizePercentEncoding(SlashText(E))
    BY Zenon, <1>2, <2>4, <2>7 DEF U!PathText, E
  <2>9. U!NormalizePercentEncoding(SlashText(E)) = PathKey(M) /\ PathKey(M) \in Text
    <3>1. N(SlashText(E)) = PathKey(M)
      BY Zenon, <2>6, NormalAlone
    <3>2. PathKey(M) \in Text
      BY Zenon, <2>6 DEF Normal
    <3> QED BY <3>1, <3>2 DEF N
  <2> QED BY Zenon, <2>8, <2>9 DEF M, L, r
<1> QED BY <1>4, <1>5

-----------------------------------------------------------------------------
(***************************************************************************)
(* The key of an address, by its resource.                                 *)
(***************************************************************************)
AuthorityKey(r) == r.name \o (IF r.port # U!DefaultPort(r.scheme) THEN <<U!Colon>> \o r.port ELSE <<>>)
QueryKey(r) == IF r.query = <<>> THEN <<>> ELSE <<U!Question>> \o Canonical(r.query)

LEMMA QueryReadBack ==
    ASSUME NEW a \in Addresses, ~ NonAscii(a.resource.query)
    PROVE  /\ (Url(a).query = <<>> <=> a.resource.query = <<>>)
           /\ U!NormalizePercentEncoding(Url(a).query) = Canonical(a.resource.query)
           /\ a.resource.query \in Seq(Octal) /\ Canonical(a.resource.query) \in Text
<1> DEFINE s == a.resource.query
           e == a.style.escapes
<1>1. s \in Seq((0 .. 255) \cup { Delimiter + d : d \in Delimiters })
  BY Zenon, AddressesAssumption
<1>2. Url(a).query = Octets(s, e, RawInQuery)
  BY DEF Url
<1>3. ~ NonAscii(s)
  OBVIOUS
<1> HIDE DEF s, e
<1>4. s \in Seq(Octal) /\ Len(s) \in Nat /\ DOMAIN s = 1 .. Len(s)
  BY <1>1 DEF Octal
<1>5. \A i \in 1 .. Len(s) : s[i] \in Octal /\ s[i] \notin 128 .. 255
  <2>1. \A i \in 1 .. Len(s) : s[i] \in Octal
    BY <1>4, LettersOf
  <2>2. \A i \in 1 .. Len(s) : s[i] \notin 128 .. 255
    BY Zenon, <1>3, <1>4 DEF NonAscii
  <2> QED BY <2>1, <2>2
<1>6. \A i \in 1 .. Len(s) : s[i] \in RawInQuery => s[i] \in Plain \/ s[i] >= Delimiter
  BY <1>5 DEF RawInQuery
<1>7. Normal(Octets(s, e, RawInQuery), Canonical(s))
  BY <1>4, <1>6, OctetsNormal
<1>8. N(Octets(s, e, RawInQuery)) = Canonical(s) /\ Canonical(s) \in Text
  BY Zenon, <1>7, NormalAlone DEF Normal
<1>9. Octets(s, e, RawInQuery) = <<>> <=> s = <<>>
  <2> DEFINE ss == [i \in DOMAIN s |-> Octet(s[i], e, RawInQuery)]
  <2>1. CASE s = <<>>
    <3>1. ss = <<>>
      BY <1>4, <2>1
    <3> QED BY Zenon, <2>1, <3>1, Reading!FlattenNone, FlattenIs DEF Octets
  <2>2. CASE s # <<>>
    <3>1. Len(s) > 0
      BY <1>4, <2>2
    <3>2. \A i \in 1 .. Len(s) : Octet(s[i], e, RawInQuery) \in Text /\ Len(Octet(s[i], e, RawInQuery)) > 0
      <4>1. \A i \in 1 .. Len(s) : /\ Normal(Octet(s[i], e, RawInQuery), Canon(s[i]))
                                   /\ Len(Octet(s[i], e, RawInQuery)) > 0
        BY <1>5, <1>6, OctetNormal
      <4> QED BY <4>1 DEF Normal
    <3>3. ss \in Seq(Text) /\ ss # <<>> /\ ss[1] \in Text /\ Len(ss[1]) > 0
      <4>1. ss \in [1 .. Len(s) -> Text]
        BY <1>4, <3>2
      <4>2. ss \in Seq(Text) /\ Len(ss) = Len(s)
        BY <1>4, <4>1, SeqIs
      <4>3. 1 \in 1 .. Len(s) /\ ss[1] = Octet(s[1], e, RawInQuery)
        BY <1>4, <3>1
      <4> HIDE DEF ss
      <4> QED BY <3>1, <3>2, <4>2, <4>3
    <3> HIDE DEF ss
    <3>4. Tail(ss) \in Seq(Text) /\ ss = <<ss[1]>> \o Tail(ss)
      BY <3>3, Reading!HeadAndTail
    <3>5. FlattenSeq(ss) = ss[1] \o FlattenSeq(Tail(ss)) /\ FlattenSeq(Tail(ss)) \in Text
      BY <3>3, <3>4, TextCons
    <3>6. FlattenSeq(ss) # <<>>
      BY <3>3, <3>5 DEF Text
    <3> QED BY <2>2, <3>6 DEF Octets, ss
  <2> QED BY <2>1, <2>2
<1> QED BY <1>2, <1>4, <1>8, <1>9 DEF N, s, e

LEMMA KeyIs ==
    ASSUME NEW a \in Addresses, ~ NonAscii(a.resource.query)
    PROVE  Key[a] = <<a.resource.scheme,
                      AuthorityKey(a.resource) \o PathKey(Lead(a) \o a.resource.segments)
                      \o QueryKey(a.resource)>>
<1> DEFINE u == Url(a)
           r == a.resource
<1>1. Key[a] = U!Normalize(u)
  BY DEF Key
<1>2. u.opaque = <<>> /\ u.scheme = r.scheme /\ u.host = HostText(r, a.style)
  BY DEF Url
<1>3. U!Authority(u.scheme, u.host) = AuthorityKey(r)
  <2>1. /\ U!ToLower(U!SplitHostPort(u.host).host) = r.name
        /\ U!PortOf(u.scheme, u.host) = r.port
    BY Zenon, <1>2, HostReadBack
  <2> QED BY Zenon, <1>2, <2>1 DEF U!Authority, AuthorityKey
<1>4. U!PathText(u) = PathKey(Lead(a) \o r.segments)
  BY Zenon, PathReadBack
<1>5. (IF u.query = <<>> THEN <<>> ELSE <<U!Question>> \o U!NormalizePercentEncoding(u.query))
      = QueryKey(r)
  BY Zenon, QueryReadBack DEF QueryKey
<1>6. U!Normalize(u) = <<r.scheme, AuthorityKey(r) \o PathKey(Lead(a) \o r.segments) \o QueryKey(r)>>
  BY Zenon, <1>2, <1>3, <1>4, <1>5 DEF U!Normalize
<1> QED BY <1>1, <1>6

LEMMA TwoAddresses ==
    ASSUME Written, Is("url", 2)
    PROVE  input.items[1] \in Addresses /\ input.items[2] \in Addresses
<1>1. input.items \in Seq(Addresses) /\ Len(input.items) = 2
  BY DEF Written, Items, Is
<1> QED BY <1>1

(***************************************************************************)
(* All ways to write the URL of a resource lead to one key: the case of    *)
(* the host, the default port, an empty path, dot segments and escapes     *)
(* make no difference to urlkey.Normalize, for URLs of any length.         *)
(***************************************************************************)
THEOREM KeysOfResource == Spec => []KeyOfResource
<1>1. Written => KeyOfResource
  <2> SUFFICES ASSUME Written, Is("url", 2),
                      input.items[1].resource = input.items[2].resource,
                      "escaped" \notin {input.items[1].style.dots, input.items[2].style.dots},
                      ~ NonAscii(input.items[1].resource.query)
               PROVE  Key[input.items[1]] = Key[input.items[2]]
    BY Zenon DEF KeyOfResource
  <2> DEFINE a == input.items[1]
             b == input.items[2]
  <2>1. a \in Addresses /\ b \in Addresses
    BY TwoAddresses
  <2>2. a.resource = b.resource /\ ~ NonAscii(a.resource.query) /\ ~ NonAscii(b.resource.query)
    OBVIOUS
  <2>3. Lead(a) = <<>> /\ Lead(b) = <<>>
    BY Zenon DEF Lead
  <2> HIDE DEF a, b
  <2>4. Key[a] = Key[b]
    BY Zenon, <2>1, <2>2, <2>3, KeyIs
  <2> QED BY <2>4 DEF a, b
<1> QED BY <1>1, AlwaysWritten, PTL

-----------------------------------------------------------------------------
\* No delimiter of a URL comes from within a segment.
Clean == Int \ {U!Slash, U!Question}

LEMMA CanonicalClean == ASSUME NEW s \in Seq(0 .. 255) PROVE Canonical(s) \in Seq(Clean)
<1> DEFINE cs == [i \in 1 .. Len(s) |-> Canon(s[i])]
<1>1. ASSUME NEW o \in 0 .. 255 PROVE Canon(o) \in Seq(Clean)
  <2>1. o \in Octal /\ o < Delimiter
    BY DEF Octal, Delimiter
  <2>2. Canon(o) \in Text /\ \A i \in 1 .. Len(Canon(o)) : Canon(o)[i] \notin {U!Slash, U!Question}
    BY <2>1, CanonBytes
  <2> DEFINE c == Canon(o)
  <2> HIDE DEF c
  <2>3. c \in Seq(Int) /\ \A i \in 1 .. Len(c) : c[i] \notin {U!Slash, U!Question}
    BY <2>2 DEF Text, c
  <2>4. c \in Seq(Clean)
    BY <2>3 DEF Clean
  <2> QED BY <2>4 DEF c
<1>2. Len(s) \in Nat /\ \A i \in 1 .. Len(s) : s[i] \in 0 .. 255
  BY LettersOf
<1>3. cs \in [1 .. Len(s) -> Seq(Clean)]
  BY <1>1, <1>2
<1>4. cs \in Seq(Seq(Clean))
  BY <1>2, <1>3, SeqIs
<1> HIDE DEF cs
<1>5. Reading!Flat(cs) \in Seq(Clean)
  BY Zenon, <1>4, Reading!FlattenType
<1> QED BY Zenon, <1>5, FlattenIs DEF Canonical, cs

LEMMA Wider ==
    /\ \A s \in Seq(Clean) : s \in Seq(Int) /\ s \in Text
    /\ \A s \in Seq(0 .. 255) : s \in Seq(Octal)
<1>1. Clean \subseteq Int /\ 0 .. 255 \subseteq Octal
  BY DEF Clean, Octal
<1>2. \A s \in Seq(Clean) : s \in Seq(Int)
  BY <1>1, SeqWider
<1>3. \A s \in Seq(0 .. 255) : s \in Seq(Octal)
  BY <1>1, SeqWider
<1> QED BY <1>2, <1>3 DEF Text

PathParts == { <<U!Slash>> \o x : x \in Seq(Clean) }

LEMMA WordsText ==
    /\ PathParts \in SUBSET Seq(Int \ {U!Question}) /\ PathParts \subseteq Text
    /\ <<>> \notin PathParts
    /\ \A w \in PathParts : w[1] = U!Slash /\ Len(w) > 0
<1>1. ASSUME NEW x \in Seq(Clean)
      PROVE  LET w == <<U!Slash>> \o x
             IN  w \in Seq(Int \ {U!Question}) /\ w \in Seq(Int) /\ w[1] = U!Slash /\ Len(w) > 0
  <2>1. U!Slash \in Int \ {U!Question} /\ Clean \subseteq Int \ {U!Question}
    BY DEF U!Slash, U!Question, Clean
  <2>2. x \in Seq(Int \ {U!Question}) /\ x \in Seq(Int)
    BY <2>1, SeqWider DEF Clean
  <2> QED BY <2>1, <2>2
<1>2. \A w \in PathParts : /\ w \in Seq(Int \ {U!Question}) /\ w \in Seq(Int)
                       /\ w[1] = U!Slash /\ Len(w) > 0
  BY <1>1 DEF PathParts
<1>3. <<>> \notin PathParts
  <2>1. ~ Len(<<>>) > 0
    OBVIOUS
  <2> QED BY <1>2, <2>1
<1> QED BY <1>2, <1>3 DEF Text

LEMMA PathWordsIn ==
    ASSUME NEW L \in Seq(Seq(0 .. 255))
    PROVE  /\ PathWords(L) \in Seq(PathParts) /\ Len(PathWords(L)) = Len(L) /\ Len(L) \in Nat
           /\ \A i \in 1 .. Len(L) : /\ L[i] \in Seq(0 .. 255)
                                     /\ PathWords(L)[i] = <<U!Slash>> \o Canonical(L[i])
<1>1. Len(L) \in Nat /\ \A i \in 1 .. Len(L) : L[i] \in Seq(0 .. 255)
  BY LettersOf
<1>2. \A i \in 1 .. Len(L) : <<U!Slash>> \o Canonical(L[i]) \in PathParts
  BY <1>1, CanonicalClean DEF PathParts
<1>3. PathWords(L) \in [1 .. Len(L) -> PathParts]
  BY <1>2 DEF PathWords
<1>4. \A i \in 1 .. Len(L) : PathWords(L)[i] = <<U!Slash>> \o Canonical(L[i])
  BY DEF PathWords
<1> QED BY <1>1, <1>3, <1>4, SeqIs

\* A text of words ends, or goes on with a slash.
LEMMA WordsBehind ==
    ASSUME NEW c \in Seq(PathParts)
    PROVE  /\ FlattenSeq(c) \in Text /\ Behind(FlattenSeq(c), U!Slash)
           /\ c # <<>> => Len(FlattenSeq(c)) > 0
<1>1. CASE c = <<>>
  <2>1. FlattenSeq(c) = <<>>
    BY Zenon, <1>1, Reading!FlattenNone, FlattenIs
  <2>2. <<>> \in Text
    BY DEF Text
  <2> QED BY Zenon, <1>1, <2>1, <2>2 DEF Behind
<1>2. CASE c # <<>>
  <2>1. c[1] \in PathParts /\ Tail(c) \in Seq(PathParts) /\ c = <<c[1]>> \o Tail(c)
    BY <1>2, Reading!HeadAndTail
  <2>2. c[1] \in Text /\ Tail(c) \in Seq(Text) /\ c[1][1] = U!Slash /\ Len(c[1]) > 0
    BY <2>1, WordsText, SeqWider
  <2>3. FlattenSeq(c) = c[1] \o FlattenSeq(Tail(c)) /\ FlattenSeq(Tail(c)) \in Text
    BY <2>1, <2>2, TextCons
  <2> DEFINE x == c[1]
             y == FlattenSeq(Tail(c))
  <2> HIDE DEF x, y
  <2>4. x \in Seq(Int) /\ y \in Seq(Int) /\ Len(x) > 0 /\ x[1] = U!Slash
    BY <2>2, <2>3 DEF x, y, Text
  <2>5. x \o y \in Seq(Int) /\ (x \o y)[1] = U!Slash /\ Len(x \o y) > 0
    BY <2>4
  <2>6. FlattenSeq(c) = x \o y
    BY <2>3 DEF x, y
  <2> QED BY Zenon, <2>5, <2>6 DEF Behind, Text
<1> QED BY <1>1, <1>2

\* A path can be cut into its segments again.
LEMMA PathsApart ==
    ASSUME NEW L \in Seq(Seq(0 .. 255)), NEW M \in Seq(Seq(0 .. 255)), PathKey(L) = PathKey(M)
    PROVE  L = M
<1>1. ASSUME NEW u \in PathParts, NEW v \in PathParts,
             NEW c \in Seq(PathParts), NEW d \in Seq(PathParts),
             u \o FlattenSeq(c) = v \o FlattenSeq(d)
      PROVE  u = v
  <2>1. PICK x \in Seq(Clean) : u = <<U!Slash>> \o x
    BY DEF PathParts
  <2>2. PICK y \in Seq(Clean) : v = <<U!Slash>> \o y
    BY DEF PathParts
  <2>3. x \in Text /\ y \in Text /\ <<U!Slash>> \in Text
    BY Wider DEF Text, U!Slash
  <2>4. (\A i \in 1 .. Len(x) : x[i] # U!Slash) /\ (\A i \in 1 .. Len(y) : y[i] # U!Slash)
    BY LettersOf DEF Clean
  <2> DEFINE p == FlattenSeq(c)
             q == FlattenSeq(d)
  <2>5. p \in Text /\ q \in Text /\ Behind(p, U!Slash) /\ Behind(q, U!Slash)
    BY WordsBehind
  <2>6. (<<U!Slash>> \o x) \o p = (<<U!Slash>> \o y) \o q
    BY <1>1, <2>1, <2>2
  <2> HIDE DEF p, q
  <2>7. <<U!Slash>> \o (x \o p) = <<U!Slash>> \o (y \o q)
    <3>1. Assoc(<<U!Slash>>, x, p) /\ Assoc(<<U!Slash>>, y, q)
      BY Zenon, <2>3, <2>5, TextAssoc
    <3>2. /\ <<U!Slash>> \o (x \o p) = (<<U!Slash>> \o x) \o p
          /\ <<U!Slash>> \o (y \o q) = (<<U!Slash>> \o y) \o q
      BY Zenon, <3>1 DEF Assoc
    <3> QED BY Zenon, <2>6, <3>2
  <2>8. x \o p \in Text /\ y \o q \in Text
    BY <2>3, <2>5, TextConcat
  <2>9. x \o p = y \o q
    <3>1. <<U!Slash>> \in Seq(Int) /\ x \o p \in Seq(Int) /\ y \o q \in Seq(Int)
      BY Zenon, <2>3, <2>8 DEF Text
    <3>2. \A f, g, h \in Seq(Int) : f \o g = f \o h => g = h
      BY Zenon, Reading!ConcatCancel
    <3> QED BY Zenon, <2>7, <3>1, <3>2
  <2>10. x = y
    BY <2>3, <2>4, <2>5, <2>9, FirstCut
  <2> QED BY <2>1, <2>2, <2>10
<1> DEFINE a == PathWords(L)
           b == PathWords(M)
<1>2. a \in Seq(PathParts) /\ b \in Seq(PathParts) /\ Len(a) = Len(L) /\ Len(b) = Len(M)
  BY PathWordsIn
<1>3. PathParts \in SUBSET Seq(Int) /\ <<>> \notin PathParts
  BY WordsText DEF Text
<1>4. Reading!Flat(a) = Reading!Flat(b)
  BY FlattenIs DEF PathKey
<1>5. \A u, v \in PathParts, c, d \in Seq(PathParts) :
         u \o Reading!Flat(c) = v \o Reading!Flat(d) => u = v
  <2> SUFFICES ASSUME NEW u \in PathParts, NEW v \in PathParts,
                      NEW c \in Seq(PathParts), NEW d \in Seq(PathParts),
                      u \o Reading!Flat(c) = v \o Reading!Flat(d)
               PROVE  u = v
    OBVIOUS
  <2>1. u \o FlattenSeq(c) = v \o FlattenSeq(d)
    BY Zenon, FlattenIs
  <2> QED BY Zenon, <1>1, <2>1
<1> HIDE DEF a, b
<1>6. a = b
  BY <1>2, <1>3, <1>4, <1>5, Reading!FlattenApart
<1>7. Len(L) = Len(M)
  BY <1>2, <1>6
<1>8. ASSUME NEW i \in 1 .. Len(L) PROVE L[i] = M[i]
  <2>1. /\ L[i] \in Seq(0 .. 255) /\ a[i] = <<U!Slash>> \o Canonical(L[i])
        /\ M[i] \in Seq(0 .. 255) /\ b[i] = <<U!Slash>> \o Canonical(M[i])
    BY <1>7, PathWordsIn DEF a, b
  <2>2. Canonical(L[i]) \in Seq(Int) /\ Canonical(M[i]) \in Seq(Int) /\ <<U!Slash>> \in Seq(Int)
    <3>1. Canonical(L[i]) \in Seq(Clean) /\ Canonical(M[i]) \in Seq(Clean)
      BY <2>1, CanonicalClean
    <3> QED BY <3>1, Wider DEF U!Slash
  <2>3. Canonical(L[i]) = Canonical(M[i])
    <3>1. <<U!Slash>> \o Canonical(L[i]) = <<U!Slash>> \o Canonical(M[i])
      BY <1>6, <2>1
    <3> QED BY <2>2, <3>1, Reading!ConcatCancel
  <2>4. L[i] \in Seq(Octal) /\ M[i] \in Seq(Octal)
    BY <2>1, Wider
  <2> QED BY <2>3, <2>4, CanonicalApart
<1> QED BY <1>7, <1>8, SameLetters

-----------------------------------------------------------------------------
LEMMA HostWider ==
    /\ \A p \in Seq(U!Digits) : p \in Seq(Int)
    /\ \A n \in Seq(HostLetters) : n \in Seq(Int)
<1>1. U!Digits \subseteq Int /\ HostLetters \subseteq Int
  BY DEF U!Digits, HostLetters
<1>2. \A p \in Seq(U!Digits) : p \in Seq(Int)
  BY <1>1, SeqWider
<1>3. \A n \in Seq(HostLetters) : n \in Seq(Int)
  BY <1>1, SeqWider
<1> QED BY <1>2, <1>3

PortKey(p, d) == IF p # d THEN <<U!Colon>> \o p ELSE <<>>

LEMMA PortKeyIs ==
    ASSUME NEW p \in Seq(U!Digits), p # <<>>, NEW d
    PROVE  /\ PortKey(p, d) \in Text /\ Behind(PortKey(p, d), U!Colon)
           /\ \A i \in 1 .. Len(PortKey(p, d)) :
                /\ PortKey(p, d)[i] # U!Slash
                /\ PortKey(p, d)[i] = U!Colon => i = 1
<1>1. CASE p = d
  <2>1. PortKey(p, d) = <<>>
    BY <1>1 DEF PortKey
  <2>2. <<>> \in Text /\ \A i \in 1 .. Len(<<>>) : FALSE
    BY DEF Text
  <2> QED BY <2>1, <2>2 DEF Behind
<1>2. CASE p # d
  <2>1. PortKey(p, d) = <<U!Colon>> \o p
    BY <1>2 DEF PortKey
  <2> DEFINE x == <<U!Colon>> \o p
  <2>2. Len(p) \in Nat /\ \A i \in 1 .. Len(p) : p[i] \in U!Digits
    BY LettersOf
  <2>3. x \in Seq(Int) /\ x[1] = U!Colon /\ Len(x) = Len(p) + 1
        /\ \A i \in 2 .. Len(p) + 1 : x[i] = p[i - 1]
    <3>1. p \in Seq(Int) /\ U!Colon \in Int
      <4>1. p \in Seq(Int)
        BY HostWider
      <4>2. U!Colon \in Int
        BY DEF U!Colon
      <4> QED BY <4>1, <4>2
    <3> QED BY <3>1
  <2> HIDE DEF x
  <2>4. ASSUME NEW i \in 1 .. Len(x) PROVE x[i] # U!Slash /\ (x[i] = U!Colon => i = 1)
    <3>1. CASE i = 1
      BY <2>3, <3>1 DEF U!Slash, U!Colon
    <3>2. CASE i # 1
      <4>1. i \in 2 .. Len(p) + 1 /\ i - 1 \in 1 .. Len(p)
        BY <2>2, <2>3, <3>2
      <4>2. x[i] \in U!Digits
        BY <2>2, <2>3, <4>1
      <4> QED BY <4>2 DEF U!Slash, U!Colon, U!Digits
    <3> QED BY <3>1, <3>2
  <2>5. x \in Text /\ Behind(x, U!Colon)
    BY <2>3 DEF Behind, Text
  <2>6. PortKey(p, d) = x
    BY <2>1 DEF x
  <2> QED BY <2>4, <2>5, <2>6
<1> QED BY <1>1, <1>2

LEMMA PortsApart ==
    ASSUME NEW p \in Seq(U!Digits), NEW q \in Seq(U!Digits), NEW d, PortKey(p, d) = PortKey(q, d)
    PROVE  p = q
<1>1. <<U!Colon>> \in Seq(Int)
  BY DEF U!Colon
<1>2. p \in Seq(Int) /\ q \in Seq(Int) /\ <<U!Colon>> \in Seq(Int)
  BY Zenon, <1>1, HostWider
<1>3. \A x \in Seq(Int) : <<U!Colon>> \o x # <<>>
  BY <1>2
<1>4. CASE p = d /\ q = d
  BY <1>4
<1>5. CASE p # d /\ q # d
  <2>1. <<U!Colon>> \o p = <<U!Colon>> \o q
    BY <1>5 DEF PortKey
  <2> QED BY <1>2, <2>1, Reading!ConcatCancel
<1>6. CASE p = d /\ q # d
  BY <1>2, <1>3, <1>6 DEF PortKey
<1>7. CASE p # d /\ q = d
  BY <1>2, <1>3, <1>7 DEF PortKey
<1> QED BY <1>4, <1>5, <1>6, <1>7

LEMMA NameOf ==
    ASSUME NEW a \in Addresses
    PROVE  LET r == a.resource
           IN  /\ r.name \in Text /\ r.port \in Seq(U!Digits) /\ r.port # <<>> /\ r.ip6 \in BOOLEAN
               /\ \A i \in 1 .. Len(r.name) : r.name[i] # U!Slash
               /\ ~ r.ip6 => \A i \in 1 .. Len(r.name) : r.name[i] # U!Colon
               /\ r.ip6 => \E i, j \in 1 .. Len(r.name) :
                              i # j /\ r.name[i] = U!Colon /\ r.name[j] = U!Colon
<1> DEFINE r == a.resource
           colons == { i \in DOMAIN r.name : r.name[i] = U!Colon }
<1>1. /\ r.name \in Seq(HostLetters) /\ r.port \in Seq(U!Digits) /\ r.port # <<>>
      /\ r.ip6 \in BOOLEAN
      /\ (r.ip6 => \E i, j \in colons : i # j) /\ (~ r.ip6 => colons = {})
  <2>1. r.name \in Seq(HostLetters) /\ r.ip6 \in BOOLEAN
    BY Zenon, AddressesAssumption
  <2>2. r.port \in Seq(U!Digits) /\ r.port # <<>>
    BY Zenon, AddressesAssumption
  <2>3. (r.ip6 => \E i, j \in colons : i # j) /\ (~ r.ip6 => colons = {})
    BY Zenon, AddressesAssumption
  <2> QED BY Zenon, <2>1, <2>2, <2>3
<1> DEFINE n == r.name
<1>2. n \in Seq(Int) /\ DOMAIN n = 1 .. Len(n) /\ \A i \in 1 .. Len(n) : n[i] \in HostLetters
  <2>1. n \in Seq(HostLetters) /\ n \in Seq(Int)
    BY Zenon, <1>1, HostWider
  <2> HIDE DEF n
  <2>2. \A i \in 1 .. Len(n) : n[i] \in HostLetters
    BY <2>1, LettersOf
  <2>3. DOMAIN n = 1 .. Len(n)
    BY <2>1
  <2> QED BY <2>1, <2>2, <2>3
<1>3. \A i \in 1 .. Len(n) : n[i] # U!Slash
  BY <1>2 DEF HostLetters
<1>4. ~ r.ip6 => \A i \in 1 .. Len(n) : n[i] # U!Colon
  BY Zenon, <1>1, <1>2
<1>5. r.ip6 => \E i, j \in 1 .. Len(n) : i # j /\ n[i] = U!Colon /\ n[j] = U!Colon
  BY Zenon, <1>1, <1>2
<1> QED BY <1>1, <1>2, <1>3, <1>4, <1>5 DEF Text

LEMMA OneColon ==
    ASSUME NEW v \in Text, NEW y \in Text, NEW m, \A i \in 1 .. Len(v) : v[i] # m,
           \A i \in 1 .. Len(y) : y[i] = m => i = 1,
           NEW i \in 1 .. Len(v \o y), (v \o y)[i] = m
    PROVE  i = Len(v) + 1
<1>1. v \in Seq(Int) /\ y \in Seq(Int) /\ Len(v) \in Nat /\ Len(y) \in Nat /\ Len(v \o y) = Len(v) + Len(y)
  BY DEF Text
<1>2. CASE i <= Len(v)
  <2>1. i \in 1 .. Len(v) /\ (v \o y)[i] = v[i]
    BY <1>1, <1>2
  <2> QED BY <2>1
<1>3. CASE i > Len(v)
  <2> DEFINE j == i - Len(v)
  <2>1. j \in 1 .. Len(y) /\ (v \o y)[i] = y[j] /\ i = Len(v) + j
    BY <1>1, <1>3
  <2> HIDE DEF j
  <2>2. j = 1
    BY <2>1
  <2> QED BY <1>1, <2>1, <2>2
<1> QED BY <1>1, <1>2, <1>3

\* With what a text ends that has no more than one colon, its first byte.
NoColon(u) == \A i \in 1 .. Len(u) : u[i] # U!Colon
LeadingColon(x) == Behind(x, U!Colon) /\ \A i \in 1 .. Len(x) : x[i] = U!Colon => i = 1
ColonTwice(u) == \E i, j \in 1 .. Len(u) : i # j /\ u[i] = U!Colon /\ u[j] = U!Colon

\* Two colons within a name are two colons of the text that begins with it.
LEMMA TwoColons ==
    ASSUME NEW u \in Text, NEW x \in Text, NEW v \in Text, NEW y \in Text,
           u \o x = v \o y, LeadingColon(y), NoColon(v)
    PROVE  ~ ColonTwice(u)
<1> SUFFICES ASSUME NEW i \in 1 .. Len(u), NEW j \in 1 .. Len(u),
                    i # j, u[i] = U!Colon, u[j] = U!Colon
             PROVE  FALSE
  BY Zenon DEF ColonTwice
<1>1. \A k \in 1 .. Len(u) : k \in 1 .. Len(u \o x) /\ (u \o x)[k] = u[k]
  <2>1. u \in Seq(Int) /\ x \in Seq(Int)
    BY Zenon DEF Text
  <2>2. \A f, g \in Seq(Int) : \A k \in 1 .. Len(f) :
           k \in 1 .. Len(f \o g) /\ (f \o g)[k] = f[k]
    OBVIOUS
  <2> QED BY Zenon, <2>1, <2>2
<1>2. /\ i \in 1 .. Len(v \o y) /\ (v \o y)[i] = U!Colon
      /\ j \in 1 .. Len(v \o y) /\ (v \o y)[j] = U!Colon
  BY <1>1
<1>3. (\A k \in 1 .. Len(v) : v[k] # U!Colon) /\ (\A k \in 1 .. Len(y) : y[k] = U!Colon => k = 1)
  BY Zenon DEF NoColon, LeadingColon
<1>4. i = Len(v) + 1 /\ j = Len(v) + 1
  BY <1>2, <1>3, OneColon
<1> QED BY <1>4

LEMMA AuthorityKeyIs ==
    ASSUME NEW a \in Addresses
    PROVE  /\ AuthorityKey(a.resource) \in Text
           /\ \A i \in 1 .. Len(AuthorityKey(a.resource)) : AuthorityKey(a.resource)[i] # U!Slash
<1> DEFINE r == a.resource
           u == r.name
           x == PortKey(r.port, U!DefaultPort(r.scheme))
<1>1. u \in Text /\ \A i \in 1 .. Len(u) : u[i] # U!Slash
  BY Zenon, NameOf
<1>2. r.port \in Seq(U!Digits) /\ r.port # <<>>
  BY Zenon, NameOf
<1>3. x \in Text /\ \A i \in 1 .. Len(x) : x[i] # U!Slash
  BY <1>2, PortKeyIs
<1>4. AuthorityKey(r) = u \o x
  BY Zenon DEF AuthorityKey, PortKey
<1> HIDE DEF u, x
<1>5. u \o x \in Text /\ \A i \in 1 .. Len(u \o x) : (u \o x)[i] # U!Slash
  <2>1. u \in Seq(Int) /\ x \in Seq(Int)
    BY <1>1, <1>3 DEF Text
  <2>2. u \o x \in Seq(Int)
    BY <2>1
  <2>3. ASSUME NEW i \in 1 .. Len(u \o x) PROVE (u \o x)[i] # U!Slash
    <3>1. CASE i <= Len(u)
      BY <1>1, <2>1, <3>1
    <3>2. CASE i > Len(u)
      <4>1. i - Len(u) \in 1 .. Len(x) /\ (u \o x)[i] = x[i - Len(u)]
        BY <2>1, <3>2
      <4> QED BY <1>3, <4>1
    <3> QED BY <2>1, <3>1, <3>2
  <2> QED BY <2>2, <2>3 DEF Text
<1> QED BY <1>4, <1>5

LEMMA ColonCut ==
    \A u, v, x, y \in Text :
        /\ u \o x = v \o y /\ LeadingColon(x) /\ LeadingColon(y) /\ NoColon(v)
        => (NoColon(u) => u = v /\ x = y) /\ ~ ColonTwice(u)
<1> SUFFICES ASSUME NEW u \in Text, NEW v \in Text, NEW x \in Text, NEW y \in Text,
                    u \o x = v \o y, LeadingColon(x), LeadingColon(y), NoColon(v)
             PROVE  (NoColon(u) => u = v /\ x = y) /\ ~ ColonTwice(u)
  OBVIOUS
<1>1. ASSUME NoColon(u) PROVE u = v /\ x = y
  BY <1>1, FirstCut DEF NoColon, LeadingColon
<1>2. ~ ColonTwice(u)
  BY Zenon, TwoColons
<1> QED BY <1>1, <1>2

LEMMA AuthoritiesApart ==
    ASSUME NEW a \in Addresses, NEW b \in Addresses,
           a.resource.scheme = b.resource.scheme,
           ~ (a.resource.ip6 /\ b.resource.ip6 /\ a.resource.port # b.resource.port),
           AuthorityKey(a.resource) = AuthorityKey(b.resource)
    PROVE  /\ a.resource.name = b.resource.name /\ a.resource.ip6 = b.resource.ip6
           /\ a.resource.port = b.resource.port
<1> DEFINE r == a.resource
           s == b.resource
           d == U!DefaultPort(r.scheme)
           x == PortKey(r.port, d)
           y == PortKey(s.port, d)
<1>1. /\ r.name \in Text /\ r.port \in Seq(U!Digits) /\ r.port # <<>> /\ r.ip6 \in BOOLEAN
      /\ (~ r.ip6 => NoColon(r.name)) /\ (r.ip6 => ColonTwice(r.name))
  BY Zenon, NameOf DEF NoColon, ColonTwice
<1>2. /\ s.name \in Text /\ s.port \in Seq(U!Digits) /\ s.port # <<>> /\ s.ip6 \in BOOLEAN
      /\ (~ s.ip6 => NoColon(s.name)) /\ (s.ip6 => ColonTwice(s.name))
  BY Zenon, NameOf DEF NoColon, ColonTwice
<1>3. r.name \o x = s.name \o y
  BY Zenon DEF AuthorityKey, PortKey
<1>4. x \in Text /\ LeadingColon(x) /\ y \in Text /\ LeadingColon(y)
  BY <1>1, <1>2, PortKeyIs DEF LeadingColon
<1>5. ~ (r.ip6 /\ s.ip6 /\ r.port # s.port)
  OBVIOUS
<1>6. x = y => r.port = s.port
  BY <1>1, <1>2, PortsApart
<1>7. r.port = s.port => x = y
  OBVIOUS
<1> HIDE DEF r, s, x, y
<1>8. CASE ~ r.ip6 /\ ~ s.ip6
  <2>1. r.name = s.name /\ x = y
    BY Zenon, <1>1, <1>2, <1>3, <1>4, <1>8, ColonCut
  <2> QED BY <1>1, <1>2, <1>6, <1>8, <2>1 DEF r, s
<1>9. CASE r.ip6 /\ s.ip6
  <2>1. r.port = s.port /\ x = y
    BY <1>5, <1>7, <1>9
  <2>2. r.name = s.name
    BY <1>1, <1>2, <1>3, <1>4, <2>1, SameEnd
  <2> QED BY <1>1, <1>2, <1>9, <2>1, <2>2 DEF r, s
<1>10. CASE r.ip6 /\ ~ s.ip6
  BY Zenon, <1>1, <1>2, <1>3, <1>4, <1>10, ColonCut
<1>11. CASE ~ r.ip6 /\ s.ip6
  <2>1. s.name \o y = r.name \o x
    BY <1>3
  <2> QED BY Zenon, <1>1, <1>2, <1>4, <1>11, <2>1, ColonCut
<1> QED BY <1>1, <1>2, <1>8, <1>9, <1>10, <1>11

-----------------------------------------------------------------------------
LEMMA QueriesApart ==
    ASSUME NEW r, NEW s, r.query \in Seq(Octal), s.query \in Seq(Octal),
           Canonical(r.query) \in Text, Canonical(s.query) \in Text,
           QueryKey(r) = QueryKey(s)
    PROVE  r.query = s.query
<1> DEFINE p == r.query
           q == s.query
<1>1. \A x \in Text : <<U!Question>> \o x # <<>>
  BY DEF Text, U!Question
<1>2. CASE p = <<>> /\ q = <<>>
  BY <1>2
<1>3. CASE p # <<>> /\ q # <<>>
  <2>1. <<U!Question>> \o Canonical(p) = <<U!Question>> \o Canonical(q)
    BY <1>3 DEF QueryKey
  <2>2. <<U!Question>> \in Seq(Int) /\ Canonical(p) \in Seq(Int) /\ Canonical(q) \in Seq(Int)
    BY DEF Text, U!Question
  <2>3. Canonical(p) = Canonical(q)
    BY <2>1, <2>2, Reading!ConcatCancel
  <2> QED BY <2>3, CanonicalApart
<1>4. CASE p = <<>> /\ q # <<>>
  BY Zenon, <1>1, <1>4 DEF QueryKey
<1>5. CASE p # <<>> /\ q = <<>>
  BY Zenon, <1>1, <1>5 DEF QueryKey
<1> QED BY <1>2, <1>3, <1>4, <1>5

LEMMA QueryKeyBehind ==
    ASSUME NEW r, Canonical(r.query) \in Text
    PROVE  QueryKey(r) \in Text /\ Behind(QueryKey(r), U!Question)
<1>1. \A x \in Text : <<U!Question>> \o x \in Text /\ (<<U!Question>> \o x)[1] = U!Question
  BY DEF Text, U!Question
<1>2. <<>> \in Text
  BY DEF Text
<1> QED BY Zenon, <1>1, <1>2 DEF QueryKey, Behind

\* The segments in the key of an address.
LEMMA MeantSegments ==
    ASSUME NEW a \in Addresses
    PROVE  LET L == a.resource.segments
               M == Lead(a) \o L
           IN  /\ L \in Seq(Seq(0 .. 255)) /\ L # <<>> /\ L[1] \notin U!Dots
               /\ Lead(a) \in {<<>>, << <<U!Dot>> >>}
               /\ M \in Seq(Seq(0 .. 255)) /\ M # <<>>
<1> DEFINE L == a.resource.segments
<1>1. L \in Seq(Seq(0 .. 255) \ U!Dots) /\ L # <<>>
  BY Zenon, AddressesAssumption
<1> HIDE DEF L
<1>2. L \in Seq(Seq(0 .. 255)) /\ L # <<>> /\ L[1] \notin U!Dots
  <2>1. \A W : \A s \in Seq(W \ U!Dots) : s # <<>> => s \in Seq(W) /\ s[1] \notin U!Dots
    OBVIOUS
  <2> QED BY Zenon, <1>1, <2>1
<1>3. Lead(a) \in {<<>>, << <<U!Dot>> >>}
  BY Zenon DEF Lead
<1>4. << <<U!Dot>> >> \in Seq(Seq(0 .. 255)) /\ <<>> \in Seq(Seq(0 .. 255))
  BY DEF U!Dot
<1>5. \A W : \A s, t \in Seq(W) : t # <<>> => s \o t \in Seq(W) /\ s \o t # <<>>
  OBVIOUS
<1>6. Lead(a) \in Seq(Seq(0 .. 255))
  BY Zenon, <1>3, <1>4
<1>7. Lead(a) \o L \in Seq(Seq(0 .. 255)) /\ Lead(a) \o L # <<>>
  BY Zenon, <1>2, <1>5, <1>6
<1> QED BY <1>2, <1>3, <1>7 DEF L

\* No segment of a resource is the dot segment that may come before them.
LEMMA LeadsApart ==
    \A L, M \in Seq(Seq(0 .. 255)) : \A x, y \in {<<>>, << <<U!Dot>> >>} :
        /\ L # <<>> /\ M # <<>> /\ L[1] \notin U!Dots /\ M[1] \notin U!Dots /\ x \o L = y \o M
        => L = M
<1> DEFINE W == Seq(0 .. 255)
           d == <<U!Dot>>
<1>0. d \in W /\ d \in U!Dots
  BY DEF U!Dot, U!Dots
<1> SUFFICES ASSUME NEW L \in Seq(W), NEW M \in Seq(W),
                    NEW x \in {<<>>, <<d>>}, NEW y \in {<<>>, <<d>>}
             PROVE  /\ L # <<>> /\ M # <<>> /\ L[1] \notin U!Dots /\ M[1] \notin U!Dots
                    /\ x \o L = y \o M
                    => L = M
  BY Zenon
<1> SUFFICES ASSUME L # <<>>, M # <<>>, L[1] \notin U!Dots, M[1] \notin U!Dots, x \o L = y \o M
             PROVE  L = M
  BY Zenon
<1> HIDE DEF W, d
<1>1. \A s \in Seq(W) : <<>> \o s = s /\ (<<d>> \o s)[1] = d
  BY <1>0
<1>2. CASE x = <<>> /\ y = <<>>
  BY <1>1, <1>2
<1>3. CASE x = <<d>> /\ y = <<d>>
  <2>1. <<d>> \in Seq(W)
    BY <1>0
  <2> QED BY <1>3, <2>1, Reading!ConcatCancel
<1>4. CASE x = <<>> /\ y = <<d>>
  BY <1>0, <1>1, <1>4
<1>5. CASE x = <<d>> /\ y = <<>>
  BY <1>0, <1>1, <1>5
<1> QED BY <1>2, <1>3, <1>4, <1>5

\* A key can be cut at the first slash, and then at the first question mark.
NoSlash(u) == \A i \in 1 .. Len(u) : u[i] # U!Slash

\* The parts of a key, in the way that lets them be found in it.
KeyParts(u, L, x) ==
    /\ u \in Text /\ NoSlash(u) /\ L \in Seq(Seq(0 .. 255)) /\ L # <<>>
    /\ x \in Text /\ Behind(x, U!Question)

LEMMA KeyCut ==
    ASSUME NEW u, NEW v, NEW L, NEW M, NEW x, NEW y, KeyParts(u, L, x), KeyParts(v, M, y),
           u \o PathKey(L) \o x = v \o PathKey(M) \o y
    PROVE  u = v /\ L = M /\ x = y
<1>0. /\ u \in Text /\ NoSlash(u) /\ L \in Seq(Seq(0 .. 255)) /\ L # <<>>
      /\ v \in Text /\ NoSlash(v) /\ M \in Seq(Seq(0 .. 255)) /\ M # <<>>
      /\ x \in Text /\ Behind(x, U!Question) /\ y \in Text /\ Behind(y, U!Question)
  BY DEF KeyParts
<1> DEFINE p == PathKey(L)
           q == PathKey(M)
<1>1. ASSUME NEW K \in Seq(Seq(0 .. 255)), K # <<>>
      PROVE  /\ PathKey(K) \in Text /\ Len(PathKey(K)) > 0 /\ PathKey(K)[1] = U!Slash
             /\ \A i \in 1 .. Len(PathKey(K)) : PathKey(K)[i] # U!Question
  <2> DEFINE c == PathWords(K)
  <2>1. c \in Seq(PathParts) /\ Len(c) = Len(K) /\ Len(K) \in Nat
    BY PathWordsIn
  <2> HIDE DEF c
  <2>2. c # <<>>
    BY <1>1, <2>1
  <2>3. FlattenSeq(c) \in Text /\ Behind(FlattenSeq(c), U!Slash) /\ Len(FlattenSeq(c)) > 0
    BY <2>1, <2>2, WordsBehind
  <2>4. FlattenSeq(c)[1] = U!Slash
    BY <2>3 DEF Behind
  <2>5. \A i \in 1 .. Len(FlattenSeq(c)) : FlattenSeq(c)[i] # U!Question
    <3>1. c \in Seq(Seq(Int \ {U!Question}))
      BY <2>1, WordsText
    <3>2. Reading!Flat(c) \in Seq(Int \ {U!Question})
      BY Zenon, <3>1, Reading!FlattenType
    <3>3. FlattenSeq(c) \in Seq(Int \ {U!Question})
      BY Zenon, <3>2, FlattenIs
    <3> QED BY <3>3, LettersOf
  <2> QED BY <2>3, <2>4, <2>5 DEF PathKey, c
<1>2. /\ p \in Text /\ Len(p) > 0 /\ p[1] = U!Slash /\ \A i \in 1 .. Len(p) : p[i] # U!Question
      /\ q \in Text /\ Len(q) > 0 /\ q[1] = U!Slash /\ \A i \in 1 .. Len(q) : q[i] # U!Question
  BY <1>0, <1>1
<1> HIDE DEF p, q
<1>3. u \o (p \o x) = v \o (q \o y)
  <2>1. u \in Text /\ p \in Text /\ x \in Text /\ v \in Text /\ q \in Text /\ y \in Text
    BY Zenon, <1>0, <1>2
  <2>2. Assoc(u, p, x) /\ Assoc(v, q, y)
    BY Zenon, <2>1, TextAssoc
  <2>3. (u \o p) \o x = (v \o q) \o y
    BY DEF p, q
  <2>4. u \o (p \o x) = (u \o p) \o x /\ v \o (q \o y) = (v \o q) \o y
    BY Zenon, <2>2 DEF Assoc
  <2> QED BY Zenon, <2>3, <2>4
<1>4. \A s, t \in Text : Len(s) > 0 /\ s[1] = U!Slash => s \o t \in Text /\ Behind(s \o t, U!Slash)
  BY DEF Text, Behind
<1>5. p \o x \in Text /\ Behind(p \o x, U!Slash) /\ q \o y \in Text /\ Behind(q \o y, U!Slash)
  BY <1>0, <1>2, <1>4
<1>6. u = v /\ p \o x = q \o y
  <2> DEFINE e == p \o x
             f == q \o y
  <2>1. e \in Text /\ Behind(e, U!Slash) /\ f \in Text /\ Behind(f, U!Slash) /\ u \o e = v \o f
    BY <1>3, <1>5
  <2> HIDE DEF e, f
  <2>2. u = v /\ e = f
    BY <1>0, <2>1, FirstCut DEF NoSlash
  <2> QED BY <2>2 DEF e, f
<1>7. p = q /\ x = y
  BY <1>0, <1>2, <1>6, FirstCut
<1>8. L = M
  BY <1>0, <1>7, PathsApart DEF p, q
<1> QED BY <1>6, <1>7, <1>8

(***************************************************************************)
(* Two resources never share a key, however their URLs are written, except *)
(* where Confused says that urlkey.Normalize does not tell them apart.     *)
(***************************************************************************)
THEOREM KeysApart == Spec => []ResourcesApart
<1>1. ASSUME NEW a \in Addresses, NEW b \in Addresses,
             ~ Confused(a.resource, b.resource), Key[a] = Key[b]
      PROVE  a.resource = b.resource
  <2> DEFINE r == a.resource
             s == b.resource
             L == Lead(a) \o r.segments
             M == Lead(b) \o s.segments
             u == AuthorityKey(r)
             v == AuthorityKey(s)
             x == QueryKey(r)
             y == QueryKey(s)
  <2>1. /\ ~ (r.ip6 /\ s.ip6 /\ r.port # s.port)
        /\ ~ (r.query = <<>> /\ s.query = <<>> /\ r.hasQuery # s.hasQuery)
        /\ ~ NonAscii(r.query) /\ ~ NonAscii(s.query)
    BY Zenon, <1>1 DEF Confused
  <2>2. Key[a] = <<r.scheme, u \o PathKey(L) \o x>> /\ Key[b] = <<s.scheme, v \o PathKey(M) \o y>>
    BY Zenon, <2>1, KeyIs
  <2>3. r.scheme = s.scheme /\ u \o PathKey(L) \o x = v \o PathKey(M) \o y
    <3>1. <<r.scheme, u \o PathKey(L) \o x>> = <<s.scheme, v \o PathKey(M) \o y>>
      BY Zenon, <1>1, <2>2
    <3> QED BY Zenon, <3>1, SamePair
  <2>4. u \in Text /\ NoSlash(u) /\ v \in Text /\ NoSlash(v)
    BY Zenon, AuthorityKeyIs DEF NoSlash
  <2>5. /\ r.query \in Seq(Octal) /\ Canonical(r.query) \in Text
        /\ s.query \in Seq(Octal) /\ Canonical(s.query) \in Text
    BY Zenon, <2>1, QueryReadBack
  <2>6. x \in Text /\ Behind(x, U!Question) /\ y \in Text /\ Behind(y, U!Question)
    BY Zenon, <2>5, QueryKeyBehind
  <2>7. /\ r.segments \in Seq(Seq(0 .. 255)) /\ r.segments # <<>> /\ r.segments[1] \notin U!Dots
        /\ Lead(a) \in {<<>>, << <<U!Dot>> >>} /\ L \in Seq(Seq(0 .. 255)) /\ L # <<>>
    BY Zenon, MeantSegments
  <2>8. /\ s.segments \in Seq(Seq(0 .. 255)) /\ s.segments # <<>> /\ s.segments[1] \notin U!Dots
        /\ Lead(b) \in {<<>>, << <<U!Dot>> >>} /\ M \in Seq(Seq(0 .. 255)) /\ M # <<>>
    BY Zenon, MeantSegments
  <2>9. u = v /\ L = M /\ x = y
    <3> HIDE DEF r, s, L, M, u, v, x, y
    <3>1. u \o PathKey(L) \o x = v \o PathKey(M) \o y
      BY <2>3
    <3>2. KeyParts(u, L, x) /\ KeyParts(v, M, y)
      BY Zenon, <2>4, <2>6, <2>7, <2>8 DEF KeyParts
    <3> QED BY Zenon, <3>1, <3>2, KeyCut
  <2>10. r.segments = s.segments
    <3>1. Lead(a) \o r.segments = Lead(b) \o s.segments
      BY <2>9
    <3> QED BY Zenon, <2>7, <2>8, <3>1, LeadsApart
  <2>11. r.name = s.name /\ r.ip6 = s.ip6 /\ r.port = s.port
    BY Zenon, <2>1, <2>3, <2>9, AuthoritiesApart
  <2>12. r.query = s.query
    BY Zenon, <2>5, <2>9, QueriesApart
  <2>13. r.hasQuery = s.hasQuery
    <3>1. /\ r.hasQuery \in BOOLEAN /\ (r.query # <<>> => r.hasQuery)
          /\ s.hasQuery \in BOOLEAN /\ (s.query # <<>> => s.hasQuery)
      BY Zenon, AddressesAssumption
    <3> QED BY Zenon, <2>1, <2>12, <3>1
  <2>14. /\ r = [scheme |-> r.scheme, name |-> r.name, ip6 |-> r.ip6, port |-> r.port,
                 segments |-> r.segments, hasQuery |-> r.hasQuery, query |-> r.query]
         /\ s = [scheme |-> s.scheme, name |-> s.name, ip6 |-> s.ip6, port |-> s.port,
                 segments |-> s.segments, hasQuery |-> s.hasQuery, query |-> s.query]
    BY Zenon, AddressesAssumption
  <2> QED BY Zenon, <2>3, <2>10, <2>11, <2>12, <2>13, <2>14
<1>2. Written => ResourcesApart
  <2> SUFFICES ASSUME Written, Is("url", 2),
                      ~ Confused(input.items[1].resource, input.items[2].resource),
                      Key[input.items[1]] = Key[input.items[2]]
               PROVE  input.items[1].resource = input.items[2].resource
    BY Zenon DEF ResourcesApart
  <2>1. input.items[1] \in Addresses /\ input.items[2] \in Addresses
    BY TwoAddresses
  <2> QED BY <1>1, <2>1
<1> QED BY <1>2, AlwaysWritten, PTL

-----------------------------------------------------------------------------
\* The recursion of StoredHeader, for any function that satisfies its equations.
LEMMA StoredBy ==
    ASSUME NEW n \in Nat \ {0}, Len(input.items) = n,
           NEW g, g[1] = StoreFull(HeaderOf(1)),
           \A i \in 2 .. n : g[i] = StoreMerged(g[i - 1], HeaderOf(i))
    PROVE  StoredHeader = g[n]
<1> DEFINE Solves(e) == e = [i \in 1 .. n |-> IF i = 1 THEN StoreFull(HeaderOf(1))
                                                 ELSE StoreMerged(e[i - 1], HeaderOf(i))]
           h == [i \in 1 .. n |-> g[i]]
           f == CHOOSE e : Solves(e)
           T == { i \in 1 .. n : f[i] = g[i] }
<1>1. Solves(h)
  <2>1. ASSUME NEW i \in 1 .. n
        PROVE  h[i] = IF i = 1 THEN StoreFull(HeaderOf(1)) ELSE StoreMerged(h[i - 1], HeaderOf(i))
    <3>1. CASE i = 1
      BY <3>1
    <3>2. CASE i # 1
      <4>1. i \in 2 .. n /\ i - 1 \in 1 .. n
        BY <3>2
      <4>2. h[i] = g[i] /\ h[i - 1] = g[i - 1]
        BY <4>1
      <4> QED BY <3>2, <4>1, <4>2
    <3> QED BY <3>1, <3>2
  <2>2. h = [i \in 1 .. n |-> h[i]]
    OBVIOUS
  <2> HIDE DEF h
  <2> QED BY <2>1, <2>2
<1>2. Solves(f)
  <2>1. \E e : Solves(e)
    BY <1>1
  <2> QED BY <2>1
<1>6. StoredHeader = f[n]
  BY DEF StoredHeader
<1> HIDE DEF f, h
<1>3. 1 \in T
  <2>1. f[1] = g[1]
    BY <1>2
  <2> QED BY <2>1
<1>4. \A i \in 1 .. n - 1 : i \in T => i + 1 \in T
  <2> SUFFICES ASSUME NEW i \in 1 .. n - 1, i \in T PROVE i + 1 \in T
    OBVIOUS
  <2>1. i + 1 \in 2 .. n /\ (i + 1) - 1 = i /\ i + 1 \in 1 .. n /\ i + 1 # 1
    OBVIOUS
  <2>2. f[i + 1] = StoreMerged(f[i], HeaderOf(i + 1))
    BY <1>2, <2>1
  <2>3. g[i + 1] = StoreMerged(g[i], HeaderOf(i + 1))
    BY <2>1
  <2> QED BY <2>1, <2>2, <2>3
<1>5. n \in T
  <2> HIDE DEF T
  <2>1. 1 \in Int /\ n \in Int /\ n \in 1 .. n
    OBVIOUS
  <2> QED BY Zenon, <1>3, <1>4, <2>1, Reading!UpTo
<1> QED BY <1>5, <1>6

Sent(i) == { f \in input.items[i].fields : IsEndToEnd(f, i) }

\* What is stored of a full answer, and what is stored after a 304.
LEMMA FullStored == StoreFull(HeaderOf(1)) = [f \in Sent(1) |-> 1]
<1> DEFINE hdr == HeaderOf(1)
           m == input.items[1]
<1>1. DOMAIN hdr = m.fields /\ ("Connection" \in m.fields => hdr["Connection"] = m.listed)
  BY DEF HeaderOf
<1>2. \A f \in m.fields : f # "Connection" => hdr[f] = 1
  BY DEF HeaderOf
<1> HIDE DEF hdr
<1>3. DOMAIN hdr \ HopByHopHeaders(hdr) = Sent(1)
  BY <1>1 DEF HopByHopHeaders, Sent, IsEndToEnd, FixedHopByHop
<1>4. \A f \in Sent(1) : hdr[f] = 1
  BY <1>2 DEF Sent, IsEndToEnd, FixedHopByHop
<1> QED BY <1>3, <1>4 DEF StoreFull, RemoveHopByHopHeaders, hdr

LEMMA MergedStored ==
    ASSUME NEW i \in Nat, i > 1, NEW stored, DOMAIN stored \cap FixedHopByHop = {}
    PROVE  StoreMerged(stored, HeaderOf(i))
           = [f \in Sent(i) \cup DOMAIN stored |-> IF f \in Sent(i) THEN i ELSE stored[f]]
<1> DEFINE hdr == HeaderOf(i)
           m == input.items[i]
           merged == MergeHeaders(stored, hdr)
<1>1. DOMAIN hdr = m.fields /\ ("Connection" \in m.fields => hdr["Connection"] = m.listed)
  BY DEF HeaderOf
<1>2. \A f \in m.fields : f # "Connection" => hdr[f] = i
  BY DEF HeaderOf
<1> HIDE DEF hdr
<1>3. MergedFields(stored, hdr) = Sent(i)
  BY <1>1 DEF MergedFields, HopByHopHeaders, Sent, IsEndToEnd, FixedHopByHop
<1>4. \A f \in Sent(i) : hdr[f] = i
  BY <1>2 DEF Sent, IsEndToEnd, FixedHopByHop
<1>5. merged = [f \in Sent(i) \cup DOMAIN stored |-> IF f \in Sent(i) THEN i ELSE stored[f]]
  BY <1>3, <1>4 DEF MergeHeaders
<1>6. DOMAIN merged = Sent(i) \cup DOMAIN stored
  BY <1>5
<1>7. DOMAIN merged \ HopByHopHeaders(merged) = DOMAIN merged
  BY <1>6 DEF HopByHopHeaders, Sent, IsEndToEnd, FixedHopByHop
<1>8. RemoveHopByHopHeaders(merged) = merged
  <2>1. merged = [f \in DOMAIN merged |-> merged[f]]
    BY <1>5
  <2> HIDE DEF merged
  <2> QED BY <1>7, <2>1 DEF RemoveHopByHopHeaders
<1> QED BY <1>5, <1>8 DEF StoreMerged, hdr

\* What is stored after i messages.
StoredAfter(i) ==
    [f \in UNION { Sent(j) : j \in 1 .. i } |-> Max({ j \in 1 .. i : IsEndToEnd(f, j) })]

LEMMA StoredAfterFull == StoredAfter(1) = StoreFull(HeaderOf(1))
<1>1. UNION { Sent(j) : j \in 1 .. 1 } = Sent(1)
  OBVIOUS
<1>2. \A f \in Sent(1) : { j \in 1 .. 1 : IsEndToEnd(f, j) } = {1}
  BY DEF Sent
<1>3. Max({1}) = 1
  BY DEF Max
<1>4. \A f \in Sent(1) : Max({ j \in 1 .. 1 : IsEndToEnd(f, j) }) = 1
  BY <1>2, <1>3
<1> QED BY <1>1, <1>4, FullStored DEF StoredAfter

LEMMA StoredAfterMerge ==
    ASSUME NEW i \in Nat, i > 1
    PROVE  StoredAfter(i) = StoreMerged(StoredAfter(i - 1), HeaderOf(i))
<1> DEFINE before == UNION { Sent(j) : j \in 1 .. i - 1 }
           up(f, k) == { j \in 1 .. k : IsEndToEnd(f, j) }
           old == StoredAfter(i - 1)
<1>1. DOMAIN old = before /\ before \cap FixedHopByHop = {}
  BY DEF StoredAfter, Sent, IsEndToEnd
<1>2. StoreMerged(old, HeaderOf(i))
      = [f \in Sent(i) \cup before |-> IF f \in Sent(i) THEN i ELSE old[f]]
  <2> HIDE DEF old, before
  <2> QED BY <1>1, MergedStored
<1>3. UNION { Sent(j) : j \in 1 .. i } = Sent(i) \cup before
  <2>1. 1 .. i = (1 .. i - 1) \cup {i}
    OBVIOUS
  <2> QED BY <2>1
<1>4. ASSUME NEW f \in Sent(i) PROVE Max(up(f, i)) = i
  <2>1. i \in up(f, i) /\ \A j \in up(f, i) : j \in Nat /\ i >= j
    BY DEF Sent
  <2> HIDE DEF up
  <2>2. \A x \in up(f, i) : (\A y \in up(f, i) : x >= y) <=> x = i
    BY <2>1
  <2> QED BY <2>1, <2>2 DEF Max
<1>5. ASSUME NEW f \in before, f \notin Sent(i) PROVE Max(up(f, i)) = old[f]
  <2>1. ~ IsEndToEnd(f, i)
    BY <1>5 DEF Sent, IsEndToEnd
  <2>2. up(f, i) = up(f, i - 1)
    BY <2>1
  <2> QED BY <2>2 DEF StoredAfter
<1> DEFINE new == [f \in Sent(i) \cup before |-> Max(up(f, i))]
<1>6. StoredAfter(i) = new
  BY <1>3 DEF StoredAfter
<1> HIDE DEF old, before, up
<1>7. \A f \in Sent(i) \cup before : new[f] = IF f \in Sent(i) THEN i ELSE old[f]
  BY <1>4, <1>5
<1>8. new = [f \in Sent(i) \cup before |-> IF f \in Sent(i) THEN i ELSE old[f]]
  BY <1>7
<1> QED BY <1>2, <1>6, <1>8 DEF old

(***************************************************************************)
(* For every number of 304s, every set of fields and whatever Connection   *)
(* lists, the stored header is what was sent end to end, each field from   *)
(* the last answer that sent it.                                           *)
(***************************************************************************)
THEOREM HeaderStored == Spec => []StoredEndToEnd
<1>1. Written => StoredEndToEnd
  <2> SUFFICES ASSUME Written, input.kind = "headers", input.items # <<>> PROVE StoredEndToEnd
    BY DEF StoredEndToEnd
  <2> DEFINE n == Len(input.items)
             g == [i \in 1 .. n |-> StoredAfter(i)]
  <2>1. input.items \in Seq(Messages)
    BY DEF Written, Items
  <2>2. n \in Nat \ {0} /\ n \in 1 .. n /\ DOMAIN input.items = 1 .. n
    BY <2>1
  <2>3. \A j \in 1 .. n : input.items[j] \in Messages
    BY <2>1
  <2> HIDE DEF n
  <2>4. g[1] = StoreFull(HeaderOf(1))
    BY <2>2, StoredAfterFull
  <2>5. \A i \in 2 .. n : g[i] = StoreMerged(g[i - 1], HeaderOf(i))
    BY <2>2, StoredAfterMerge
  <2>6. StoredHeader = g[n]
    <3> HIDE DEF g
    <3> QED BY <2>2, <2>4, <2>5, StoredBy DEF n
  <2>7. StoredHeader = StoredAfter(n)
    BY <2>2, <2>6
  <2> DEFINE from(f) == { i \in DOMAIN input.items : IsEndToEnd(f, i) }
             all == UNION { m.fields : m \in Messages }
  <2>8. DOMAIN StoredHeader = UNION { Sent(j) : j \in 1 .. n }
    BY <2>7 DEF StoredAfter
  <2>9. UNION { Sent(j) : j \in 1 .. n } = { f \in all : from(f) # {} }
    BY <2>2, <2>3 DEF Sent, IsEndToEnd
  <2>10. \A f \in DOMAIN StoredHeader : StoredHeader[f] = Max(from(f))
    BY <2>2, <2>7, <2>8 DEF StoredAfter
  <2> QED BY <2>8, <2>9, <2>10 DEF StoredEndToEnd
<1> QED BY <1>1, AlwaysWritten, PTL
-----------------------------------------------------------------------------
(***************************************************************************)
(* How often elements of W occur among the first n of s, and in s.         *)
(***************************************************************************)
Places(s, n, W) == { k \in 1 .. n : s[k] \in W }
Count(s, n, W) == Cardinality(Places(s, n, W))

Alike(s, t) == \A W : Count(s, Len(s), W) = Count(t, Len(t), W)

Bit(b) == IF b THEN 1 ELSE 0

LEMMA FirstNumbers == \A n \in Nat : IsFiniteSet(1 .. n) /\ Cardinality(1 .. n) = n
<1> SUFFICES ASSUME NEW n \in Nat PROVE IsFiniteSet(1 .. n) /\ Cardinality(1 .. n) = n
  OBVIOUS
<1>1. 1 \in Int /\ n \in Int
  OBVIOUS
<1>2. IsFiniteSet(1 .. n) /\ Cardinality(1 .. n) = IF 1 > n THEN 0 ELSE n - 1 + 1
  BY <1>1, FS_Interval
<1> QED BY <1>2

LEMMA PlacesAreFinite ==
    ASSUME NEW s, NEW n \in Nat, NEW W
    PROVE  IsFiniteSet(Places(s, n, W)) /\ Count(s, n, W) \in 0 .. n
<1>1. IsFiniteSet(1 .. n) /\ Cardinality(1 .. n) = n
  BY FirstNumbers
<1>2. Places(s, n, W) \in SUBSET (1 .. n)
  BY DEF Places
<1>3. IsFiniteSet(Places(s, n, W)) /\ Cardinality(Places(s, n, W)) <= n
  BY <1>1, <1>2, FS_Subset
<1>4. Cardinality(Places(s, n, W)) \in Nat
  BY <1>3, FS_CardinalityType
<1> QED BY <1>3, <1>4 DEF Count

LEMMA SameSize ==
    ASSUME NEW A, NEW B, IsFiniteSet(A), NEW f \in [A -> B],
           \A i, j \in A : f[i] = f[j] => i = j, \A b \in B : \E i \in A : f[i] = b
    PROVE  Cardinality(B) = Cardinality(A) /\ IsFiniteSet(B)
<1>1. f \in Bijection(A, B)
  BY DEF Bijection, Injection, Surjection, IsInjective
<1>2. ExistsBijection(A, B)
  BY <1>1 DEF ExistsBijection
<1> QED BY <1>2, FS_Bijection

LEMMA CountNext ==
    ASSUME NEW s, NEW n \in Nat, NEW W
    PROVE  Count(s, n + 1, W) = Count(s, n, W) + Bit(s[n + 1] \in W)
<1> DEFINE P == Places(s, n, W)
<1>1. IsFiniteSet(P) /\ n + 1 \notin P
  <2>1. n + 1 \notin P
    BY DEF Places
  <2> QED BY <2>1, PlacesAreFinite
<1>2. CASE s[n + 1] \in W
  <2>1. Places(s, n + 1, W) = P \cup {n + 1}
    BY <1>2 DEF Places
  <2>2. Cardinality(P \cup {n + 1}) = Cardinality(P) + 1
    BY <1>1, FS_AddElement
  <2> QED BY <1>2, <2>1, <2>2 DEF Count, Bit
<1>3. CASE s[n + 1] \notin W
  <2>1. Places(s, n + 1, W) = P
    BY <1>3 DEF Places
  <2>2. Count(s, n, W) \in Nat
    BY PlacesAreFinite
  <2> QED BY <1>3, <2>1, <2>2 DEF Count, Bit
<1> QED BY <1>2, <1>3

LEMMA CountNone == \A s, W : Count(s, 0, W) = 0
<1>1. \A s, W : Places(s, 0, W) = {}
  BY DEF Places
<1> QED BY <1>1, FS_EmptySet DEF Count

\* u is t with x at place p.
Inserted(u, t, p, x) ==
    /\ Len(u) = Len(t) + 1 /\ p \in 1 .. Len(t) + 1 /\ u[p] = x
    /\ \A k \in 1 .. p - 1 : u[k] = t[k]
    /\ \A k \in p .. Len(t) : u[k + 1] = t[k]

LEMMA CountInserted ==
    ASSUME NEW u, NEW t, Len(t) \in Nat, NEW p, NEW x, Inserted(u, t, p, x), NEW W
    PROVE  Count(u, Len(u), W) = Count(t, Len(t), W) + Bit(x \in W)
<1> DEFINE n == Len(t)
           A == Places(t, n, W)
           B == Places(u, n + 1, W) \ {p}
           f == [k \in A |-> IF k < p THEN k ELSE k + 1]
<1>0. n \in Nat /\ Len(u) = n + 1 /\ p \in 1 .. n + 1
  BY DEF Inserted
<1>1. IsFiniteSet(A) /\ IsFiniteSet(Places(u, n + 1, W))
  BY <1>0, PlacesAreFinite
<1>2. ASSUME NEW k \in A PROVE f[k] \in B
  BY <1>0 DEF Places, Inserted
<1>3. \A i, j \in A : f[i] = f[j] => i = j
  BY <1>0 DEF Places
<1>4. ASSUME NEW b \in B PROVE \E i \in A : f[i] = b
  <2>1. CASE b < p
    <3>1. b \in A /\ f[b] = b
      BY <1>0, <2>1 DEF Places, Inserted
    <3> QED BY <3>1
  <2>2. CASE b > p
    <3>1. b - 1 \in p .. n /\ (b - 1) + 1 = b /\ b - 1 \in 1 .. n /\ u[b] \in W
      BY <1>0, <2>2 DEF Places
    <3>2. t[b - 1] = u[b]
      BY <3>1 DEF Inserted
    <3>3. b - 1 \in A
      BY <3>1, <3>2 DEF Places
    <3>4. f[b - 1] = b
      BY <1>0, <3>1, <3>3
    <3> QED BY <3>3, <3>4
  <2>3. b < p \/ b > p
    BY <1>0 DEF Places
  <2> QED BY <2>1, <2>2, <2>3
<1>5. f \in [A -> B]
  BY <1>2
<1>6. Cardinality(B) = Cardinality(A) /\ IsFiniteSet(B)
  <2> HIDE DEF f, A, B
  <2> QED BY <1>1, <1>3, <1>4, <1>5, SameSize
<1>7. CASE x \in W
  <2>1. Places(u, n + 1, W) = B \cup {p} /\ p \notin B
    BY <1>0, <1>7 DEF Places, Inserted
  <2>2. Cardinality(B \cup {p}) = Cardinality(B) + 1
    <3> HIDE DEF B
    <3> QED BY <1>6, <2>1, FS_AddElement
  <2>3. Cardinality(B) = Count(t, n, W)
    BY <1>6 DEF Count
  <2> HIDE DEF B
  <2> QED BY <1>0, <1>7, <2>1, <2>2, <2>3 DEF Count, Bit
<1>8. CASE x \notin W
  <2>1. Places(u, n + 1, W) = B
    BY <1>0, <1>8 DEF Places, Inserted
  <2>2. Count(t, n, W) \in Nat
    BY <1>0, PlacesAreFinite
  <2>3. Cardinality(B) = Count(t, n, W)
    BY <1>6 DEF Count
  <2> HIDE DEF B
  <2> QED BY <1>0, <1>8, <2>1, <2>2, <2>3 DEF Count, Bit
<1> QED BY <1>7, <1>8

LEMMA InsertAtIs ==
    ASSUME NEW V, NEW t \in Seq(V), NEW x \in V, NEW p \in 1 .. Len(t) + 1
    PROVE  InsertAt(t, p, x) \in Seq(V) /\ Inserted(InsertAt(t, p, x), t, p, x)
<1> DEFINE a == SubSeq(t, 1, p - 1)
           b == SubSeq(t, p, Len(t))
<1>1. a \in Seq(V) /\ Len(a) = p - 1 /\ \A k \in 1 .. p - 1 : a[k] = t[k]
  OBVIOUS
<1>2. b \in Seq(V) /\ Len(b) = Len(t) - p + 1
      /\ \A k \in 1 .. Len(t) - p + 1 : b[k] = t[(p + k) - 1]
  OBVIOUS
<1> HIDE DEF a, b
<1>3. InsertAt(t, p, x) = a \o <<x>> \o b
  BY DEF InsertAt, a, b
<1> DEFINE c == a \o <<x>>
           u == c \o b
<1>4. c \in Seq(V) /\ Len(c) = p /\ c[p] = x /\ \A k \in 1 .. p - 1 : c[k] = a[k]
  BY <1>1
<1> HIDE DEF c
<1>5. /\ u \in Seq(V) /\ Len(u) = Len(t) + 1
      /\ \A k \in 1 .. p : u[k] = c[k]
      /\ \A k \in p + 1 .. Len(t) + 1 : u[k] = b[k - p]
  BY <1>2, <1>4
<1> HIDE DEF u
<1>6. ASSUME NEW k \in p .. Len(t) PROVE u[k + 1] = t[k]
  <2>1. k + 1 \in p + 1 .. Len(t) + 1 /\ (k + 1) - p \in 1 .. Len(t) - p + 1
        /\ (p + ((k + 1) - p)) - 1 = k
    OBVIOUS
  <2> QED BY <1>2, <1>5, <2>1
<1>7. u[p] = x
  BY <1>4, <1>5
<1>8. \A k \in 1 .. p - 1 : u[k] = t[k]
  BY <1>1, <1>4, <1>5
<1>9. Inserted(u, t, p, x)
  BY <1>5, <1>6, <1>7, <1>8 DEF Inserted
<1> QED BY <1>3, <1>5, <1>9 DEF u, c

\* t is s in another order, given by p.
IsShuffle(t, s, n, p) ==
    /\ n \in Nat /\ Len(s) = n /\ Len(t) = n
    /\ p \in [1 .. n -> 1 .. n] /\ \A i, j \in 1 .. n : p[i] = p[j] => i = j
    /\ \A i \in 1 .. n : t[i] = s[p[i]]

LEMMA CountShuffled == \A t, s, n, p : IsShuffle(t, s, n, p) => Alike(t, s)
<1> SUFFICES ASSUME NEW t, NEW s, NEW n, NEW p, IsShuffle(t, s, n, p) PROVE Alike(t, s)
  OBVIOUS
<1>0. /\ n \in Nat /\ Len(s) = n /\ Len(t) = n
      /\ p \in [1 .. n -> 1 .. n] /\ \A i, j \in 1 .. n : p[i] = p[j] => i = j
      /\ \A i \in 1 .. n : t[i] = s[p[i]]
  BY DEF IsShuffle
<1>1. IsFiniteSet(1 .. n)
  BY <1>0, FirstNumbers
<1>2. p \in Injection(1 .. n, 1 .. n)
  BY <1>0 DEF Injection, IsInjective
<1>3. p \in Surjection(1 .. n, 1 .. n)
  BY <1>1, <1>2, FS_Injection
<1>4. \A b \in 1 .. n : \E i \in 1 .. n : p[i] = b
  BY <1>3 DEF Surjection
<1> SUFFICES ASSUME NEW W PROVE Count(t, n, W) = Count(s, n, W)
  BY <1>0 DEF Alike
<1> DEFINE A == Places(t, n, W)
           B == Places(s, n, W)
           f == [i \in A |-> p[i]]
<1>5. f \in [A -> B]
  BY <1>0 DEF Places
<1>6. \A i, j \in A : f[i] = f[j] => i = j
  BY <1>0 DEF Places
<1>7. ASSUME NEW b \in B PROVE \E i \in A : f[i] = b
  <2>1. PICK i \in 1 .. n : p[i] = b
    BY <1>0, <1>4 DEF Places
  <2>2. i \in A
    BY <1>0, <2>1 DEF Places
  <2> QED BY <2>1, <2>2
<1>8. IsFiniteSet(A)
  BY <1>0, PlacesAreFinite
<1> HIDE DEF f, A, B
<1>9. Cardinality(B) = Cardinality(A)
  BY <1>5, <1>6, <1>7, <1>8, SameSize
<1> QED BY <1>9 DEF Count, A, B

-----------------------------------------------------------------------------
(***************************************************************************)
(* An order R of V: elements that neither precedes the other are equal.    *)
(***************************************************************************)
IsOrder(R, V) ==
    /\ \A a, b \in V : <<a, b>> \in R => <<b, a>> \notin R
    /\ \A a, b, c \in V : <<a, b>> \in R => <<a, c>> \in R \/ <<c, b>> \in R
    /\ \A a, b \in V : <<a, b>> \notin R /\ <<b, a>> \notin R => a = b

Sorted(R, t) == \A i, j \in 1 .. Len(t) : i < j => <<t[j], t[i]>> \notin R

LEMMA SortedNotLess ==
    ASSUME NEW V, NEW R, IsOrder(R, V), NEW t \in Seq(V), NEW u \in Seq(V),
           Sorted(R, t), Sorted(R, u), Alike(t, u), NEW i \in 1 .. Len(t), i \in 1 .. Len(u)
    PROVE  <<t[i], u[i]>> \notin R
<1> SUFFICES ASSUME <<t[i], u[i]>> \in R PROVE FALSE
  OBVIOUS
<1> DEFINE W == { v \in V : <<v, u[i]>> \in R }
<1>0. /\ Len(t) \in Nat /\ Len(u) \in Nat
      /\ \A k \in 1 .. Len(t) : t[k] \in V
      /\ \A k \in 1 .. Len(u) : u[k] \in V
  OBVIOUS
<1>1. 1 .. i \subseteq Places(t, Len(t), W)
  <2> SUFFICES ASSUME NEW k \in 1 .. i PROVE k \in 1 .. Len(t) /\ t[k] \in W
    BY DEF Places
  <2>1. k \in 1 .. Len(t)
    OBVIOUS
  <2>2. <<t[i], t[k]>> \notin R
    BY <1>0, <2>1 DEF Sorted, IsOrder
  <2>3. <<t[k], u[i]>> \in R
    BY <1>0, <2>1, <2>2 DEF IsOrder
  <2> QED BY <1>0, <2>1, <2>3
<1>2. Places(u, Len(u), W) \subseteq 1 .. i - 1
  <2> SUFFICES ASSUME NEW k \in 1 .. Len(u), u[k] \in W PROVE k \in 1 .. i - 1
    BY DEF Places
  <2>1. <<u[k], u[i]>> \in R
    OBVIOUS
  <2>2. ~ i < k /\ k # i
    BY <1>0, <2>1 DEF Sorted, IsOrder
  <2> QED BY <2>2
<1> HIDE DEF W
<1>3. IsFiniteSet(Places(t, Len(t), W))
  BY <1>0, PlacesAreFinite
<1>4. IsFiniteSet(1 .. i - 1) /\ Cardinality(1 .. i) = i /\ Cardinality(1 .. i - 1) = i - 1
  <2>1. i \in Nat /\ i - 1 \in Nat
    OBVIOUS
  <2> QED BY Zenon, <2>1, FirstNumbers
<1>5. i <= Count(t, Len(t), W)
  BY <1>1, <1>3, <1>4, FS_Subset DEF Count
<1>6. Count(u, Len(u), W) <= i - 1
  BY <1>2, <1>3, <1>4, FS_Subset DEF Count
<1>7. Count(t, Len(t), W) = Count(u, Len(u), W)
  BY DEF Alike
<1>8. Count(t, Len(t), W) \in Nat
  BY <1>0, PlacesAreFinite
<1> QED BY <1>5, <1>6, <1>7, <1>8

\* The elements and their order are all there is to a sorted sequence.
LEMMA SortedIsUnique ==
    ASSUME NEW V, NEW R, IsOrder(R, V), NEW t \in Seq(V), NEW u \in Seq(V),
           Sorted(R, t), Sorted(R, u), Alike(t, u)
    PROVE  t = u
<1>1. \A s \in Seq(V) : Count(s, Len(s), V) = Len(s)
  <2> SUFFICES ASSUME NEW s \in Seq(V) PROVE Count(s, Len(s), V) = Len(s)
    OBVIOUS
  <2>1. Places(s, Len(s), V) = 1 .. Len(s)
    BY DEF Places
  <2>2. Len(s) \in Nat
    OBVIOUS
  <2>3. Cardinality(1 .. Len(s)) = Len(s)
    BY Zenon, <2>2, FirstNumbers
  <2> QED BY <2>1, <2>3 DEF Count
<1>2. Len(t) = Len(u)
  BY <1>1 DEF Alike
<1>3. Alike(u, t)
  BY DEF Alike
<1>4. ASSUME NEW i \in 1 .. Len(t) PROVE t[i] = u[i]
  <2>1. i \in 1 .. Len(u) /\ t[i] \in V /\ u[i] \in V
    BY <1>2
  <2>2. <<t[i], u[i]>> \notin R /\ <<u[i], t[i]>> \notin R
    BY <1>3, <2>1, SortedNotLess
  <2> QED BY <2>1, <2>2 DEF IsOrder
<1> QED BY <1>2, <1>4

LEMMA SortedInsert ==
    ASSUME NEW V, NEW R, IsOrder(R, V), NEW t \in Seq(V), Sorted(R, t), NEW x \in V,
           NEW m \in 0 .. Len(t), m = 0 \/ <<x, t[m]>> \notin R,
           \A k \in m + 1 .. Len(t) : <<x, t[k]>> \in R,
           NEW u, Inserted(u, t, m + 1, x)
    PROVE  Sorted(R, u)
<1>0. Len(t) \in Nat /\ \A k \in 1 .. Len(t) : t[k] \in V
  OBVIOUS
<1>1. \A k \in 1 .. m : <<x, t[k]>> \notin R
  <2> SUFFICES ASSUME NEW k \in 1 .. m PROVE <<x, t[k]>> \notin R
    OBVIOUS
  <2>1. k \in 1 .. Len(t) /\ m \in 1 .. Len(t) /\ m # 0
    OBVIOUS
  <2>2. CASE k < m
    <3>1. <<t[m], t[k]>> \notin R
      BY <2>1, <2>2 DEF Sorted
    <3> QED BY <1>0, <2>1, <3>1 DEF IsOrder
  <2> QED BY <2>1, <2>2
<1>2. \A k \in m + 1 .. Len(t) : <<t[k], x>> \notin R
  <2> SUFFICES ASSUME NEW k \in m + 1 .. Len(t) PROVE <<t[k], x>> \notin R
    OBVIOUS
  <2>1. t[k] \in V /\ <<x, t[k]>> \in R
    BY <1>0
  <2> QED BY <2>1 DEF IsOrder
<1> SUFFICES ASSUME NEW i \in 1 .. Len(t) + 1, NEW j \in 1 .. Len(t) + 1, i < j
             PROVE  <<u[j], u[i]>> \notin R
  BY DEF Sorted, Inserted
<1>3. /\ u[m + 1] = x
      /\ \A k \in 1 .. m : u[k] = t[k]
      /\ \A k \in m + 2 .. Len(t) + 1 : k - 1 \in m + 1 .. Len(t) /\ u[k] = t[k - 1]
  <2>1. \A k \in m + 2 .. Len(t) + 1 : k - 1 \in m + 1 .. Len(t) /\ (k - 1) + 1 = k
    BY <1>0
  <2> QED BY <2>1 DEF Inserted
<1>4. CASE j <= m
  BY <1>3, <1>4 DEF Sorted
<1>5. CASE j = m + 1
  BY <1>1, <1>3, <1>5
<1>6. CASE j > m + 1 /\ i <= m
  <2>1. j - 1 \in 1 .. Len(t) /\ i \in 1 .. Len(t) /\ i < j - 1 /\ u[j] = t[j - 1] /\ u[i] = t[i]
    BY <1>0, <1>3, <1>6
  <2> QED BY <2>1 DEF Sorted
<1>7. CASE j > m + 1 /\ i = m + 1
  BY <1>0, <1>2, <1>3, <1>7
<1>8. CASE j > m + 1 /\ i > m + 1
  <2>1. /\ j - 1 \in 1 .. Len(t) /\ i - 1 \in 1 .. Len(t) /\ i - 1 < j - 1
        /\ u[j] = t[j - 1] /\ u[i] = t[i - 1]
    BY <1>0, <1>3, <1>8
  <2> QED BY <2>1 DEF Sorted
<1> QED BY <1>0, <1>4, <1>5, <1>6, <1>7, <1>8

-----------------------------------------------------------------------------
(***************************************************************************)
(* Insert and InOrder, for the order of a set.                             *)
(***************************************************************************)
Place(R, t, x) == Max({0} \cup { i \in DOMAIN t : <<x, t[i]>> \notin R })

LEMMA PlaceIs ==
    ASSUME NEW V, NEW R, NEW t \in Seq(V), NEW x
    PROVE  LET m == Place(R, t, x)
           IN  /\ m \in 0 .. Len(t) /\ (m = 0 \/ <<x, t[m]>> \notin R)
               /\ \A k \in m + 1 .. Len(t) : <<x, t[k]>> \in R
<1> DEFINE I == { i \in DOMAIN t : <<x, t[i]>> \notin R }
<1>1. Len(t) \in Nat /\ DOMAIN t = 1 .. Len(t)
  OBVIOUS
<1>2. CASE I = {}
  <2>1. Place(R, t, x) = 0
    <3>1. {0} \cup I = {0}
      BY <1>2
    <3>2. Max({0}) = 0
      <4>1. {0} \in SUBSET Int /\ 0 \in {0} /\ \A i \in {0} : i <= 0
        OBVIOUS
      <4> QED BY <4>1, MaxIs
    <3> QED BY <3>1, <3>2 DEF Place
  <2>2. \A k \in 1 .. Len(t) : <<x, t[k]>> \in R
    BY <1>1, <1>2
  <2> QED BY <1>1, <2>1, <2>2
<1>3. CASE I # {}
  <2>1. I \in SUBSET (1 .. Len(t))
    BY <1>1
  <2>2. PICK m \in I : m = Max(I) /\ \A i \in I : i <= m
    <3> HIDE DEF I
    <3> QED BY <1>1, <1>3, <2>1, MaxIn
  <2>3. Place(R, t, x) = m
    <3>1. m \in {0} \cup I /\ {0} \cup I \in SUBSET Int /\ \A i \in {0} \cup I : i <= m
      <4> HIDE DEF I
      <4>1. {0} \cup I \in SUBSET Int
        BY <1>1, <2>1
      <4> QED BY <1>1, <2>1, <2>2, <4>1
    <3>2. Max({0} \cup I) = m
      <4> HIDE DEF I
      <4> QED BY <3>1, MaxIs
    <3> QED BY <3>2 DEF Place
  <2>4. ASSUME NEW k \in m + 1 .. Len(t) PROVE <<x, t[k]>> \in R
    <3>1. k \in DOMAIN t /\ ~ k <= m
      BY <1>1, <2>1
    <3> QED BY <2>2, <3>1
  <2> QED BY <1>1, <2>1, <2>2, <2>3, <2>4
<1> QED BY <1>2, <1>3

LEMMA InsertInOrder ==
    ASSUME NEW V, NEW R, IsOrder(R, V), NEW t \in Seq(V), Sorted(R, t), NEW x \in V,
           NEW u, u = InsertAt(t, Place(R, t, x) + 1, x)
    PROVE  /\ u \in Seq(V) /\ Sorted(R, u)
           /\ \A W : Count(u, Len(u), W) = Count(t, Len(t), W) + Bit(x \in W)
<1> DEFINE m == Place(R, t, x)
<1>1. /\ m \in 0 .. Len(t) /\ (m = 0 \/ <<x, t[m]>> \notin R)
      /\ \A k \in m + 1 .. Len(t) : <<x, t[k]>> \in R
  BY PlaceIs
<1> HIDE DEF m
<1>2. m + 1 \in 1 .. Len(t) + 1 /\ Len(t) \in Nat
  BY <1>1
<1>3. u \in Seq(V) /\ Inserted(u, t, m + 1, x)
  BY <1>2, InsertAtIs DEF m
<1>4. Sorted(R, u)
  BY <1>1, <1>3, SortedInsert
<1>5. \A W : Count(u, Len(u), W) = Count(t, Len(t), W) + Bit(x \in W)
  BY <1>2, <1>3, CountInserted
<1> QED BY <1>3, <1>4, <1>5

\* g[i] is the result after i elements.
IsSortRun(g, R, V, s) ==
    /\ g[0] = <<>>
    /\ \A i \in 1 .. Len(s) : g[i - 1] \in Seq(V) =>
                                g[i] = InsertAt(g[i - 1], Place(R, g[i - 1], s[i]) + 1, s[i])

LEMMA SortRun ==
    ASSUME NEW V, NEW R, IsOrder(R, V), NEW s \in Seq(V), NEW g, IsSortRun(g, R, V, s)
    PROVE  g[Len(s)] \in Seq(V) /\ Sorted(R, g[Len(s)]) /\ Alike(g[Len(s)], s)
<1> DEFINE n == Len(s)
           T == { i \in 0 .. n : /\ g[i] \in Seq(V) /\ Sorted(R, g[i])
                                 /\ \A W : Count(g[i], Len(g[i]), W) = Count(s, i, W) }
<1>1. n \in Nat
  OBVIOUS
<1>2. 0 \in T
  <2>1. g[0] = <<>> /\ <<>> \in Seq(V) /\ Len(<<>>) = 0
    BY DEF IsSortRun
  <2>2. Sorted(R, <<>>)
    BY <2>1 DEF Sorted
  <2>3. \A W : Count(<<>>, Len(<<>>), W) = Count(s, 0, W)
    BY <2>1, CountNone
  <2>4. 0 \in 0 .. n
    BY <1>1
  <2> QED BY <2>1, <2>2, <2>3, <2>4
<1>3. ASSUME NEW i \in 0 .. n - 1, i \in T PROVE i + 1 \in T
  <2>1. i + 1 \in 1 .. n /\ (i + 1) - 1 = i /\ i \in Nat /\ i + 1 \in 0 .. n
    BY <1>1
  <2>2. s[i + 1] \in V
    BY <2>1
  <2>3. g[i] \in Seq(V) /\ Sorted(R, g[i])
        /\ \A W : Count(g[i], Len(g[i]), W) = Count(s, i, W)
    BY <1>3
  <2>4. g[i + 1] = InsertAt(g[i], Place(R, g[i], s[i + 1]) + 1, s[i + 1])
    BY <2>1, <2>3 DEF IsSortRun
  <2>5. /\ g[i + 1] \in Seq(V) /\ Sorted(R, g[i + 1])
        /\ \A W : Count(g[i + 1], Len(g[i + 1]), W)
                  = Count(g[i], Len(g[i]), W) + Bit(s[i + 1] \in W)
    <3> DEFINE t == g[i]
               u == g[i + 1]
               x == s[i + 1]
    <3>1. t \in Seq(V) /\ Sorted(R, t) /\ x \in V /\ u = InsertAt(t, Place(R, t, x) + 1, x)
      BY <2>2, <2>3, <2>4
    <3> HIDE DEF T, t, u, x
    <3>2. /\ u \in Seq(V) /\ Sorted(R, u)
          /\ \A W : Count(u, Len(u), W) = Count(t, Len(t), W) + Bit(x \in W)
      BY <3>1, InsertInOrder
    <3> QED BY <3>2 DEF t, u, x
  <2>6. \A W : Count(g[i + 1], Len(g[i + 1]), W) = Count(s, i + 1, W)
    BY <2>1, <2>3, <2>5, CountNext
  <2> QED BY <2>1, <2>5, <2>6
<1> HIDE DEF T
<1>4. \A i \in 0 .. n : i \in T
  <2>1. 0 \in Int /\ n \in Int
    BY <1>1
  <2> QED BY Zenon, <1>2, <1>3, <2>1, Reading!UpTo
<1> QED BY <1>1, <1>4 DEF T, Alike

-----------------------------------------------------------------------------
(***************************************************************************)
(* The three orders of the model, and what is sorted by them.              *)
(***************************************************************************)
Mains == { main \in Int : Wildcards(main) \in Nat }
Parts == [main : Mains, params : Seq(Int), q : Int]
Plains == { o \in Parts : IsPlain(o) }

NumberOrder == { p \in Int \X Int : Ascending(p[1], p[2]) }
PartOrder == { p \in Parts \X Parts : RanksBefore(p[1], p[2]) }
MainOrder == { p \in Plains \X Plains : MainsAscending(p[1], p[2]) }

InsertNumber(sorted, x) == Insert(sorted, x, Ascending)
InsertPart(sorted, x) == Insert(sorted, x, RanksBefore)
InsertMain(sorted, x) == Insert(sorted, x, MainsAscending)

NumberSort == INSTANCE Folding WITH Step <- InsertNumber
PartSort == INSTANCE Folding WITH Step <- InsertPart
MainSort == INSTANCE Folding WITH Step <- InsertMain

LEMMA SortsAre ==
    \A s : /\ InOrder(s, Ascending) = NumberSort!Fold(<<>>, s)
           /\ InOrder(s, RanksBefore) = PartSort!Fold(<<>>, s)
           /\ InOrder(s, MainsAscending) = MainSort!Fold(<<>>, s)
<1>1. ASSUME NEW s PROVE InOrder(s, Ascending) = NumberSort!Fold(<<>>, s)
  BY DEF InOrder, InsertNumber, NumberSort!Fold, FoldLeft, MapThenFoldSet,
         NumberSort!MapThenFoldSet, Max, NumberSort!Largest
<1>2. ASSUME NEW s PROVE InOrder(s, RanksBefore) = PartSort!Fold(<<>>, s)
  BY DEF InOrder, InsertPart, PartSort!Fold, FoldLeft, MapThenFoldSet,
         PartSort!MapThenFoldSet, Max, PartSort!Largest
<1>3. ASSUME NEW s PROVE InOrder(s, MainsAscending) = MainSort!Fold(<<>>, s)
  BY DEF InOrder, InsertMain, MainSort!Fold, FoldLeft, MapThenFoldSet,
         MainSort!MapThenFoldSet, Max, MainSort!Largest
<1> QED BY <1>1, <1>2, <1>3

LEMMA NumbersAreOrdered == IsOrder(NumberOrder, Int)
BY DEF IsOrder, NumberOrder, Ascending

LEMMA MainsAreOrdered == IsOrder(MainOrder, Plains)
<1>1. \A a, b \in Plains : <<a, b>> \in MainOrder <=> a.main < b.main
  BY DEF MainOrder, MainsAscending
<1>2. \A a \in Plains : a.main \in Int /\ a = [main |-> a.main, params |-> <<>>, q |-> MaxQ]
  BY DEF Plains, Parts, Mains, IsPlain
<1> QED BY <1>1, <1>2 DEF IsOrder

\* Of two lists of numbers of one length, one comes first or they are equal.
LEMMA ParamsAreOrdered ==
    ASSUME NEW a \in Seq(Int), NEW b \in Seq(Int), Len(a) = Len(b)
    PROVE  /\ ParamsBefore(a, b) => ~ ParamsBefore(b, a)
           /\ ParamsBefore(a, b) \/ ParamsBefore(b, a) \/ a = b
<1>0. DOMAIN a = 1 .. Len(a) /\ DOMAIN b = 1 .. Len(a) /\ Len(a) \in Nat
      /\ \A i \in 1 .. Len(a) : a[i] \in Int /\ b[i] \in Int
  OBVIOUS
<1>1. ASSUME ParamsBefore(a, b), ParamsBefore(b, a) PROVE FALSE
  <2>1. PICK i \in 1 .. Len(a) : a[i] < b[i] /\ \A j \in 1 .. i - 1 : a[j] = b[j]
    BY <1>0, <1>1 DEF ParamsBefore
  <2>2. PICK k \in 1 .. Len(a) : b[k] < a[k] /\ \A j \in 1 .. k - 1 : b[j] = a[j]
    BY <1>0, <1>1 DEF ParamsBefore
  <2>3. ~ i < k /\ ~ k < i /\ i # k
    BY <1>0, <2>1, <2>2
  <2> QED BY <2>3
<1>2. ASSUME a # b PROVE ParamsBefore(a, b) \/ ParamsBefore(b, a)
  <2> DEFINE T == { i \in 1 .. Len(a) : a[i] # b[i] }
  <2>1. T # {} /\ T \subseteq Nat
    <3>1. ASSUME \A i \in 1 .. Len(a) : a[i] = b[i] PROVE a = b
      BY <1>0, <3>1
    <3>2. T # {}
      BY <1>2, <3>1
    <3> QED BY <1>0, <3>2
  <2>2. PICK i \in T : \A j \in T : i <= j
    <3> HIDE DEF T
    <3> QED BY <2>1, Reading!Least
  <2>3. \A j \in 1 .. i - 1 : a[j] = b[j]
    <3> SUFFICES ASSUME NEW j \in 1 .. i - 1, a[j] # b[j] PROVE FALSE
      OBVIOUS
    <3>1. j \in T
      BY <1>0
    <3> QED BY <2>2, <3>1
  <2>4. a[i] < b[i] \/ b[i] < a[i]
    BY <1>0
  <2> QED BY <1>0, <2>3, <2>4 DEF ParamsBefore
<1> QED BY <1>1, <1>2

LEMMA ParamsBetween ==
    ASSUME NEW a \in Seq(Int), NEW b \in Seq(Int), NEW c \in Seq(Int),
           Len(a) = Len(b), Len(a) = Len(c), ParamsBefore(a, b)
    PROVE  ParamsBefore(a, c) \/ ParamsBefore(c, b)
<1>0. DOMAIN a = 1 .. Len(a) /\ DOMAIN c = 1 .. Len(a) /\ Len(a) \in Nat
      /\ \A i \in 1 .. Len(a) : a[i] \in Int /\ b[i] \in Int /\ c[i] \in Int
  <2>1. \A s \in Seq(Int) : /\ DOMAIN s = 1 .. Len(s) /\ Len(s) \in Nat
                            /\ \A i \in 1 .. Len(s) : s[i] \in Int
    OBVIOUS
  <2> QED BY Zenon, <2>1
<1>1. PICK i \in 1 .. Len(a) : a[i] < b[i] /\ \A j \in 1 .. i - 1 : a[j] = b[j]
  BY <1>0 DEF ParamsBefore
<1>2. CASE ParamsBefore(c, a)
  <2>1. PICK k \in 1 .. Len(a) : c[k] < a[k] /\ \A j \in 1 .. k - 1 : c[j] = a[j]
    BY <1>0, <1>2 DEF ParamsBefore
  <2>2. CASE k <= i
    <3>1. c[k] < b[k]
      <4>1. a[k] \in Int /\ b[k] \in Int /\ c[k] \in Int /\ c[k] < a[k]
        BY <1>0, <2>1
      <4>2. a[k] <= b[k]
        <5>1. CASE k = i
          BY <1>1, <4>1, <5>1
        <5>2. CASE k < i
          <6>1. a[k] = b[k]
            BY <1>1, <5>2
          <6> QED BY <4>1, <6>1
        <5> QED BY <2>2, <5>1, <5>2
      <4> QED BY <4>1, <4>2
    <3>2. \A j \in 1 .. k - 1 : c[j] = b[j]
      BY <1>0, <1>1, <2>1, <2>2
    <3> QED BY <1>0, <3>1, <3>2 DEF ParamsBefore
  <2>3. CASE k > i
    <3>1. c[i] < b[i] /\ \A j \in 1 .. i - 1 : c[j] = b[j]
      BY <1>0, <1>1, <2>1, <2>3
    <3> QED BY <1>0, <3>1 DEF ParamsBefore
  <2> QED BY <2>2, <2>3
<1> QED BY <1>2, ParamsAreOrdered

LEMMA PartsAreOrdered == IsOrder(PartOrder, Parts)
<1>1. \A a, b \in Parts : <<a, b>> \in PartOrder <=> RanksBefore(a, b)
  BY DEF PartOrder
<1>2. \A a \in Parts : /\ a.main \in Int /\ Wildcards(a.main) \in Nat /\ a.q \in Int
                       /\ a.params \in Seq(Int) /\ Len(a.params) \in Nat
                       /\ a = [main |-> a.main, params |-> a.params, q |-> a.q]
  BY DEF Parts, Mains
<1>3. ASSUME NEW a \in Parts, NEW b \in Parts, RanksBefore(a, b) PROVE ~ RanksBefore(b, a)
  BY <1>2, <1>3, ParamsAreOrdered DEF RanksBefore
<1>4. ASSUME NEW a \in Parts, NEW b \in Parts, NEW c \in Parts, RanksBefore(a, b)
      PROVE  RanksBefore(a, c) \/ RanksBefore(c, b)
  <2> DEFINE wa == Wildcards(a.main)
             wb == Wildcards(b.main)
             wc == Wildcards(c.main)
  <2>0. /\ a.q \in Int /\ b.q \in Int /\ c.q \in Int /\ wa \in Nat /\ wb \in Nat /\ wc \in Nat
        /\ a.main \in Int /\ b.main \in Int /\ c.main \in Int
        /\ Len(a.params) \in Nat /\ Len(b.params) \in Nat /\ Len(c.params) \in Nat
    BY <1>2
  <2>1. CASE ~ (a.q = b.q /\ a.q = c.q)
    BY <1>4, <2>0, <2>1 DEF RanksBefore
  <2>2. CASE a.q = b.q /\ a.q = c.q /\ ~ (wa = wb /\ wa = wc)
    BY <1>4, <2>0, <2>2 DEF RanksBefore
  <2>3. CASE a.q = b.q /\ a.q = c.q /\ wa = wb /\ wa = wc /\ ~ (a.main = b.main /\ a.main = c.main)
    BY <1>4, <2>0, <2>3 DEF RanksBefore
  <2>4. CASE a.q = b.q /\ a.q = c.q /\ a.main = b.main /\ a.main = c.main
    <3>1. CASE ~ (Len(a.params) = Len(b.params) /\ Len(a.params) = Len(c.params))
      BY <1>4, <2>0, <2>4, <3>1 DEF RanksBefore
    <3>2. CASE Len(a.params) = Len(b.params) /\ Len(a.params) = Len(c.params)
      <4>1. ParamsBefore(a.params, b.params)
        BY <1>4, <2>4, <3>2 DEF RanksBefore
      <4>2. a.params \in Seq(Int) /\ b.params \in Seq(Int) /\ c.params \in Seq(Int)
        BY <1>2
      <4>3. ParamsBefore(a.params, c.params) \/ ParamsBefore(c.params, b.params)
        BY <3>2, <4>1, <4>2, ParamsBetween
      <4> QED BY <2>4, <3>2, <4>3 DEF RanksBefore
    <3> QED BY <3>1, <3>2
  <2> HIDE DEF wa, wb, wc
  <2> QED BY <2>1, <2>2, <2>3, <2>4 DEF wa, wb, wc
<1>5. ASSUME NEW a \in Parts, NEW b \in Parts, ~ RanksBefore(a, b), ~ RanksBefore(b, a)
      PROVE  a = b
  <2>1. a.q = b.q
    BY <1>2, <1>5 DEF RanksBefore
  <2>2. Wildcards(a.main) = Wildcards(b.main)
    BY <1>2, <1>5, <2>1 DEF RanksBefore
  <2>3. a.main = b.main
    BY <1>2, <1>5, <2>1, <2>2 DEF RanksBefore
  <2>4. Len(a.params) = Len(b.params)
    BY <1>2, <1>5, <2>1, <2>2, <2>3 DEF RanksBefore
  <2>5. a.params = b.params
    BY <1>2, <1>5, <2>1, <2>2, <2>3, <2>4, ParamsAreOrdered DEF RanksBefore
  <2> QED BY <1>2, <2>1, <2>3, <2>5
<1> QED BY <1>1, <1>3, <1>4, <1>5 DEF IsOrder

LEMMA NumbersSorted ==
    ASSUME NEW s \in Seq(Int)
    PROVE  LET t == InOrder(s, Ascending)
           IN  t \in Seq(Int) /\ Sorted(NumberOrder, t) /\ Alike(t, s)
<1>0. Len(s) \in Nat /\ DOMAIN s = 1 .. Len(s) /\ \A i \in 1 .. Len(s) : s[i] \in Int
  OBVIOUS
<1>1. PICK g : NumberSort!IsRun(g, <<>>, s, Len(s))
  BY Zenon, <1>0, NumberSort!FoldRun
<1>2. g[Len(s)] = InOrder(s, Ascending)
  BY Zenon, <1>0, <1>1, NumberSort!FoldBy, SortsAre
<1>3. \A t \in Seq(Int), x \in Int :
        InsertNumber(t, x) = InsertAt(t, Place(NumberOrder, t, x) + 1, x)
  <2> SUFFICES ASSUME NEW t \in Seq(Int), NEW x \in Int
               PROVE  InsertNumber(t, x) = InsertAt(t, Place(NumberOrder, t, x) + 1, x)
    OBVIOUS
  <2>1. { i \in DOMAIN t : ~ Ascending(x, t[i]) } = { i \in DOMAIN t : <<x, t[i]>> \notin NumberOrder }
    BY DEF NumberOrder
  <2> QED BY Zenon, <2>1 DEF InsertNumber, Insert, Place
<1>4. IsSortRun(g, NumberOrder, Int, s)
  BY <1>0, <1>1, <1>3 DEF IsSortRun, NumberSort!IsRun
<1>5. g[Len(s)] \in Seq(Int) /\ Sorted(NumberOrder, g[Len(s)]) /\ Alike(g[Len(s)], s)
  BY Zenon, <1>4, NumbersAreOrdered, SortRun
<1> QED BY <1>2, <1>5

LEMMA PartsSorted ==
    ASSUME NEW s \in Seq(Parts)
    PROVE  LET t == InOrder(s, RanksBefore)
           IN  t \in Seq(Parts) /\ Sorted(PartOrder, t) /\ Alike(t, s)
<1>0. Len(s) \in Nat /\ DOMAIN s = 1 .. Len(s) /\ \A i \in 1 .. Len(s) : s[i] \in Parts
  OBVIOUS
<1>1. PICK g : PartSort!IsRun(g, <<>>, s, Len(s))
  BY Zenon, <1>0, PartSort!FoldRun
<1>2. g[Len(s)] = InOrder(s, RanksBefore)
  BY Zenon, <1>0, <1>1, PartSort!FoldBy, SortsAre
<1>3. \A t \in Seq(Parts), x \in Parts :
        InsertPart(t, x) = InsertAt(t, Place(PartOrder, t, x) + 1, x)
  <2> SUFFICES ASSUME NEW t \in Seq(Parts), NEW x \in Parts
               PROVE  InsertPart(t, x) = InsertAt(t, Place(PartOrder, t, x) + 1, x)
    OBVIOUS
  <2>1. { i \in DOMAIN t : ~ RanksBefore(x, t[i]) } = { i \in DOMAIN t : <<x, t[i]>> \notin PartOrder }
    BY DEF PartOrder
  <2> QED BY Zenon, <2>1 DEF InsertPart, Insert, Place
<1>4. IsSortRun(g, PartOrder, Parts, s)
  BY <1>0, <1>1, <1>3 DEF IsSortRun, PartSort!IsRun
<1>5. g[Len(s)] \in Seq(Parts) /\ Sorted(PartOrder, g[Len(s)]) /\ Alike(g[Len(s)], s)
  BY Zenon, <1>4, PartsAreOrdered, SortRun
<1> QED BY <1>2, <1>5

LEMMA MainsSorted ==
    ASSUME NEW s \in Seq(Plains)
    PROVE  LET t == InOrder(s, MainsAscending)
           IN  t \in Seq(Plains) /\ Sorted(MainOrder, t) /\ Alike(t, s)
<1>0. Len(s) \in Nat /\ DOMAIN s = 1 .. Len(s) /\ \A i \in 1 .. Len(s) : s[i] \in Plains
  OBVIOUS
<1>1. PICK g : MainSort!IsRun(g, <<>>, s, Len(s))
  BY Zenon, <1>0, MainSort!FoldRun
<1>2. g[Len(s)] = InOrder(s, MainsAscending)
  BY Zenon, <1>0, <1>1, MainSort!FoldBy, SortsAre
<1>3. \A t \in Seq(Plains), x \in Plains :
        InsertMain(t, x) = InsertAt(t, Place(MainOrder, t, x) + 1, x)
  <2> SUFFICES ASSUME NEW t \in Seq(Plains), NEW x \in Plains
               PROVE  InsertMain(t, x) = InsertAt(t, Place(MainOrder, t, x) + 1, x)
    OBVIOUS
  <2>1. { i \in DOMAIN t : ~ MainsAscending(x, t[i]) } = { i \in DOMAIN t : <<x, t[i]>> \notin MainOrder }
    BY DEF MainOrder
  <2> QED BY Zenon, <2>1 DEF InsertMain, Insert, Place
<1>4. IsSortRun(g, MainOrder, Plains, s)
  BY <1>0, <1>1, <1>3 DEF IsSortRun, MainSort!IsRun
<1>5. g[Len(s)] \in Seq(Plains) /\ Sorted(MainOrder, g[Len(s)]) /\ Alike(g[Len(s)], s)
  BY Zenon, <1>4, MainsAreOrdered, SortRun
<1> QED BY <1>2, <1>5

LEMMA AlikeBothWays == \A s, t, u : /\ Alike(s, t) => Alike(t, s)
                                    /\ Alike(s, t) /\ Alike(t, u) => Alike(s, u)
BY DEF Alike

\* What has the same elements sorts to the same.
LEMMA SameNumbers ==
    ASSUME NEW s \in Seq(Int), NEW t \in Seq(Int), Alike(s, t)
    PROVE  InOrder(s, Ascending) = InOrder(t, Ascending)
<1>1. Alike(InOrder(s, Ascending), InOrder(t, Ascending))
  BY Zenon, NumbersSorted, AlikeBothWays
<1> QED BY Zenon, <1>1, NumbersSorted, NumbersAreOrdered, SortedIsUnique

LEMMA SameParts ==
    ASSUME NEW s \in Seq(Parts), NEW t \in Seq(Parts), Alike(s, t)
    PROVE  InOrder(s, RanksBefore) = InOrder(t, RanksBefore)
<1>1. Alike(InOrder(s, RanksBefore), InOrder(t, RanksBefore))
  BY Zenon, PartsSorted, AlikeBothWays
<1> QED BY Zenon, <1>1, PartsSorted, PartsAreOrdered, SortedIsUnique

LEMMA SameMains ==
    ASSUME NEW s \in Seq(Plains), NEW t \in Seq(Plains), Alike(s, t)
    PROVE  InOrder(s, MainsAscending) = InOrder(t, MainsAscending)
<1>1. Alike(InOrder(s, MainsAscending), InOrder(t, MainsAscending))
  BY Zenon, MainsSorted, AlikeBothWays
<1> QED BY Zenon, <1>1, MainsSorted, MainsAreOrdered, SortedIsUnique

-----------------------------------------------------------------------------
(***************************************************************************)
(* The parts that offers are normalised to.                                *)
(***************************************************************************)
PartOf(o) == [main |-> o.main, params |-> InOrder(o.params, Ascending), q |-> Clamp(o.q)]

Qualifying == INSTANCE Folding WITH Step <- PutQuality
Compacting == INSTANCE Folding WITH Step <- PutUnlessRepeated

LEMMA QualifyingIs == \A s : QualityParts(s) = Qualifying!Fold(<<>>, s)
BY DEF QualityParts, Qualifying!Fold, FoldLeft, MapThenFoldSet, Qualifying!MapThenFoldSet,
       Max, Qualifying!Largest

LEMMA CompactingIs == \A s : Compact(s) = Compacting!Fold(<<>>, s)
BY DEF Compact, Compacting!Fold, FoldLeft, MapThenFoldSet, Compacting!MapThenFoldSet,
       Max, Compacting!Largest

LEMMA PartFields ==
    \A o \in Parts : /\ o.main \in Mains /\ o.params \in Seq(Int) /\ o.q \in Int
                     /\ o = [main |-> o.main, params |-> o.params, q |-> o.q]
BY DEF Parts

LEMMA PartWith ==
    \A o \in Parts : \A x :
        /\ [o EXCEPT !.main = x] = [main |-> x, params |-> o.params, q |-> o.q]
        /\ [o EXCEPT !.params = x] = [main |-> o.main, params |-> x, q |-> o.q]
BY PartFields

LEMMA PartIsPart == \A o \in Parts : PartOf(o) \in Parts
<1> SUFFICES ASSUME NEW o \in Parts PROVE PartOf(o) \in Parts
  OBVIOUS
<1>1. o.main \in Mains /\ o.params \in Seq(Int) /\ o.q \in Int
  BY DEF Parts
<1>2. InOrder(o.params, Ascending) \in Seq(Int)
  BY Zenon, <1>1, NumbersSorted
<1>3. Clamp(o.q) \in Int
  BY <1>1 DEF Clamp, MinQ, MaxQ
<1> QED BY <1>1, <1>2, <1>3 DEF PartOf, Parts

LEMMA PutQualityIs ==
    \A parts, o : PutQuality(parts, o) = IF o.q = Refused THEN parts ELSE Append(parts, PartOf(o))
BY DEF PutQuality, PartOf

\* The offers that the parts in W come from.
Sources(W) == { o \in Parts : o.q # Refused /\ PartOf(o) \in W }

LEMMA CountAppended ==
    ASSUME NEW V, NEW t \in Seq(V), NEW x \in V
    PROVE  LET u == Append(t, x)
           IN  u \in Seq(V) /\ \A W : Count(u, Len(u), W) = Count(t, Len(t), W) + Bit(x \in W)
<1> DEFINE u == Append(t, x)
<1>1. u \in Seq(V) /\ Len(t) \in Nat
  OBVIOUS
<1>2. Inserted(u, t, Len(t) + 1, x)
  BY DEF Inserted
<1> HIDE DEF u
<1>3. \A W : Count(u, Len(u), W) = Count(t, Len(t), W) + Bit(x \in W)
  BY <1>1, <1>2, CountInserted
<1> QED BY <1>1, <1>3 DEF u

LEMMA PartsOfOffers ==
    ASSUME NEW s \in Seq(Parts)
    PROVE  LET t == QualityParts(s)
           IN  t \in Seq(Parts) /\ \A W : Count(t, Len(t), W) = Count(s, Len(s), Sources(W))
<1> DEFINE n == Len(s)
<1>0. n \in Nat /\ DOMAIN s = 1 .. n /\ \A i \in 1 .. n : s[i] \in Parts
  OBVIOUS
<1>1. PICK g : Qualifying!IsRun(g, <<>>, s, n)
  BY Zenon, <1>0, Qualifying!FoldRun
<1>2. g[n] = QualityParts(s)
  BY Zenon, <1>0, <1>1, Qualifying!FoldBy, QualifyingIs
<1> DEFINE T == { i \in 0 .. n : /\ g[i] \in Seq(Parts)
                                 /\ \A W : Count(g[i], Len(g[i]), W) = Count(s, i, Sources(W)) }
<1>3. 0 \in T
  <2>1. g[0] = <<>> /\ <<>> \in Seq(Parts) /\ Len(<<>>) = 0
    BY <1>1 DEF Qualifying!IsRun
  <2>2. \A W : Count(<<>>, Len(<<>>), W) = Count(s, 0, Sources(W))
    BY <2>1, CountNone
  <2>3. \A W : Count(g[0], Len(g[0]), W) = Count(s, 0, Sources(W))
    BY Zenon, <2>1, <2>2
  <2>4. 0 \in 0 .. n
    BY <1>0
  <2> QED BY Zenon, <2>1, <2>3, <2>4
<1>4. ASSUME NEW i \in 0 .. n - 1, i \in T PROVE i + 1 \in T
  <2>1. i + 1 \in 1 .. n /\ (i + 1) - 1 = i /\ i \in Nat /\ i + 1 \in 0 .. n
    BY <1>0
  <2> DEFINE o == s[i + 1]
             x == PartOf(o)
  <2>2. g[i] \in Seq(Parts) /\ \A W : Count(g[i], Len(g[i]), W) = Count(s, i, Sources(W))
    BY <1>4
  <2>3. g[i + 1] = PutQuality(g[i], o)
    BY <1>1, <2>1 DEF Qualifying!IsRun
  <2>4. \A W : Count(s, i + 1, Sources(W)) = Count(s, i, Sources(W)) + Bit(o \in Sources(W))
    BY <2>1, CountNext
  <2>5. o \in Parts /\ x \in Parts
    BY <1>0, <2>1, PartIsPart
  <2> HIDE DEF T, o
  <2>6. CASE o.q = Refused
    <3>1. g[i + 1] = g[i] /\ \A W : Bit(o \in Sources(W)) = 0
      BY <2>3, <2>6, PutQualityIs DEF Sources, Bit
    <3>2. \A W : Count(s, i, Sources(W)) \in Int
      BY <2>1, PlacesAreFinite
    <3>3. \A W : Count(g[i + 1], Len(g[i + 1]), W) = Count(s, i + 1, Sources(W))
      BY <2>2, <2>4, <3>1, <3>2
    <3> QED BY <2>1, <2>2, <3>1, <3>3 DEF T
  <2>7. CASE o.q # Refused
    <3>1. g[i + 1] = Append(g[i], x)
      BY <2>3, <2>7, PutQualityIs
    <3>2. \A W : Bit(o \in Sources(W)) = Bit(x \in W)
      BY <2>5, <2>7 DEF Sources, Bit
    <3>3. g[i + 1] \in Seq(Parts)
          /\ \A W : Count(g[i + 1], Len(g[i + 1]), W) = Count(g[i], Len(g[i]), W) + Bit(x \in W)
      <4> DEFINE t == g[i]
                 u == g[i + 1]
      <4>1. t \in Seq(Parts) /\ x \in Parts /\ u = Append(t, x)
        BY <2>2, <2>5, <3>1
      <4> HIDE DEF t, u, x
      <4>2. u \in Seq(Parts) /\ \A W : Count(u, Len(u), W) = Count(t, Len(t), W) + Bit(x \in W)
        BY Zenon, <4>1, CountAppended
      <4> QED BY <4>2 DEF t, u
    <3>4. \A W : Count(g[i + 1], Len(g[i + 1]), W) = Count(s, i + 1, Sources(W))
      BY <2>2, <2>4, <3>2, <3>3
    <3> QED BY <2>1, <3>3, <3>4 DEF T
  <2> QED BY <2>6, <2>7
<1> HIDE DEF T
<1>5. \A i \in 0 .. n : i \in T
  <2>1. 0 \in Int /\ n \in Int
    BY <1>0
  <2> QED BY Zenon, <1>3, <1>4, <2>1, Reading!UpTo
<1>6. n \in T
  BY <1>0, <1>5
<1> QED BY <1>2, <1>6 DEF T

LEMMA ReversedIsAlike == \A s \in Seq(Int) : Reverse(s) \in Seq(Int) /\ Alike(Reverse(s), s)
<1> SUFFICES ASSUME NEW s \in Seq(Int) PROVE Reverse(s) \in Seq(Int) /\ Alike(Reverse(s), s)
  OBVIOUS
<1> DEFINE n == Len(s)
           p == [i \in 1 .. n |-> (n - i) + 1]
           t == Reverse(s)
<1>1. n \in Nat
  OBVIOUS
<1>2. p \in [1 .. n -> 1 .. n] /\ \A i, j \in 1 .. n : p[i] = p[j] => i = j
  BY <1>1
<1>3. t \in Seq(Int) /\ Len(t) = n /\ \A i \in 1 .. n : t[i] = s[p[i]]
  BY DEF Reverse
<1> HIDE DEF p, t
<1>4. Alike(t, s)
  <2>1. IsShuffle(t, s, n, p)
    BY <1>1, <1>2, <1>3 DEF IsShuffle
  <2> QED BY Zenon, <2>1, CountShuffled
<1> QED BY <1>3, <1>4 DEF t

LEMMA SeqOfThese ==
    ASSUME NEW S, NEW T, NEW s \in Seq(S), \A i \in 1 .. Len(s) : s[i] \in T
    PROVE  s \in Seq(T)
OBVIOUS

\* u is s in another order, with the parameters of each offer in reverse.
IsReordered(u, s, p) ==
    /\ Len(u) = Len(s) /\ p \in [1 .. Len(s) -> 1 .. Len(s)]
    /\ \A i, j \in 1 .. Len(s) : p[i] = p[j] => i = j
    /\ \A i \in 1 .. Len(s) : u[i] = [s[p[i]] EXCEPT !.params = Reverse(@)]

LEMMA SameValue ==
    ASSUME NEW s \in Seq(Parts), NEW u, NEW p, IsReordered(u, s, p)
    PROVE  u \in Seq(Parts) => NormalizeWithQValues(u) = NormalizeWithQValues(s)
<1> SUFFICES ASSUME u \in Seq(Parts) PROVE NormalizeWithQValues(u) = NormalizeWithQValues(s)
  OBVIOUS
<1> DEFINE n == Len(s)
           v == [i \in 1 .. n |-> s[p[i]]]
<1>1. /\ n \in Nat /\ Len(u) = n /\ p \in [1 .. n -> 1 .. n]
      /\ \A i, j \in 1 .. n : p[i] = p[j] => i = j
      /\ \A i \in 1 .. n : s[i] \in Parts
  BY DEF IsReordered
<1>2. /\ v \in Seq(Parts) /\ Len(v) = n
      /\ \A i \in 1 .. n : v[i] = s[p[i]] /\ v[i] \in Parts
  <2>1. \A i \in 1 .. n : p[i] \in 1 .. n
    BY <1>1
  <2>2. v \in [1 .. n -> Parts]
    BY <1>1, <2>1
  <2>3. v \in Seq(Parts) /\ Len(v) = n
    <3> HIDE DEF v
    <3> QED BY Zenon, <1>1, <2>2, SeqIs
  <2> QED BY <1>1, <2>1, <2>3
<1>3. \A i \in 1 .. n : u[i] = [v[i] EXCEPT !.params = Reverse(@)]
  BY <1>2 DEF IsReordered
<1> HIDE DEF v
<1>4. Alike(v, s)
  <2>1. IsShuffle(v, s, n, p)
    BY <1>1, <1>2 DEF IsShuffle
  <2> QED BY Zenon, <2>1, CountShuffled
<1>5. ASSUME NEW i \in 1 .. n
      PROVE  u[i] \in Parts /\ u[i].q = v[i].q /\ PartOf(u[i]) = PartOf(v[i])
  <2>1. /\ v[i].main \in Mains /\ v[i].params \in Seq(Int) /\ v[i].q \in Int
        /\ v[i] = [main |-> v[i].main, params |-> v[i].params, q |-> v[i].q]
    BY <1>2 DEF Parts
  <2>2. u[i] = [main |-> v[i].main, params |-> Reverse(v[i].params), q |-> v[i].q]
    BY <1>3, <2>1
  <2>3. Reverse(v[i].params) \in Seq(Int) /\ Alike(Reverse(v[i].params), v[i].params)
    BY Zenon, <2>1, ReversedIsAlike
  <2>4. InOrder(Reverse(v[i].params), Ascending) = InOrder(v[i].params, Ascending)
    BY Zenon, <2>1, <2>3, SameNumbers
  <2>5. u[i].main = v[i].main /\ u[i].params = Reverse(v[i].params) /\ u[i].q = v[i].q
    BY <2>2
  <2>6. PartOf(u[i]) = PartOf(v[i])
    BY Zenon, <2>4, <2>5 DEF PartOf
  <2>7. u[i] \in Parts
    BY <2>1, <2>2, <2>3 DEF Parts
  <2> QED BY <2>5, <2>6, <2>7
<1>6. ASSUME NEW W PROVE Count(u, n, Sources(W)) = Count(v, n, Sources(W))
  <2>1. \A i \in 1 .. n : u[i] \in Sources(W) <=> v[i] \in Sources(W)
    BY <1>2, <1>5 DEF Sources
  <2>2. Places(u, n, Sources(W)) = Places(v, n, Sources(W))
    BY <2>1 DEF Places
  <2> QED BY <2>2 DEF Count
<1>7. Alike(QualityParts(u), QualityParts(s))
  <2>1. \A W : Count(u, Len(u), Sources(W)) = Count(s, Len(s), Sources(W))
    BY Zenon, <1>1, <1>2, <1>4, <1>6 DEF Alike
  <2> QED BY Zenon, <2>1, PartsOfOffers DEF Alike
<1>8. InOrder(QualityParts(u), RanksBefore) = InOrder(QualityParts(s), RanksBefore)
  BY Zenon, <1>7, PartsOfOffers, SameParts
<1> QED BY Zenon, <1>8 DEF NormalizeWithQValues

-----------------------------------------------------------------------------
LEMMA OffersAreParts ==
    \A o \in Offers : /\ o \in Parts /\ Alias(o.main) \in Mains
                      /\ o.q \in {Refused} \cup 0 .. MaxQ
<1> SUFFICES ASSUME NEW o \in Offers
             PROVE  /\ o \in Parts /\ Alias(o.main) \in Mains
                    /\ o.q \in {Refused} \cup 0 .. MaxQ
  OBVIOUS
<1>1. /\ o = [main |-> o.main, params |-> o.params, q |-> o.q]
      /\ o.params \in Seq(Int) /\ o.q \in {Refused} \cup 0 .. MaxQ
      /\ \A main \in {o.main, Alias(o.main)} : main \in Int /\ Wildcards(main) \in Nat
  BY Zenon, OffersAssumption
<1>2. o.main \in Mains /\ Alias(o.main) \in Mains
  BY <1>1 DEF Mains
<1>3. o.q \in Int
  <2>1. o.q \in {Refused} \cup 0 .. MaxQ
    BY Zenon, <1>1
  <2> QED BY <2>1 DEF Refused, MaxQ
<1>4. o \in Parts
  BY <1>1, <1>2, <1>3 DEF Parts
<1> QED BY <1>1, <1>2, <1>4

LEMMA AliasedIs ==
    ASSUME NEW s \in Seq(Parts), \A i \in 1 .. Len(s) : Alias(s[i].main) \in Mains
    PROVE  /\ Aliased(s) \in Seq(Parts) /\ Len(Aliased(s)) = Len(s)
           /\ \A i \in 1 .. Len(s) :
                Aliased(s)[i] = [main |-> Alias(s[i].main), params |-> s[i].params, q |-> s[i].q]
<1> DEFINE n == Len(s)
<1>1. n \in Nat /\ DOMAIN s = 1 .. n /\ \A i \in 1 .. n : s[i] \in Parts
  OBVIOUS
<1>2. \A i \in 1 .. n : s[i].params \in Seq(Int) /\ s[i].q \in Int
  BY Zenon, <1>1, PartFields
<1>3. Aliased(s) = [i \in 1 .. n |-> [main |-> Alias(s[i].main), params |-> s[i].params, q |-> s[i].q]]
  <2>1. \A i \in 1 .. n : [s[i] EXCEPT !.main = Alias(@)]
                          = [main |-> Alias(s[i].main), params |-> s[i].params, q |-> s[i].q]
    BY Zenon, <1>1, PartWith
  <2> QED BY Zenon, <1>1, <2>1 DEF Aliased
<1>4. Aliased(s) \in [1 .. n -> Parts]
  <2>1. \A m \in Mains, ps \in Seq(Int), q \in Int : [main |-> m, params |-> ps, q |-> q] \in Parts
    BY DEF Parts
  <2>2. \A i \in 1 .. n : [main |-> Alias(s[i].main), params |-> s[i].params, q |-> s[i].q] \in Parts
    BY Zenon, <1>2, <2>1
  <2> QED BY <1>3, <2>2
<1>5. Aliased(s) \in Seq(Parts) /\ Len(Aliased(s)) = n
  BY Zenon, <1>1, <1>4, SeqIs
<1> QED BY <1>3, <1>5

LEMMA SameValueForAll ==
    ASSUME NEW s \in Seq(Offers), NEW u \in Seq(Parts), NEW p, IsReordered(u, s, p),
           NEW class \in ClassesOf(s)
    PROVE  NormalizeHeaderValue(class, u) = NormalizeHeaderValue(class, s)
<1> DEFINE n == Len(s)
<1>1. n \in Nat /\ DOMAIN s = 1 .. n /\ \A i \in 1 .. n : s[i] \in Offers
  OBVIOUS
<1>2. \A i \in 1 .. n : s[i] \in Parts /\ Alias(s[i].main) \in Mains
  BY <1>1, OffersAreParts
<1>3. s \in Seq(Parts)
  BY <1>2
<1>4. /\ Len(u) = n /\ p \in [1 .. n -> 1 .. n] /\ \A i, j \in 1 .. n : p[i] = p[j] => i = j
      /\ \A i \in 1 .. n : p[i] \in 1 .. n /\ u[i] = [s[p[i]] EXCEPT !.params = Reverse(@)]
  BY DEF IsReordered
<1>5. \A i \in 1 .. n : u[i] = [main |-> s[p[i]].main, params |-> Reverse(s[p[i]].params), q |-> s[p[i]].q]
  <2> SUFFICES ASSUME NEW i \in 1 .. n
               PROVE  u[i] = [main |-> s[p[i]].main, params |-> Reverse(s[p[i]].params), q |-> s[p[i]].q]
    OBVIOUS
  <2>1. s[p[i]] \in Parts
    BY <1>2, <1>4
  <2>2. u[i] = [s[p[i]] EXCEPT !.params = Reverse(@)]
    BY <1>4
  <2> QED BY Zenon, <2>1, <2>2, PartWith
<1>6. NormalizeWithQValues(u) = NormalizeWithQValues(s)
  BY Zenon, <1>3, SameValue
<1>7. NormalizeWithQValues(Aliased(u)) = NormalizeWithQValues(Aliased(s))
  <2>0. \A i \in 1 .. n : u[i].main = s[p[i]].main
    <3> SUFFICES ASSUME NEW i \in 1 .. n PROVE u[i].main = s[p[i]].main
      OBVIOUS
    <3> DEFINE o == s[p[i]]
               w == u[i]
    <3>1. w = [main |-> o.main, params |-> Reverse(o.params), q |-> o.q]
      BY Zenon, <1>5
    <3> HIDE DEF o, w
    <3>2. w.main = o.main
      BY <3>1
    <3> QED BY <3>2 DEF o, w
  <2>1. \A i \in 1 .. Len(u) : Alias(u[i].main) \in Mains
    BY Zenon, <1>2, <1>4, <2>0
  <2>2. /\ Aliased(u) \in Seq(Parts) /\ Len(Aliased(u)) = n
        /\ \A i \in 1 .. n : Aliased(u)[i]
             = [main |-> Alias(u[i].main), params |-> u[i].params, q |-> u[i].q]
    BY <1>4, <2>1, AliasedIs
  <2>3. /\ Aliased(s) \in Seq(Parts) /\ Len(Aliased(s)) = n
        /\ \A i \in 1 .. n : Aliased(s)[i]
             = [main |-> Alias(s[i].main), params |-> s[i].params, q |-> s[i].q]
    BY Zenon, <1>2, <1>3, AliasedIs
  <2>4. ASSUME NEW i \in 1 .. n
        PROVE  Aliased(u)[i] = [Aliased(s)[p[i]] EXCEPT !.params = Reverse(@)]
    <3> DEFINE o == s[p[i]]
               a == Aliased(s)[p[i]]
    <3>1. u[i].main = o.main /\ u[i].params = Reverse(o.params) /\ u[i].q = o.q
      <4> DEFINE w == u[i]
      <4>1. w = [main |-> o.main, params |-> Reverse(o.params), q |-> o.q]
        BY Zenon, <1>5
      <4> HIDE DEF o, w
      <4>2. w.main = o.main /\ w.params = Reverse(o.params) /\ w.q = o.q
        BY <4>1
      <4> QED BY <4>2 DEF w
    <3>2. a = [main |-> Alias(o.main), params |-> o.params, q |-> o.q] /\ a \in Parts
      BY <1>4, <2>3
    <3>3. Aliased(u)[i] = [main |-> Alias(o.main), params |-> Reverse(o.params), q |-> o.q]
      BY Zenon, <2>2, <3>1
    <3> HIDE DEF o, a
    <3>4. a.main = Alias(o.main) /\ a.params = o.params /\ a.q = o.q
      BY <3>2
    <3>5. [a EXCEPT !.params = Reverse(@)] = [main |-> a.main, params |-> Reverse(a.params), q |-> a.q]
      BY Zenon, <3>2, PartWith
    <3>6. Aliased(u)[i] = [a EXCEPT !.params = Reverse(@)]
      BY Zenon, <3>3, <3>4, <3>5
    <3> QED BY <3>6 DEF a
  <2>5. IsReordered(Aliased(u), Aliased(s), p)
    BY <1>4, <2>2, <2>3, <2>4 DEF IsReordered
  <2> QED BY Zenon, <2>2, <2>3, <2>5, SameValue
<1>8. CASE class = "qvalue"
  BY Zenon, <1>6, <1>8 DEF NormalizeHeaderValue
<1>9. CASE class = "encoding"
  BY Zenon, <1>7, <1>9 DEF NormalizeHeaderValue
<1>10. CASE class \in {"list", "content"}
  <2>1. \A i \in 1 .. n : IsPlain(s[i])
    <3>1. "list" \notin {"qvalue", "encoding"} /\ "content" \notin {"qvalue", "encoding"}
      BY Zenon
    <3> QED BY Zenon, <1>1, <1>10, <3>1 DEF ClassesOf
  <2>2. ASSUME NEW i \in 1 .. n PROVE u[i] = s[p[i]]
    <3>1. /\ s[p[i]] \in Parts /\ s[p[i]].params = <<>>
          /\ s[p[i]] = [main |-> s[p[i]].main, params |-> s[p[i]].params, q |-> s[p[i]].q]
      BY <1>2, <1>4, <2>1 DEF IsPlain, Parts
    <3>2. Reverse(<<>>) = <<>>
      BY DEF Reverse
    <3> QED BY <1>5, <3>1, <3>2
  <2>3. Alike(u, s)
    <3>1. IsShuffle(u, s, n, p)
      BY <1>1, <1>4, <2>2 DEF IsShuffle
    <3> QED BY Zenon, <3>1, CountShuffled
  <2>4. \A i \in 1 .. n : s[i] \in Plains /\ u[i] \in Plains
    BY <1>2, <1>4, <2>1, <2>2 DEF Plains
  <2>5. s \in Seq(Plains) /\ u \in Seq(Plains)
    BY Zenon, <1>3, <1>4, <2>4, SeqOfThese
  <2>6. InOrder(u, MainsAscending) = InOrder(s, MainsAscending)
    BY Zenon, <2>3, <2>5, SameMains
  <2>7. InOrder(Aliased(u), MainsAscending) = InOrder(Aliased(s), MainsAscending)
    <3>1. /\ Aliased(u) \in Seq(Parts) /\ Len(Aliased(u)) = n
          /\ \A i \in 1 .. n : Aliased(u)[i]
               = [main |-> Alias(u[i].main), params |-> u[i].params, q |-> u[i].q]
      BY <1>2, <1>4, <2>2, AliasedIs
    <3>2. /\ Aliased(s) \in Seq(Parts) /\ Len(Aliased(s)) = n
          /\ \A i \in 1 .. n : Aliased(s)[i]
               = [main |-> Alias(s[i].main), params |-> s[i].params, q |-> s[i].q]
      BY Zenon, <1>2, <1>3, AliasedIs
    <3>3. \A i \in 1 .. n : Aliased(u)[i] = Aliased(s)[p[i]]
      <4> SUFFICES ASSUME NEW i \in 1 .. n PROVE Aliased(u)[i] = Aliased(s)[p[i]]
        OBVIOUS
      <4>1. p[i] \in 1 .. n
        BY <1>4
      <4>2. u[i] = s[p[i]]
        BY <2>2
      <4>3. Aliased(s)[p[i]] = [main |-> Alias(s[p[i]].main), params |-> s[p[i]].params, q |-> s[p[i]].q]
        BY Zenon, <3>2, <4>1
      <4> QED BY Zenon, <3>1, <4>2, <4>3
    <3>4. Alike(Aliased(u), Aliased(s))
      <4>1. IsShuffle(Aliased(u), Aliased(s), n, p)
        BY <1>1, <1>4, <3>1, <3>2, <3>3 DEF IsShuffle
      <4> QED BY Zenon, <4>1, CountShuffled
    <3>5. \A i \in 1 .. n : Aliased(s)[i] \in Plains
      <4> SUFFICES ASSUME NEW i \in 1 .. n PROVE Aliased(s)[i] \in Plains
        OBVIOUS
      <4> DEFINE a == Aliased(s)[i]
      <4>1. a \in Parts
        BY <3>2
      <4>2. a.params = s[i].params /\ a.q = s[i].q
        <5> DEFINE o == s[i]
        <5>1. a = [main |-> Alias(o.main), params |-> o.params, q |-> o.q]
          BY Zenon, <3>2
        <5> HIDE DEF a, o
        <5>2. a.params = o.params /\ a.q = o.q
          BY <5>1
        <5> QED BY <5>2 DEF o
      <4>3. IsPlain(a)
        BY Zenon, <2>1, <4>2 DEF IsPlain
      <4> QED BY Zenon, <4>1, <4>3 DEF Plains
    <3>6. \A i \in 1 .. n : Aliased(u)[i] \in Plains
      BY Zenon, <1>4, <3>3, <3>5
    <3>7. Aliased(s) \in Seq(Plains) /\ Aliased(u) \in Seq(Plains)
      BY Zenon, <3>1, <3>2, <3>5, <3>6, SeqOfThese
    <3> QED BY Zenon, <3>4, <3>7, SameMains
  <2> QED BY Zenon, <1>10, <2>6, <2>7 DEF NormalizeHeaderValue
<1>11. class \in {"qvalue", "encoding", "list", "content"}
  BY Zenon DEF ClassesOf
<1> QED BY Zenon, <1>8, <1>9, <1>10, <1>11

LEMMA OrderOfOffers == Written => OrderHasNoMeaning
<1> SUFFICES ASSUME Written, input.kind = "offers",
                    NEW class \in ClassesOf(input.items), NEW other \in Shuffled(input.items)
             PROVE  LET u == [i \in DOMAIN other |-> [other[i] EXCEPT !.params = Reverse(@)]]
                    IN  NormalizeHeaderValue(class, u) = NormalizeHeaderValue(class, input.items)
  BY Zenon DEF OrderHasNoMeaning
<1> DEFINE s == input.items
           u == [i \in DOMAIN other |-> [other[i] EXCEPT !.params = Reverse(@)]]
<1>1. s \in Seq(Offers)
  <2>1. Items["offers"] = Offers
    BY DEF Items
  <2> QED BY Zenon, <2>1 DEF Written
<1> HIDE DEF s
<1> DEFINE n == Len(s)
<1>2. n \in Nat /\ DOMAIN s = 1 .. n /\ \A i \in 1 .. n : s[i] \in Offers
  BY <1>1
<1>3. PICK p \in [1 .. n -> 1 .. n] : /\ other = [i \in 1 .. n |-> s[p[i]]]
                                      /\ \A i, j \in 1 .. n : p[i] = p[j] => i = j
  BY Zenon, <1>2 DEF Shuffled, s
<1>4. DOMAIN other = 1 .. n /\ \A i \in 1 .. n : other[i] = s[p[i]] /\ other[i] \in Parts
  BY <1>2, <1>3, OffersAreParts
<1>5. \A i \in 1 .. n : u[i] = [s[p[i]] EXCEPT !.params = Reverse(@)]
  BY <1>4
<1>6. u \in [1 .. n -> Parts]
  <2>1. \A m \in Mains, ps \in Seq(Int), q \in Int : [main |-> m, params |-> ps, q |-> q] \in Parts
    BY DEF Parts
  <2>2. ASSUME NEW o \in Parts PROVE [o EXCEPT !.params = Reverse(@)] \in Parts
    <3>1. o.main \in Mains /\ Reverse(o.params) \in Seq(Int) /\ o.q \in Int
      BY Zenon, PartFields, ReversedIsAlike
    <3>2. [o EXCEPT !.params = Reverse(@)]
          = [main |-> o.main, params |-> Reverse(o.params), q |-> o.q]
      BY Zenon, PartWith
    <3>3. [main |-> o.main, params |-> Reverse(o.params), q |-> o.q] \in Parts
      BY Zenon, <2>1, <3>1
    <3> QED BY Zenon, <3>2, <3>3
  <2>3. \A i \in 1 .. n : [other[i] EXCEPT !.params = Reverse(@)] \in Parts
    BY Zenon, <1>4, <2>2
  <2> QED BY <1>4, <2>3
<1> HIDE DEF u
<1>7. u \in Seq(Parts) /\ Len(u) = n
  BY Zenon, <1>2, <1>6, SeqIs
<1>8. IsReordered(u, s, p)
  BY Zenon, <1>3, <1>5, <1>7 DEF IsReordered
<1> QED BY Zenon, <1>1, <1>7, <1>8, SameValueForAll DEF s, u

(***************************************************************************)
(* For all offers, of any number and in any order, with their parameters   *)
(* in any order too, and for every class of fields: the value that names   *)
(* the variant is the same.                                                *)
(***************************************************************************)
THEOREM OrderIgnored == Spec => []OrderHasNoMeaning
<1>1. Written => OrderHasNoMeaning
  BY Zenon, OrderOfOffers
<1> QED BY <1>1, AlwaysWritten, PTL

-----------------------------------------------------------------------------
\* What is in s is in t.
Within(s, t) == \A i \in 1 .. Len(s) : \E j \in 1 .. Len(t) : t[j] = s[i]

LEMMA AlikeElements ==
    \A s, t : Len(s) \in Nat /\ Len(t) \in Nat /\ Alike(s, t)
              => Within(s, t)
<1> SUFFICES ASSUME NEW s, NEW t, Len(s) \in Nat, Len(t) \in Nat, Alike(s, t),
                    NEW i \in 1 .. Len(s), \A j \in 1 .. Len(t) : t[j] # s[i]
             PROVE  FALSE
  BY DEF Within
<1> DEFINE W == {s[i]}
<1>1. Places(t, Len(t), W) = {}
  BY DEF Places
<1>2. i \in Places(s, Len(s), W)
  BY DEF Places
<1> HIDE DEF W
<1>3. Count(t, Len(t), W) = 0
  BY <1>1, FS_EmptySet DEF Count
<1>4. Count(s, Len(s), W) = 0
  BY <1>3 DEF Alike
<1>5. IsFiniteSet(Places(s, Len(s), W))
  BY PlacesAreFinite
<1>6. Places(s, Len(s), W) = {}
  BY Zenon, <1>4, <1>5, FS_EmptySet DEF Count
<1> QED BY <1>2, <1>6

\* What is at one place at most in s is at one place at most in t.
LEMMA AlikeSingles ==
    ASSUME NEW s, NEW t, Len(s) \in Nat, Len(t) \in Nat, Alike(s, t), NEW W,
           \A i, j \in 1 .. Len(s) : s[i] \in W /\ s[j] \in W => i = j,
           NEW i \in 1 .. Len(t), NEW j \in 1 .. Len(t), t[i] \in W, t[j] \in W
    PROVE  i = j
<1> SUFFICES ASSUME i # j PROVE FALSE
  OBVIOUS
<1> DEFINE A == Places(s, Len(s), W)
           B == Places(t, Len(t), W)
<1>1. IsFiniteSet(A) /\ IsFiniteSet(B)
  BY PlacesAreFinite
<1>2. i \in B /\ j \in B
  BY DEF Places
<1>3. \A k, l \in A : k = l
  BY DEF Places
<1>4. Cardinality(A) = Cardinality(B)
  BY DEF Alike, Count
<1> HIDE DEF A, B
<1>5. B # {}
  BY <1>2
<1>6. Cardinality(B) # 0
  BY <1>1, <1>5, FS_EmptySet
<1>7. A # {}
  BY <1>1, <1>4, <1>6, FS_EmptySet
<1>8. \E k : A = {k}
  <2>1. PICK k : k \in A
    BY <1>7
  <2>2. A = {k}
    BY <1>3, <2>1
  <2> QED BY <2>2
<1>9. Cardinality(B) = 1
  BY <1>1, <1>4, <1>8, FS_Singleton
<1>10. \E k : B = {k}
  BY <1>1, <1>9, FS_Singleton
<1> QED BY <1>2, <1>10

\* Without neighbours of one main nothing is dropped.
LEMMA CompactKeeps ==
    ASSUME NEW s \in Seq(Parts), \A i, j \in 1 .. Len(s) : s[i].main = s[j].main => i = j
    PROVE  Compact(s) = s
<1> DEFINE n == Len(s)
           g == [i \in 0 .. n |-> SubSeq(s, 1, i)]
<1>1. n \in Nat /\ DOMAIN s = 1 .. n /\ SubSeq(s, 1, 0) = <<>> /\ SubSeq(s, 1, n) = s
  OBVIOUS
<1>2. ASSUME NEW i \in 1 .. n PROVE g[i] = PutUnlessRepeated(g[i - 1], s[i])
  <2> DEFINE t == SubSeq(s, 1, i - 1)
  <2>1. g[i] = SubSeq(s, 1, i) /\ g[i - 1] = t
    BY <1>1
  <2>2. SubSeq(s, 1, i) = Append(t, s[i])
    OBVIOUS
  <2>3. t # <<>> => Last(t).main # s[i].main
    <3>1. CASE i = 1
      BY <3>1
    <3>2. CASE i # 1
      <4>1. Len(t) = i - 1 /\ t[i - 1] = s[i - 1] /\ i - 1 \in 1 .. n
        BY <3>2
      <4>2. Last(t) = s[i - 1]
        BY <4>1 DEF Last
      <4> QED BY <1>1, <4>1, <4>2
    <3> QED BY <3>1, <3>2
  <2> HIDE DEF t, g
  <2> QED BY Zenon, <2>1, <2>2, <2>3 DEF PutUnlessRepeated
<1>3. g[0] = <<>> /\ g[n] = s
  BY <1>1
<1> HIDE DEF g
<1>4. Compacting!IsRun(g, <<>>, s, n)
  BY Zenon, <1>1, <1>2, <1>3 DEF Compacting!IsRun
<1>5. Compacting!Fold(<<>>, s) = g[n]
  <2>1. n \in Nat
    OBVIOUS
  <2> HIDE DEF n
  <2> QED BY <1>4, <2>1, Compacting!FoldBy
<1> QED BY Zenon, <1>3, <1>5, CompactingIs

\* Offers of no quality zero all become parts.
LEMMA AllOffersCount ==
    ASSUME NEW s \in Seq(Parts), \A i \in 1 .. Len(s) : s[i].q # Refused
    PROVE  QualityParts(s) = [i \in 1 .. Len(s) |-> PartOf(s[i])]
<1> DEFINE n == Len(s)
           f == [i \in 1 .. n |-> PartOf(s[i])]
           g == [i \in 0 .. n |-> SubSeq(f, 1, i)]
<1>1. n \in Nat /\ DOMAIN s = 1 .. n /\ \A i \in 1 .. n : s[i] \in Parts
  OBVIOUS
<1>2. f \in [1 .. n -> Parts]
  BY Zenon, <1>1, PartIsPart
<1>3. \A i \in 1 .. n : f[i] = PartOf(s[i])
  OBVIOUS
<1> HIDE DEF f
<1>4. f \in Seq(Parts) /\ Len(f) = n
  BY Zenon, <1>1, <1>2, SeqIs
<1>5. SubSeq(f, 1, 0) = <<>> /\ SubSeq(f, 1, n) = f
  BY <1>1, <1>4
<1>6. ASSUME NEW i \in 1 .. n PROVE g[i] = PutQuality(g[i - 1], s[i])
  <2> DEFINE t == SubSeq(f, 1, i - 1)
  <2>1. g[i] = SubSeq(f, 1, i) /\ g[i - 1] = t
    BY <1>1
  <2>2. SubSeq(f, 1, i) = Append(t, f[i])
    BY <1>4
  <2> HIDE DEF t, g
  <2> QED BY Zenon, <1>3, <2>1, <2>2, PutQualityIs
<1>7. g[0] = <<>> /\ g[n] = f
  BY <1>1, <1>5
<1> HIDE DEF g
<1>8. Qualifying!IsRun(g, <<>>, s, n)
  BY Zenon, <1>1, <1>6, <1>7 DEF Qualifying!IsRun
<1>9. Qualifying!Fold(<<>>, s) = g[n]
  BY Zenon, <1>1, <1>8, Qualifying!FoldBy
<1> QED BY Zenon, <1>7, <1>9, QualifyingIs DEF f

LEMMA ClampKeeps == \A q \in {Refused} \cup 0 .. MaxQ : q \notin {Refused, 0} => Clamp(q) = q
BY DEF Clamp, Refused, MinQ, MaxQ

LEMMA OffersStay == Written => OffersSurvive
<1> DEFINE s == input.items
           n == Len(s)
           kept == NormalizeHeaderValue("qvalue", s)
           whole(i) == [main   |-> s[i].main,
                        params |-> InOrder(s[i].params, Ascending),
                        q      |-> s[i].q]
<1> SUFFICES ASSUME Written, input.kind = "offers",
                    \A i \in DOMAIN s : s[i].q \notin {Refused, 0},
                    \A i, j \in DOMAIN s : s[i].main = s[j].main => i = j
             PROVE  { kept[i] : i \in DOMAIN kept } = { whole(i) : i \in DOMAIN s }
  BY Zenon DEF OffersSurvive
<1>1. s \in Seq(Offers)
  <2>1. Items["offers"] = Offers
    BY DEF Items
  <2> QED BY Zenon, <2>1 DEF Written
<1>2. \A i \in DOMAIN s : s[i].q \notin {Refused, 0}
  OBVIOUS
<1>3. \A i, j \in DOMAIN s : s[i].main = s[j].main => i = j
  OBVIOUS
<1> HIDE DEF s
<1>4. n \in Nat /\ DOMAIN s = 1 .. n /\ \A i \in 1 .. n : s[i] \in Offers
  BY <1>1
<1>5. s \in Seq(Parts)
  BY <1>1, <1>4, OffersAreParts
<1> DEFINE f == [i \in 1 .. n |-> PartOf(s[i])]
<1>6. QualityParts(s) = f
  BY Zenon, <1>2, <1>4, <1>5, AllOffersCount
<1>7. \A i \in 1 .. n : f[i] = whole(i) /\ f[i].main = s[i].main /\ f[i] \in Parts
  <2> SUFFICES ASSUME NEW i \in 1 .. n
               PROVE  f[i] = whole(i) /\ f[i].main = s[i].main /\ f[i] \in Parts
    OBVIOUS
  <2>1. s[i].q \in {Refused} \cup 0 .. MaxQ /\ s[i].q \notin {Refused, 0} /\ s[i] \in Parts
    BY Zenon, <1>2, <1>4, OffersAreParts
  <2>2. Clamp(s[i].q) = s[i].q
    BY Zenon, <2>1, ClampKeeps
  <2>3. PartOf(s[i]) \in Parts
    BY Zenon, <2>1, PartIsPart
  <2>4. PartOf(s[i]).main = s[i].main
    BY DEF PartOf
  <2> QED BY Zenon, <2>2, <2>3, <2>4 DEF PartOf
<1> HIDE DEF f
<1> DEFINE t == InOrder(f, RanksBefore)
<1>8. f \in Seq(Parts) /\ Len(f) = n
  <2>1. f \in [1 .. n -> Parts]
    BY Zenon, <1>7 DEF f
  <2> QED BY Zenon, <1>4, <2>1, SeqIs
<1>9. t \in Seq(Parts) /\ Alike(t, f)
  BY Zenon, <1>8, PartsSorted
<1>10. Len(t) \in Nat /\ DOMAIN t = 1 .. Len(t) /\ \A i \in 1 .. Len(t) : t[i] \in Parts
  BY <1>9
<1> HIDE DEF t
<1>11. \A i, j \in 1 .. Len(t) : t[i].main = t[j].main => i = j
  <2> SUFFICES ASSUME NEW i \in 1 .. Len(t), NEW j \in 1 .. Len(t), t[i].main = t[j].main
               PROVE  i = j
    OBVIOUS
  <2> DEFINE W == { o \in Parts : o.main = t[i].main }
  <2>1. t[i] \in W /\ t[j] \in W
    BY <1>10
  <2>2. \A k, l \in 1 .. Len(f) : f[k] \in W /\ f[l] \in W => k = l
    <3> SUFFICES ASSUME NEW k \in 1 .. Len(f), NEW l \in 1 .. Len(f), f[k] \in W, f[l] \in W
                 PROVE  k = l
      OBVIOUS
    <3>1. f[k].main = f[l].main
      BY Zenon
    <3>2. k \in 1 .. n /\ l \in 1 .. n
      BY Zenon, <1>8
    <3>3. f[k].main = s[k].main /\ f[l].main = s[l].main
      BY Zenon, <1>7, <3>2
    <3>4. s[k].main = s[l].main
      BY Zenon, <3>1, <3>3
    <3> QED BY Zenon, <1>3, <1>4, <3>2, <3>4
  <2> HIDE DEF W
  <2>3. Alike(f, t) /\ Len(f) \in Nat
    BY Zenon, <1>4, <1>8, <1>9, AlikeBothWays
  <2> QED BY <1>10, <2>1, <2>2, <2>3, AlikeSingles
<1>12. kept = t
  <2>1. Compact(t) = t
    BY Zenon, <1>9, <1>11, CompactKeeps
  <2> QED BY Zenon, <1>6, <2>1 DEF NormalizeHeaderValue, NormalizeWithQValues, t
<1>13. \A x : (\E i \in 1 .. Len(t) : t[i] = x) <=> (\E i \in 1 .. Len(f) : f[i] = x)
  <2>1. Len(t) \in Nat /\ Len(f) \in Nat /\ Alike(t, f) /\ Alike(f, t)
    BY Zenon, <1>4, <1>8, <1>9, <1>10, AlikeBothWays
  <2>2. Within(t, f) /\ Within(f, t)
    BY Zenon, <2>1, AlikeElements
  <2>3. \A x : (\E i \in 1 .. Len(t) : t[i] = x) => (\E i \in 1 .. Len(f) : f[i] = x)
    BY <2>2 DEF Within
  <2>4. \A x : (\E i \in 1 .. Len(f) : f[i] = x) => (\E i \in 1 .. Len(t) : t[i] = x)
    BY <2>2 DEF Within
  <2> QED BY Zenon, <2>3, <2>4
<1> HIDE DEF kept
<1>14. \A x : x \in { kept[i] : i \in DOMAIN kept } <=> \E i \in 1 .. Len(t) : t[i] = x
  BY Zenon, <1>10, <1>12
<1> HIDE DEF whole
<1>15. \A x : x \in { whole(i) : i \in DOMAIN s } <=> \E i \in 1 .. Len(f) : f[i] = x
  <2>1. DOMAIN s = 1 .. Len(f)
    BY <1>4, <1>8
  <2>2. \A i \in DOMAIN s : f[i] = whole(i)
    BY Zenon, <1>4, <1>7
  <2> HIDE DEF n
  <2> QED BY <2>1, <2>2
<1>16. \A x : x \in { kept[i] : i \in DOMAIN kept } <=> x \in { whole(i) : i \in DOMAIN s }
  BY Zenon, <1>13, <1>14, <1>15
<1> QED BY Zenon, <1>16

(***************************************************************************)
(* For all offers, of any number, whose mains differ and whose qualities   *)
(* are not zero: the value has exactly their mains, parameters and         *)
(* qualities.                                                              *)
(***************************************************************************)
THEOREM OffersKept == Spec => []OffersSurvive
<1>1. Written => OffersSurvive
  BY Zenon, OffersStay
<1> QED BY <1>1, AlwaysWritten, PTL

=============================================================================
