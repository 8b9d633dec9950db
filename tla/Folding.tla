------------------------------- MODULE Folding -------------------------------
(***************************************************************************)
(* Induction over numbers, and what follows from it for FoldLeft and       *)
(* FlattenSeq: how a loop over a sequence ends is known from a function    *)
(* that gives its state after each element.  Step is the body of the loop. *)
(***************************************************************************)
EXTENDS Integers, Sequences, Folds, WellFoundedInduction, TLAPS

CONSTANT Step(_, _)

-----------------------------------------------------------------------------
(***************************************************************************)
(* A property of numbers is given as the set of those that have it: the    *)
(* provers cannot instantiate an operator, but they can a set.             *)
(***************************************************************************)
LEMMA Least ==
    ASSUME NEW T, T \subseteq Nat, T # {}
    PROVE  \E x \in T : \A y \in T : x <= y
<1> DEFINE R == OpToRel(<, Nat)
<1>1. \A x, y \in Nat : x < y => <<x, y>> \in R
  BY DEF OpToRel
<1>2. IsWellFoundedOn(R, Nat)
  BY NatLessThanWellFounded
<1> HIDE DEF R
<1>3. PICK x \in T : \A y \in T : ~ (<<y, x>> \in R)
  BY <1>2, WFMin
<1>4. ASSUME NEW y \in T PROVE ~ (y < x)
  BY <1>1, <1>3
<1>5. \A y \in T : x <= y
  BY <1>4
<1> QED BY <1>5

LEMMA Induction ==
    ASSUME NEW T, 0 \in T, \A n \in Nat : n \in T => n + 1 \in T
    PROVE  \A n \in Nat : n \in T
<1> DEFINE D == Nat \ T
<1>1. CASE D # {}
  <2>1. PICK x \in D : \A y \in D : x <= y
    BY <1>1, Least
  <2>2. x # 0 /\ x - 1 \in Nat /\ x - 1 \notin D
    BY <2>1
  <2> QED BY <2>2
<1> QED BY <1>1

\* What holds at the first number and is passed on holds up to the last.
LEMMA UpTo ==
    ASSUME NEW m \in Int, NEW n \in Int, NEW T, m \in T,
           \A i \in m .. n - 1 : i \in T => i + 1 \in T
    PROVE  \A i \in m .. n : i \in T
<1> DEFINE U == { k \in Nat : m + k <= n => m + k \in T }
<1>1. 0 \in U
  OBVIOUS
<1>2. \A k \in Nat : k \in U => k + 1 \in U
  OBVIOUS
<1> HIDE DEF U
<1>3. \A k \in Nat : k \in U
  BY <1>1, <1>2, Induction
<1>4. ASSUME NEW i \in m .. n PROVE i \in T
  <2>1. i - m \in U
    BY <1>3
  <2> QED BY <2>1 DEF U
<1> QED BY <1>4

-----------------------------------------------------------------------------
(***************************************************************************)
(* FoldLeft is defined by recursion over the sets of indices.              *)
(***************************************************************************)
Largest(t) == CHOOSE i \in t : \A j \in t : i >= j

Fold(base, s) ==
    MapThenFoldSet(LAMBDA x, y : Step(y, x), base, LAMBDA i : s[i], Largest, DOMAIN s)

IsFold(f, base, s, n) ==
    f = [t \in SUBSET (1 .. n) |->
           IF t = {} THEN base ELSE Step(f[t \ {Largest(t)}], s[Largest(t)])]

TheFold(base, s, n) == CHOOSE f : IsFold(f, base, s, n)

LEMMA FoldIs ==
    ASSUME NEW base, NEW s, NEW n \in Nat, DOMAIN s = 1 .. n
    PROVE  Fold(base, s) = TheFold(base, s, n)[1 .. n]
BY DEF Fold, MapThenFoldSet, TheFold, IsFold

LEMMA LargestUpTo == \A n \in Nat : n # 0 => Largest(1 .. n) = n /\ (1 .. n) \ {n} = 1 .. n - 1
<1> SUFFICES ASSUME NEW n \in Nat, n # 0 PROVE Largest(1 .. n) = n /\ (1 .. n) \ {n} = 1 .. n - 1
  OBVIOUS
<1>1. \A x \in 1 .. n : (\A y \in 1 .. n : x >= y) <=> x = n
  OBVIOUS
<1> QED BY <1>1 DEF Largest

LEMMA LargestOfSubset ==
    ASSUME NEW n \in Nat, NEW t \in SUBSET (1 .. n + 1), n + 1 \in t
    PROVE  Largest(t) = n + 1 /\ t \ {n + 1} \in SUBSET (1 .. n)
<1>1. \A x \in t : (\A y \in t : x >= y) <=> x = n + 1
  OBVIOUS
<1>2. Largest(t) = n + 1
  BY <1>1 DEF Largest
<1>3. t \ {n + 1} \in SUBSET (1 .. n)
  OBVIOUS
<1> QED BY <1>2, <1>3

LEMMA FoldExists ==
    ASSUME NEW base, NEW s, NEW n \in Nat
    PROVE  IsFold(TheFold(base, s, n), base, s, n)
<1> DEFINE T == { m \in Nat : \E f : IsFold(f, base, s, m) }
<1>1. 0 \in T
  <2>1. IsFold([t \in SUBSET (1 .. 0) |-> base], base, s, 0)
    <3>1. SUBSET (1 .. 0) = {{}}
      OBVIOUS
    <3> QED BY <3>1 DEF IsFold
  <2> QED BY <2>1
<1>2. ASSUME NEW m \in Nat, m \in T PROVE m + 1 \in T
  <2>1. PICK f : IsFold(f, base, s, m)
    BY <1>2
  <2> DEFINE g == [t \in SUBSET (1 .. m + 1) |->
                     IF m + 1 \in t THEN Step(f[t \ {m + 1}], s[m + 1]) ELSE f[t]]
  <2>2. ASSUME NEW t \in SUBSET (1 .. m + 1)
        PROVE  g[t] = IF t = {} THEN base ELSE Step(g[t \ {Largest(t)}], s[Largest(t)])
    <3>1. CASE m + 1 \in t
      <4>1. Largest(t) = m + 1 /\ t \ {m + 1} \in SUBSET (1 .. m)
        BY <3>1, LargestOfSubset
      <4>2. g[t \ {m + 1}] = f[t \ {m + 1}]
        BY <4>1
      <4> QED BY <3>1, <4>1, <4>2
    <3>2. CASE m + 1 \notin t
      <4>1. t \in SUBSET (1 .. m)
        BY <3>2
      <4>2. f[t] = IF t = {} THEN base ELSE Step(f[t \ {Largest(t)}], s[Largest(t)])
        BY <2>1, <4>1 DEF IsFold
      <4>3. t \ {Largest(t)} \in SUBSET (1 .. m + 1) /\ m + 1 \notin t \ {Largest(t)}
        BY <3>2
      <4>4. g[t] = f[t] /\ g[t \ {Largest(t)}] = f[t \ {Largest(t)}]
        BY <3>2, <4>3
      <4> QED BY <4>2, <4>4
    <3> QED BY <3>1, <3>2
  <2>3. IsFold(g, base, s, m + 1)
    <3>1. g = [t \in SUBSET (1 .. m + 1) |-> g[t]]
      OBVIOUS
    <3> HIDE DEF g
    <3> QED BY <2>2, <3>1 DEF IsFold
  <2>4. \E h : IsFold(h, base, s, m + 1)
    BY <2>3
  <2> QED BY <2>4
<1> HIDE DEF T
<1>3. n \in T
  BY <1>1, <1>2, Induction
<1>4. \E f : IsFold(f, base, s, n)
  BY <1>3 DEF T
<1> QED BY <1>4 DEF TheFold

\* g[i] is the state of the loop after i elements.
IsRun(g, base, s, n) ==
    /\ DOMAIN s = 1 .. n /\ g[0] = base
    /\ \A i \in 1 .. n : g[i] = Step(g[i - 1], s[i])

(***************************************************************************)
(* The loop ends in the last state of a run.                               *)
(***************************************************************************)
LEMMA FoldBy ==
    ASSUME NEW base, NEW s, NEW n \in Nat, NEW g, IsRun(g, base, s, n)
    PROVE  Fold(base, s) = g[n]
<1> DEFINE f == TheFold(base, s, n)
           T == { i \in 0 .. n : f[1 .. i] = g[i] }
<1>1. IsFold(f, base, s, n)
  BY FoldExists
<1> HIDE DEF f
<1>2. 0 \in T
  <2>1. 1 .. 0 = {} /\ {} \in SUBSET (1 .. n)
    OBVIOUS
  <2>2. f[{}] = base
    BY <1>1, <2>1 DEF IsFold
  <2> QED BY <2>1, <2>2 DEF IsRun
<1>3. \A i \in 0 .. n - 1 : i \in T => i + 1 \in T
  <2> SUFFICES ASSUME NEW i \in 0 .. n - 1, i \in T PROVE i + 1 \in T
    OBVIOUS
  <2> DEFINE t == 1 .. i + 1
  <2>1. t \in SUBSET (1 .. n) /\ i + 1 \in t
    OBVIOUS
  <2>2. i + 1 \in Nat /\ i + 1 # 0 /\ (i + 1) - 1 = i
    OBVIOUS
  <2>3. Largest(t) = i + 1 /\ t \ {i + 1} = 1 .. i
    BY <2>2, LargestUpTo
  <2> HIDE DEF t
  <2>4. f[t] = Step(f[t \ {Largest(t)}], s[Largest(t)])
    BY <1>1, <2>1 DEF IsFold
  <2>5. f[t] = Step(f[1 .. i], s[i + 1])
    BY <2>3, <2>4
  <2>6. g[i + 1] = Step(g[i], s[i + 1])
    BY DEF IsRun
  <2> QED BY <2>5, <2>6 DEF t
<1>4. n \in T
  <2> HIDE DEF T
  <2>1. 0 \in Int /\ n \in Int /\ n \in 0 .. n
    OBVIOUS
  <2> QED BY Zenon, <1>2, <1>3, <2>1, UpTo
<1> QED BY <1>4, FoldIs DEF f, IsRun

\* There is a run.
LEMMA FoldRun ==
    ASSUME NEW base, NEW s, NEW n \in Nat, DOMAIN s = 1 .. n
    PROVE  \E g : IsRun(g, base, s, n)
<1> DEFINE f == TheFold(base, s, n)
           g == [i \in 0 .. n |-> f[1 .. i]]
<1>1. IsFold(f, base, s, n)
  BY FoldExists
<1> HIDE DEF f
<1>2. g[0] = base
  <2>1. 1 .. 0 = {} /\ {} \in SUBSET (1 .. n)
    OBVIOUS
  <2>2. f[{}] = base
    BY <1>1, <2>1 DEF IsFold
  <2> QED BY <2>1, <2>2
<1>3. ASSUME NEW i \in 1 .. n PROVE g[i] = Step(g[i - 1], s[i])
  <2> DEFINE t == 1 .. i
  <2>1. t \in SUBSET (1 .. n) /\ i \in t
    OBVIOUS
  <2>2. Largest(t) = i /\ t \ {i} = 1 .. i - 1
    BY LargestUpTo
  <2> HIDE DEF t
  <2>3. f[t] = Step(f[t \ {Largest(t)}], s[Largest(t)])
    BY <1>1, <2>1 DEF IsFold
  <2>4. f[t] = Step(f[1 .. i - 1], s[i])
    BY <2>2, <2>3
  <2> QED BY <2>4 DEF t
<1> HIDE DEF g
<1>4. IsRun(g, base, s, n)
  BY <1>2, <1>3 DEF IsRun
<1> QED BY <1>4

LEMMA FoldNone == \A base : Fold(base, <<>>) = base
<1> SUFFICES ASSUME NEW base PROVE Fold(base, <<>>) = base
  OBVIOUS
<1> DEFINE g == [i \in 0 .. 0 |-> base]
<1>1. 0 \in Nat /\ g[0] = base /\ IsRun(g, base, <<>>, 0)
  BY DEF IsRun
<1> HIDE DEF g
<1> QED BY <1>1, FoldBy

LEMMA FoldOne == \A base, x : Fold(base, <<x>>) = Step(base, x)
<1> SUFFICES ASSUME NEW base, NEW x PROVE Fold(base, <<x>>) = Step(base, x)
  OBVIOUS
<1> DEFINE g == [i \in 0 .. 1 |-> IF i = 0 THEN base ELSE Step(base, x)]
<1>1. 1 \in Nat /\ g[1] = Step(base, x) /\ IsRun(g, base, <<x>>, 1)
  BY DEF IsRun
<1> HIDE DEF g
<1> QED BY Zenon, <1>1, FoldBy

\* A loop over two sequences is one over the first and then over the second.
LEMMA FoldConcat ==
    ASSUME NEW S, NEW base, NEW s \in Seq(S), NEW t \in Seq(S)
    PROVE  Fold(base, s \o t) = Fold(Fold(base, s), t)
<1> DEFINE m == Len(s)
           n == Len(t)
           u == s \o t
           mid == Fold(base, s)
<1>1. /\ m \in Nat /\ n \in Nat /\ DOMAIN s = 1 .. m /\ DOMAIN t = 1 .. n
      /\ DOMAIN u = 1 .. m + n
      /\ \A i \in 1 .. m : u[i] = s[i]
      /\ \A i \in m + 1 .. m + n : u[i] = t[i - m]
  OBVIOUS
<1> HIDE DEF m, n, u
<1>2. PICK a : IsRun(a, base, s, m)
  BY <1>1, FoldRun
<1>3. PICK b : IsRun(b, mid, t, n)
  BY <1>1, FoldRun
<1>4. a[m] = mid /\ b[n] = Fold(mid, t)
  BY <1>1, <1>2, <1>3, FoldBy
<1> HIDE DEF mid
<1> DEFINE g == [i \in 0 .. m + n |-> IF i <= m THEN a[i] ELSE b[i - m]]
<1>5. g[0] = base /\ g[m + n] = Fold(mid, t)
  BY <1>1, <1>2, <1>3, <1>4 DEF IsRun
<1>6. ASSUME NEW i \in 1 .. m + n PROVE g[i] = Step(g[i - 1], u[i])
  <2>1. CASE i <= m
    <3>1. i \in 1 .. m /\ i - 1 <= m /\ i \in 0 .. m + n /\ i - 1 \in 0 .. m + n
      BY <1>1, <2>1
    <3>2. g[i] = a[i] /\ g[i - 1] = a[i - 1] /\ u[i] = s[i]
      BY <1>1, <3>1
    <3> HIDE DEF g
    <3> QED BY <1>2, <3>1, <3>2 DEF IsRun
  <2>2. CASE i = m + 1
    <3>1. /\ ~ i <= m /\ i - m = 1 /\ i - 1 = m /\ m <= m /\ m \in 0 .. m + n
          /\ i \in 0 .. m + n /\ i \in m + 1 .. m + n /\ 1 \in 1 .. n /\ 1 - 1 = 0
      BY <1>1, <2>2
    <3>2. g[i] = b[1] /\ u[i] = t[1]
      BY <1>1, <3>1
    <3>3. g[i - 1] = a[m]
      BY <3>1
    <3> HIDE DEF g
    <3> QED BY <1>3, <1>4, <3>1, <3>2, <3>3 DEF IsRun
  <2>3. CASE i > m + 1
    <3>1. i \in m + 1 .. m + n /\ i - m \in 1 .. n /\ ~ i <= m /\ ~ i - 1 <= m /\ i - 1 \in 0 .. m + n
      BY <1>1, <2>3
    <3>2. g[i] = b[i - m] /\ u[i] = t[i - m]
      BY <1>1, <3>1
    <3>3. g[i - 1] = b[(i - 1) - m] /\ (i - 1) - m = (i - m) - 1
      BY <1>1, <3>1
    <3> HIDE DEF g
    <3> QED BY <1>3, <3>1, <3>2, <3>3 DEF IsRun
  <2>4. i <= m \/ i = m + 1 \/ i > m + 1
    BY <1>1
  <2> HIDE DEF g
  <2> QED BY <2>1, <2>2, <2>3, <2>4
<1>7. m + n \in Nat
  BY <1>1
<1> HIDE DEF g
<1>8. IsRun(g, base, u, m + n)
  BY <1>1, <1>5, <1>6 DEF IsRun
<1>9. Fold(base, u) = g[m + n]
  BY Zenon, <1>7, <1>8, FoldBy
<1> QED BY <1>5, <1>9 DEF u, mid

-----------------------------------------------------------------------------
(***************************************************************************)
(* FlattenSeq, likewise: g[i] is the text of the first i parts.            *)
(***************************************************************************)
TheFlat(ss, n) ==
    CHOOSE f : f = [i \in 1 .. n |-> IF i = 1 THEN ss[i] ELSE f[i - 1] \o ss[i]]

Flat(ss) == IF Len(ss) = 0 THEN ss ELSE TheFlat(ss, Len(ss))[Len(ss)]

IsFlat(g, ss, n) ==
    /\ Len(ss) = n /\ g[1] = ss[1]
    /\ \A i \in 2 .. n : g[i] = g[i - 1] \o ss[i]

LEMMA FlattenBy ==
    ASSUME NEW ss, NEW n \in Nat \ {0}, NEW g, IsFlat(g, ss, n)
    PROVE  Flat(ss) = g[n]
<1> DEFINE Is(f) == f = [i \in 1 .. n |-> IF i = 1 THEN ss[i] ELSE f[i - 1] \o ss[i]]
           h == [i \in 1 .. n |-> g[i]]
           f == TheFlat(ss, n)
           T == { i \in 1 .. n : f[i] = g[i] }
<1>1. Is(h)
  <2>1. ASSUME NEW i \in 1 .. n PROVE h[i] = IF i = 1 THEN ss[i] ELSE h[i - 1] \o ss[i]
    <3>1. CASE i = 1
      BY <3>1 DEF IsFlat
    <3>2. CASE i # 1
      <4>1. i \in 2 .. n /\ i - 1 \in 1 .. n
        BY <3>2
      <4>2. h[i] = g[i] /\ h[i - 1] = g[i - 1]
        BY <4>1
      <4> QED BY <3>2, <4>1, <4>2 DEF IsFlat
    <3> QED BY <3>1, <3>2
  <2>2. h = [i \in 1 .. n |-> h[i]]
    OBVIOUS
  <2> HIDE DEF h
  <2> QED BY <2>1, <2>2
<1>2. Is(f)
  <2>1. \E e : Is(e)
    BY <1>1
  <2> QED BY <2>1 DEF TheFlat
<1> HIDE DEF f, h
<1>3. 1 \in T
  <2>1. f[1] = ss[1]
    BY <1>2
  <2> QED BY <2>1 DEF IsFlat
<1>4. \A i \in 1 .. n - 1 : i \in T => i + 1 \in T
  <2> SUFFICES ASSUME NEW i \in 1 .. n - 1, i \in T PROVE i + 1 \in T
    OBVIOUS
  <2>1. i + 1 \in 2 .. n /\ (i + 1) - 1 = i /\ i + 1 \in 1 .. n /\ i + 1 # 1
    OBVIOUS
  <2>2. f[i + 1] = f[i] \o ss[i + 1]
    BY <1>2, <2>1
  <2>3. g[i + 1] = g[i] \o ss[i + 1]
    BY <2>1 DEF IsFlat
  <2> QED BY <2>1, <2>2, <2>3
<1>5. n \in T
  <2> HIDE DEF T
  <2>1. 1 \in Int /\ n \in Int /\ n \in 1 .. n
    OBVIOUS
  <2> QED BY Zenon, <1>3, <1>4, <2>1, UpTo
<1>6. Flat(ss) = f[n]
  BY DEF Flat, f, IsFlat
<1> QED BY <1>5, <1>6

LEMMA FlatRun ==
    ASSUME NEW S, NEW ss \in Seq(Seq(S)), NEW n \in Nat \ {0}, Len(ss) = n
    PROVE  \E g \in [1 .. n -> Seq(S)] : IsFlat(g, ss, n)
<1> DEFINE Up(g, m) == g[1] = ss[1] /\ \A i \in 2 .. m : g[i] = g[i - 1] \o ss[i]
           T == { m \in 1 .. n : \E g \in [1 .. n -> Seq(S)] : Up(g, m) }
<1>1. \A i \in 1 .. n : ss[i] \in Seq(S)
  OBVIOUS
<1>2. 1 \in T
  <2> DEFINE g == [i \in 1 .. n |-> ss[1]]
  <2>1. g \in [1 .. n -> Seq(S)] /\ g[1] = ss[1] /\ 2 .. 1 = {}
    BY <1>1
  <2> HIDE DEF g
  <2>2. Up(g, 1)
    BY <2>1
  <2>3. \E h \in [1 .. n -> Seq(S)] : Up(h, 1)
    BY <2>1, <2>2
  <2>4. 1 \in 1 .. n
    OBVIOUS
  <2> QED BY Zenon, <2>3, <2>4
<1>3. \A m \in 1 .. n - 1 : m \in T => m + 1 \in T
  <2> SUFFICES ASSUME NEW m \in 1 .. n - 1, m \in T PROVE m + 1 \in T
    OBVIOUS
  <2>1. PICK g \in [1 .. n -> Seq(S)] : Up(g, m)
    OBVIOUS
  <2> DEFINE x == g[m] \o ss[m + 1]
             h == [g EXCEPT ![m + 1] = x]
  <2>2. m \in 1 .. n /\ m + 1 \in 1 .. n /\ g[m] \in Seq(S) /\ ss[m + 1] \in Seq(S)
    BY <1>1
  <2>3. x \in Seq(S)
    BY <2>2
  <2> HIDE DEF x
  <2>4. h \in [1 .. n -> Seq(S)] /\ h[m + 1] = x /\ \A i \in 1 .. m : h[i] = g[i]
    BY <2>2, <2>3
  <2> HIDE DEF h
  <2>5. ASSUME NEW i \in 2 .. m + 1 PROVE h[i] = h[i - 1] \o ss[i]
    <3>1. CASE i = m + 1
      <4>1. i - 1 = m /\ m \in 1 .. m
        BY <3>1
      <4> QED BY <2>4, <3>1, <4>1 DEF x
    <3>2. CASE i # m + 1
      <4>1. i \in 2 .. m /\ i \in 1 .. m /\ i - 1 \in 1 .. m
        BY <3>2
      <4> QED BY <2>1, <2>4, <4>1
    <3> QED BY <3>1, <3>2
  <2>6. h[1] = ss[1]
    BY <2>1, <2>4
  <2>7. \E k \in [1 .. n -> Seq(S)] : Up(k, m + 1)
    BY <2>4, <2>5, <2>6
  <2> QED BY <2>2, <2>7
<1>4. n \in T
  <2> HIDE DEF T
  <2>1. 1 \in Int /\ n \in Int /\ n \in 1 .. n
    OBVIOUS
  <2> QED BY Zenon, <1>2, <1>3, <2>1, UpTo
<1>5. PICK g \in [1 .. n -> Seq(S)] : Up(g, n)
  BY <1>4
<1> QED BY <1>5 DEF IsFlat

LEMMA FlattenType ==
    ASSUME NEW S, NEW ss \in Seq(Seq(S))
    PROVE  Flat(ss) \in Seq(S)
<1>1. CASE Len(ss) = 0
  BY <1>1 DEF Flat
<1>2. CASE Len(ss) # 0
  <2> DEFINE n == Len(ss)
  <2>1. n \in Nat \ {0} /\ n \in 1 .. n
    BY <1>2
  <2>2. PICK g \in [1 .. n -> Seq(S)] : IsFlat(g, ss, n)
    BY <2>1, FlatRun
  <2>3. Flat(ss) = g[n]
    BY Zenon, <2>1, <2>2, FlattenBy
  <2> QED BY <2>1, <2>3
<1> QED BY <1>1, <1>2

\* What holds of the parts and of two texts one after the other holds of all of them.
LEMMA FlattenClosed ==
    ASSUME NEW S, NEW T \in SUBSET Seq(S), <<>> \in T, \A x, y \in T : x \o y \in T,
           NEW ss \in Seq(T)
    PROVE  Flat(ss) \in T
<1>1. CASE Len(ss) = 0
  BY <1>1 DEF Flat
<1>2. CASE Len(ss) # 0
  <2> DEFINE n == Len(ss)
  <2>1. n \in Nat \ {0} /\ n \in 1 .. n /\ 1 \in 1 .. n
    BY <1>2
  <2>2. ss \in Seq(Seq(S)) /\ \A i \in 1 .. n : ss[i] \in T
    OBVIOUS
  <2>3. PICK g \in [1 .. n -> Seq(S)] : IsFlat(g, ss, n)
    BY <2>1, <2>2, FlatRun
  <2>4. Flat(ss) = g[n]
    BY Zenon, <2>1, <2>3, FlattenBy
  <2> HIDE DEF n
  <2> DEFINE K == { i \in 1 .. n : g[i] \in T }
  <2>5. 1 \in K
    BY <2>1, <2>2, <2>3 DEF IsFlat
  <2>6. \A i \in 1 .. n - 1 : i \in K => i + 1 \in K
    <3> SUFFICES ASSUME NEW i \in 1 .. n - 1, i \in K PROVE i + 1 \in K
      OBVIOUS
    <3>1. i + 1 \in 1 .. n /\ i + 1 \in 2 .. n /\ (i + 1) - 1 = i
      BY <2>1
    <3>2. g[i + 1] = g[i] \o ss[i + 1] /\ ss[i + 1] \in T
      BY <2>2, <2>3, <3>1 DEF IsFlat
    <3> QED BY <3>1, <3>2
  <2>7. n \in K
    <3> HIDE DEF K
    <3>1. 1 \in Int /\ n \in Int
      BY <2>1
    <3> QED BY Zenon, <2>1, <2>5, <2>6, <3>1, UpTo
  <2> QED BY <2>4, <2>7
<1> QED BY <1>1, <1>2

(***************************************************************************)
(* A loop over parts that are joined: h[i] is its state after i parts.     *)
(***************************************************************************)
LEMMA FoldFlatten ==
    ASSUME NEW S, NEW ss \in Seq(Seq(S)), NEW base, NEW h, h[0] = base,
           \A i \in 1 .. Len(ss) : h[i] = Fold(h[i - 1], ss[i])
    PROVE  Fold(base, Flat(ss)) = h[Len(ss)]
<1>1. CASE Len(ss) = 0
  <2>1. Flat(ss) = <<>>
    BY <1>1 DEF Flat
  <2> QED BY <1>1, <2>1, FoldNone
<1>2. CASE Len(ss) # 0
  <2> DEFINE n == Len(ss)
  <2>1. n \in Nat \ {0} /\ n \in 1 .. n /\ 1 \in 1 .. n
    BY <1>2
  <2>2. PICK g \in [1 .. n -> Seq(S)] : IsFlat(g, ss, n)
    BY <2>1, FlatRun
  <2>3. Flat(ss) = g[n]
    BY Zenon, <2>1, <2>2, FlattenBy
  <2>4. \A i \in 1 .. n : ss[i] \in Seq(S) /\ h[i] = Fold(h[i - 1], ss[i])
    OBVIOUS
  <2> HIDE DEF n
  <2> DEFINE T == { i \in 1 .. n : Fold(base, g[i]) = h[i] }
  <2>5. 1 \in T
    <3>1. g[1] = ss[1] /\ 1 - 1 = 0
      BY <2>2 DEF IsFlat
    <3>2. h[1] = Fold(base, ss[1])
      BY <2>1, <2>4, <3>1
    <3> QED BY <2>1, <3>1, <3>2
  <2>6. \A i \in 1 .. n - 1 : i \in T => i + 1 \in T
    <3> SUFFICES ASSUME NEW i \in 1 .. n - 1, i \in T PROVE i + 1 \in T
      OBVIOUS
    <3>1. i \in 1 .. n /\ i + 1 \in 1 .. n /\ i + 1 \in 2 .. n /\ (i + 1) - 1 = i
      BY <2>1
    <3>2. g[i] \in Seq(S) /\ ss[i + 1] \in Seq(S)
      BY <2>4, <3>1
    <3>3. g[i + 1] = g[i] \o ss[i + 1]
      BY <2>2, <3>1 DEF IsFlat
    <3>4. Fold(base, g[i] \o ss[i + 1]) = Fold(Fold(base, g[i]), ss[i + 1])
      BY <3>2, FoldConcat
    <3>5. h[i + 1] = Fold(h[i], ss[i + 1])
      BY <2>4, <3>1
    <3> QED BY <3>1, <3>3, <3>4, <3>5
  <2>7. n \in T
    <3> HIDE DEF T
    <3>1. 1 \in Int /\ n \in Int
      BY <2>1
    <3> QED BY Zenon, <2>1, <2>5, <2>6, <3>1, UpTo
  <2> QED BY <2>3, <2>7 DEF n
<1> QED BY <1>1, <1>2

-----------------------------------------------------------------------------
(***************************************************************************)
(* A text that is joined from words can be cut into them again.            *)
(***************************************************************************)
LEMMA FlattenNone == Flat(<<>>) = <<>>
BY DEF Flat

LEMMA FlattenOne == \A x : Flat(<<x>>) = x
<1> SUFFICES ASSUME NEW x PROVE Flat(<<x>>) = x
  OBVIOUS
<1> DEFINE g == [i \in 1 .. 1 |-> x]
<1>1. 1 \in Nat \ {0} /\ g[1] = x /\ IsFlat(g, <<x>>, 1)
  BY DEF IsFlat
<1> HIDE DEF g
<1> QED BY Zenon, <1>1, FlattenBy

LEMMA ConcatAssoc ==
    ASSUME NEW S
    PROVE  \A a, b, c \in Seq(S) : a \o (b \o c) = (a \o b) \o c
OBVIOUS

LEMMA ConcatCancel ==
    ASSUME NEW S, NEW a \in Seq(S), NEW b \in Seq(S), NEW c \in Seq(S), a \o b = a \o c
    PROVE  b = c
<1>1. Len(b) = Len(c)
  <2>1. Len(a \o b) = Len(a) + Len(b) /\ Len(a \o c) = Len(a) + Len(c)
    OBVIOUS
  <2> QED BY <2>1
<1>2. ASSUME NEW i \in 1 .. Len(b) PROVE b[i] = c[i]
  <2>1. (a \o b)[Len(a) + i] = b[i]
    OBVIOUS
  <2>2. (a \o c)[Len(a) + i] = c[i]
    BY <1>1
  <2> QED BY <2>1, <2>2
<1>3. b = [i \in 1 .. Len(b) |-> b[i]] /\ c = [i \in 1 .. Len(c) |-> c[i]]
  OBVIOUS
<1> QED BY <1>1, <1>2, <1>3

LEMMA FlattenCons ==
    ASSUME NEW S, NEW x \in Seq(S), NEW ss \in Seq(Seq(S))
    PROVE  Flat(<<x>> \o ss) = x \o Flat(ss)
<1>0. \A p, q \in Seq(S) : x \o (p \o q) = (x \o p) \o q
  BY ConcatAssoc
<1>1. CASE ss = <<>>
  <2>1. <<x>> \o ss = <<x>>
    BY <1>1
  <2>2. Flat(ss) = <<>> /\ x \o <<>> = x
    BY <1>1, FlattenNone
  <2> QED BY <2>1, <2>2, FlattenOne
<1>2. CASE ss # <<>>
  <2> DEFINE n == Len(ss)
             all == <<x>> \o ss
             h(g) == [i \in 1 .. n + 1 |-> IF i = 1 THEN x ELSE x \o g[i - 1]]
  <2>1. n \in Nat \ {0} /\ n \in 1 .. n /\ Len(ss) = n /\ n + 1 \in Nat \ {0}
    BY <1>2
  <2>2. PICK g \in [1 .. n -> Seq(S)] : IsFlat(g, ss, n)
    BY <2>1, FlatRun
  <2>3. Flat(ss) = g[n]
    BY Zenon, <2>1, <2>2, FlattenBy
  <2>4. /\ Len(all) = n + 1 /\ all[1] = x
        /\ \A i \in 2 .. n + 1 : all[i] = ss[i - 1] /\ ss[i - 1] \in Seq(S)
    BY <2>1
  <2> HIDE DEF n, all
  <2>5. h(g)[1] = all[1]
    BY <2>1, <2>4
  <2>6. ASSUME NEW i \in 2 .. n + 1 PROVE h(g)[i] = h(g)[i - 1] \o all[i]
    <3>1. CASE i = 2
      <4>1. h(g)[i - 1] = x /\ h(g)[i] = x \o g[1] /\ all[i] = ss[1]
        BY <2>1, <2>4, <3>1
      <4> QED BY <2>2, <4>1 DEF IsFlat
    <3>2. CASE i # 2
      <4>1. /\ i - 1 \in 2 .. n /\ i - 1 \in 1 .. n /\ (i - 1) - 1 \in 1 .. n
            /\ i \in 1 .. n + 1 /\ i - 1 \in 1 .. n + 1 /\ i # 1 /\ i - 1 # 1
        BY <2>1, <3>2
      <4>2. h(g)[i] = x \o g[i - 1] /\ h(g)[i - 1] = x \o g[(i - 1) - 1]
        BY Zenon, <4>1
      <4>3. g[i - 1] = g[(i - 1) - 1] \o ss[i - 1]
        BY <2>2, <4>1 DEF IsFlat
      <4>4. g[(i - 1) - 1] \in Seq(S) /\ ss[i - 1] \in Seq(S) /\ all[i] = ss[i - 1]
        BY <2>4, <4>1
      <4> HIDE DEF h
      <4> QED BY <1>0, <4>2, <4>3, <4>4
    <3> QED BY <3>1, <3>2
  <2>7. h(g)[n + 1] = x \o g[n]
    BY <2>1
  <2> HIDE DEF h
  <2>8. IsFlat(h(g), all, n + 1)
    BY <2>4, <2>5, <2>6 DEF IsFlat
  <2>9. Flat(all) = h(g)[n + 1]
    BY Zenon, <2>1, <2>8, FlattenBy
  <2> QED BY <2>3, <2>7, <2>9 DEF all
<1> QED BY <1>1, <1>2

LEMMA HeadAndTail ==
    ASSUME NEW W, NEW s \in Seq(W), s # <<>>
    PROVE  /\ s[1] \in W /\ Tail(s) \in Seq(W) /\ s = <<s[1]>> \o Tail(s)
           /\ Len(Tail(s)) = Len(s) - 1 /\ Len(s) \in Nat \ {0}
OBVIOUS

(***************************************************************************)
(* Where a word ends can be seen from what follows: then two lists of      *)
(* words with one text are one list.                                       *)
(***************************************************************************)
LEMMA FlattenApart ==
    ASSUME NEW S, NEW W \in SUBSET Seq(S), <<>> \notin W,
           \A u, v \in W, c, d \in Seq(W) :
              u \o Flat(c) = v \o Flat(d) => u = v,
           NEW a \in Seq(W), NEW b \in Seq(W), Flat(a) = Flat(b)
    PROVE  a = b
<1>1. ASSUME NEW c \in Seq(W), c # <<>>
      PROVE  /\ c[1] \in W /\ Tail(c) \in Seq(W) /\ c = <<c[1]>> \o Tail(c)
             /\ c[1] \in Seq(S) /\ Flat(Tail(c)) \in Seq(S)
             /\ Flat(c) = c[1] \o Flat(Tail(c)) /\ Flat(c) # <<>>
  <2>1. c[1] \in W /\ Tail(c) \in Seq(W) /\ c = <<c[1]>> \o Tail(c)
    BY <1>1, HeadAndTail
  <2>2. c[1] \in Seq(S) /\ Tail(c) \in Seq(Seq(S)) /\ c[1] # <<>>
    BY <2>1
  <2>3. Flat(c) = c[1] \o Flat(Tail(c))
    <3>1. Flat(<<c[1]>> \o Tail(c)) = c[1] \o Flat(Tail(c))
      BY Zenon, <2>2, FlattenCons
    <3> QED BY Zenon, <2>1, <3>1
  <2>4. Flat(Tail(c)) \in Seq(S)
    BY <2>2, FlattenType
  <2>5. c[1] \o Flat(Tail(c)) # <<>>
    BY <2>2, <2>4
  <2> QED BY <2>1, <2>2, <2>3, <2>4, <2>5
<1> DEFINE T == { k \in Nat : \A c, d \in Seq(W) :
                    Len(c) = k /\ Flat(c) = Flat(d) => c = d }
<1>2. 0 \in T
  <2> SUFFICES ASSUME NEW c \in Seq(W), NEW d \in Seq(W), Len(c) = 0,
                      Flat(c) = Flat(d)
               PROVE  c = d
    OBVIOUS
  <2>1. c = <<>>
    OBVIOUS
  <2>2. Flat(d) = <<>>
    BY <2>1, FlattenNone
  <2> QED BY <1>1, <2>1, <2>2
<1>3. \A k \in Nat : k \in T => k + 1 \in T
  <2> SUFFICES ASSUME NEW k \in Nat, k \in T PROVE k + 1 \in T
    OBVIOUS
  <2> SUFFICES ASSUME NEW c \in Seq(W), NEW d \in Seq(W),
                      Len(c) = k + 1, Flat(c) = Flat(d)
               PROVE  c = d
    OBVIOUS
  <2>1. c # <<>> /\ Len(Tail(c)) = k
    OBVIOUS
  <2>2. Flat(c) # <<>>
    BY <1>1, <2>1
  <2>3. d # <<>>
    BY <2>2, FlattenNone
  <2>4. /\ c[1] \in W /\ Tail(c) \in Seq(W) /\ c = <<c[1]>> \o Tail(c)
        /\ c[1] \in Seq(S) /\ Flat(Tail(c)) \in Seq(S)
        /\ Flat(c) = c[1] \o Flat(Tail(c))
    BY <1>1, <2>1
  <2>5. /\ d[1] \in W /\ Tail(d) \in Seq(W) /\ d = <<d[1]>> \o Tail(d)
        /\ d[1] \in Seq(S) /\ Flat(Tail(d)) \in Seq(S)
        /\ Flat(d) = d[1] \o Flat(Tail(d))
    BY <1>1, <2>3
  <2>6. c[1] = d[1]
    <3>1. c[1] \o Flat(Tail(c)) = d[1] \o Flat(Tail(d))
      BY <2>4, <2>5
    <3> HIDE DEF T
    <3>2. c[1] \in W /\ d[1] \in W /\ Tail(c) \in Seq(W) /\ Tail(d) \in Seq(W)
      BY <2>4, <2>5
    <3> QED BY <3>1, <3>2
  <2>7. Flat(Tail(c)) = Flat(Tail(d))
    BY <2>4, <2>5, <2>6, ConcatCancel
  <2>8. Tail(c) = Tail(d)
    BY <2>1, <2>4, <2>5, <2>7
  <2> QED BY <2>4, <2>5, <2>6, <2>8
<1> HIDE DEF T
<1>4. \A k \in Nat : k \in T
  BY <1>2, <1>3, Induction
<1>5. Len(a) \in T
  BY <1>4
<1> QED BY <1>5 DEF T
=============================================================================
