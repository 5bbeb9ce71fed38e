----------------------------- MODULE TxtProofs ------------------------------
(***************************************************************************)
(* Text with undo: pieces hold the text that edits make, undo and redo     *)
(* take it through its versions, marks stay between the runes they were    *)
(* between, and the cached position is right.                              *)
(*                                                                         *)
(* What recursive functions compute is proved by induction on a set of     *)
(* numbers, from the least number that would not be in it.                 *)
(***************************************************************************)
EXTENDS Txt, SequenceTheorems, WellFoundedInduction, TLAPS

-----------------------------------------------------------------------------
(* Induction.                                                              *)

Smaller == OpToRel(<, Nat)

LEMMA SmallerWellFounded == IsWellFoundedOn(Smaller, Nat)
BY NatLessThanWellFounded DEF Smaller

LEMMA SmallerFacts == \A x, y \in Nat : x < y => <<x, y>> \in Smaller
BY DEF Smaller, OpToRel

\* A set of numbers has a least one.
LEMMA Smallest ==
    ASSUME NEW T \in SUBSET Nat, T # {}
    PROVE  \E x \in T : \A y \in T : x <= y
<1>1. PICK x \in T : \A y \in T : ~(<<y, x>> \in Smaller)
  BY SmallerWellFounded, WFMin
<1>2. ASSUME NEW y \in T PROVE x <= y
  <2>1. x \in Nat /\ y \in Nat
    OBVIOUS
  <2>2. ~(y < x)
    BY <1>1, <2>1, SmallerFacts
  <2> QED
    BY <2>1, <2>2
<1> QED
  BY <1>2

LEMMA Induction ==
    ASSUME NEW T, 0 \in T, \A n \in Nat : n \in T => n + 1 \in T
    PROVE  \A n \in Nat : n \in T
<1> DEFINE B == {n \in Nat : n \notin T}
<1> SUFFICES ASSUME B # {} PROVE FALSE
  OBVIOUS
<1>1. PICK x \in B : \A y \in B : x <= y
  <2>1. B \in SUBSET Nat
    OBVIOUS
  <2> HIDE DEF B
  <2> QED
    BY <2>1, Smallest
<1>2. x # 0 /\ x \in Nat /\ x \notin T
  OBVIOUS
<1>3. x - 1 \in Nat /\ ~(x <= x - 1) /\ (x - 1) + 1 = x
  BY <1>2
<1>4. x - 1 \in T
  BY <1>1, <1>3
<1> QED
  BY <1>2, <1>3, <1>4

\* From a number on, up to another.
LEMMA InductionTo ==
    ASSUME NEW m \in Nat, NEW T, 0 \in T, \A n \in Nat : n < m /\ n \in T => n + 1 \in T
    PROVE  \A n \in 0..m : n \in T
<1> DEFINE U == {n \in Nat : n <= m => n \in T}
<1>1. 0 \in U
  OBVIOUS
<1>2. \A n \in Nat : n \in U => n + 1 \in U
  OBVIOUS
<1>3. \A n \in Nat : n \in U
  <2> HIDE DEF U
  <2> QED
    BY <1>1, <1>2, Induction
<1> QED
  BY <1>3

-----------------------------------------------------------------------------
(* The text in the pieces.                                                 *)

\* f is what FlattenSeq computes for the first n pieces of s.
Flat(s, n, f) == f = [i \in 1..n |-> IF i = 1 THEN s[i] ELSE f[i - 1] \o s[i]]

LEMMA FlatExists ==
    ASSUME NEW S, NEW s \in Seq(Seq(S))
    PROVE  \A n \in 1..Len(s) : \E f \in [1..n -> Seq(S)] : Flat(s, n, f)
<1> DEFINE T == {n \in Nat : n # 0 => \E f \in [1..n -> Seq(S)] : Flat(s, n, f)}
<1>1. 0 \in T
  OBVIOUS
<1>2. ASSUME NEW n \in Nat, n < Len(s), n \in T PROVE n + 1 \in T
  <2>1. s[n + 1] \in Seq(S) /\ n + 1 \in 1..(n + 1)
    BY <1>2
  <2>2. CASE n = 0
    <3> DEFINE f == [i \in 1..1 |-> s[i]]
    <3>1. f \in [1..(n + 1) -> Seq(S)]
      BY <2>1, <2>2
    <3>2. Flat(s, n + 1, f)
      BY <2>2 DEF Flat
    <3> HIDE DEF f
    <3> QED
      BY <3>1, <3>2
  <2>3. CASE n # 0
    <3>1. PICK g \in [1..n -> Seq(S)] : Flat(s, n, g)
      BY <1>2, <2>3
    <3> DEFINE c == g[n] \o s[n + 1]
               f == [i \in 1..(n + 1) |-> IF i = n + 1 THEN c ELSE g[i]]
    <3>2. c \in Seq(S)
      BY <2>1, <2>3
    <3> HIDE DEF c
    <3>3. f \in [1..(n + 1) -> Seq(S)]
      BY <3>2
    <3>4. f[n + 1] = c /\ \A i \in 1..n : f[i] = g[i]
      OBVIOUS
    <3> HIDE DEF f
    <3>5. ASSUME NEW i \in 1..(n + 1)
          PROVE  f[i] = IF i = 1 THEN s[i] ELSE f[i - 1] \o s[i]
      <4>1. CASE i = n + 1
        <5>1. n \in 1..n /\ i - 1 = n /\ i # 1
          BY <2>3, <4>1
        <5> QED
          BY <3>4, <4>1, <5>1 DEF c
      <4>2. CASE i # n + 1
        <5>1. i \in 1..n /\ (i # 1 => i - 1 \in 1..n)
          BY <4>2
        <5>2. g[i] = IF i = 1 THEN s[i] ELSE g[i - 1] \o s[i]
          BY <3>1, <5>1 DEF Flat
        <5> QED
          BY <3>4, <5>1, <5>2
      <4> QED
        BY <4>1, <4>2
    <3>6. Flat(s, n + 1, f)
      BY <3>3, <3>5 DEF Flat
    <3> QED
      BY <3>3, <3>6
  <2> QED
    BY <2>2, <2>3
<1>3. \A n \in 0..Len(s) : n \in T
  <2> HIDE DEF T
  <2>1. Len(s) \in Nat
    OBVIOUS
  <2> QED
    BY <1>1, <1>2, <2>1, InductionTo
<1> QED
  BY <1>3

\* f and g are the same up to n.
Agree(f, g, n) == \A i \in 1..n : f[i] = g[i]

LEMMA FlatUnique ==
    ASSUME NEW s, NEW t, NEW f, NEW g, NEW n, NEW m, n \in Nat, m \in Nat, n <= m,
           Flat(s, n, f), Flat(t, m, g), Agree(s, t, n)
    PROVE  Agree(f, g, n)
<1> DEFINE T == {i \in Nat : i # 0 => f[i] = g[i]}
<1>1. 0 \in T
  OBVIOUS
<1>2. ASSUME NEW i \in Nat, i < n, i \in T PROVE i + 1 \in T
  <2>1. i + 1 \in 1..n /\ i + 1 \in 1..m /\ (i + 1) - 1 = i /\ (i + 1 = 1 <=> i = 0)
    BY <1>2
  <2>2. f[i + 1] = IF i = 0 THEN s[i + 1] ELSE f[i] \o s[i + 1]
    BY <2>1 DEF Flat
  <2>3. g[i + 1] = IF i = 0 THEN t[i + 1] ELSE g[i] \o t[i + 1]
    BY <2>1 DEF Flat
  <2> QED
    BY <1>2, <2>1, <2>2, <2>3 DEF Agree
<1>3. \A i \in 0..n : i \in T
  <2> HIDE DEF T
  <2> QED
    BY <1>1, <1>2, InductionTo
<1> QED
  BY <1>3 DEF Agree

\* FlattenSeq computes it for all of them.
LEMMA FlatSeq ==
    ASSUME NEW S, NEW s \in Seq(Seq(S)), s # <<>>
    PROVE  \E f \in [1..Len(s) -> Seq(S)] : Flat(s, Len(s), f) /\ FlattenSeq(s) = f[Len(s)]
<1> DEFINE g == CHOOSE f : Flat(s, Len(s), f)
<1>1. Len(s) \in Nat /\ Len(s) # 0 /\ Len(s) \in 1..Len(s)
  OBVIOUS
<1>2. FlattenSeq(s) = g[Len(s)]
  BY <1>1 DEF FlattenSeq, Flat
<1>3. PICK f \in [1..Len(s) -> Seq(S)] : Flat(s, Len(s), f)
  BY <1>1, FlatExists
<1>4. Flat(s, Len(s), g)
  BY <1>3
<1> HIDE DEF g
<1>5. f[Len(s)] = g[Len(s)]
  <2>1. Agree(s, s, Len(s)) /\ Len(s) <= Len(s)
    BY <1>1 DEF Agree
  <2>2. Agree(f, g, Len(s))
    BY <1>1, <1>3, <1>4, <2>1, FlatUnique
  <2> QED
    BY <1>1, <2>2 DEF Agree
<1> QED
  BY <1>2, <1>3, <1>5

LEMMA FlatEmpty == FlattenSeq(<<>>) = <<>>
BY DEF FlattenSeq

\* Sequences of sequences are sequences.
LEMMA AppendFacts ==
    ASSUME NEW U, NEW s \in Seq(U), NEW p \in U
    PROVE  /\ Append(s, p) \in Seq(U) /\ Append(s, p) # <<>>
           /\ Len(Append(s, p)) = Len(s) + 1 /\ Len(s) \in Nat
           /\ Append(s, p)[Len(s) + 1] = p
           /\ \A i \in 1..Len(s) : s[i] = Append(s, p)[i]
           /\ Append(<<>>, p) = <<p>> /\ <<>> \in Seq(U) /\ <<p>> \in Seq(U)
OBVIOUS

LEMMA AppendConcat ==
    ASSUME NEW U, NEW s \in Seq(U), NEW t \in Seq(U), NEW p \in U
    PROVE  s \o Append(t, p) = Append(s \o t, p) /\ s \o t \in Seq(U)
<1>1. s \o Append(t, p) = s \o (t \o <<p>>) /\ Append(s \o t, p) = (s \o t) \o <<p>>
  BY AppendIsConcat, ConcatProperties
<1>2. <<p>> \in Seq(U)
  OBVIOUS
<1> QED
  BY <1>1, <1>2, ConcatAssociative, ConcatProperties

LEMMA PrefixFacts ==
    ASSUME NEW U, NEW t \in Seq(U)
    PROVE  /\ SubSeq(t, 1, 0) = <<>> /\ t \o <<>> = t /\ <<>> \o t = t
           /\ SubSeq(t, 1, Len(t)) = t /\ Len(t) \in Nat
           /\ \A n \in Nat : n + 1 <= Len(t) =>
                /\ SubSeq(t, 1, n) \in Seq(U) /\ t[n + 1] \in U
                /\ SubSeq(t, 1, n + 1) = Append(SubSeq(t, 1, n), t[n + 1])
<1>1. ASSUME NEW n \in Nat, n + 1 <= Len(t)
      PROVE  /\ SubSeq(t, 1, n) \in Seq(U) /\ t[n + 1] \in U
             /\ SubSeq(t, 1, n + 1) = Append(SubSeq(t, 1, n), t[n + 1])
  <2>1. n + 1 \in 1..Len(t) /\ 1 \in 1..Len(t) /\ n + 1 \in 1..Len(t) /\ (n + 1) - 1 = n
    BY <1>1
  <2>2. SubSeq(t, 1, n) \in Seq(U)
    BY <2>1
  <2>3. t[n + 1] \in U
    BY <2>1
  <2>4. SubSeq(t, 1, n + 1) = SubSeq(t, 1, n) \o <<t[n + 1]>>
    BY <2>1, SubSeqRecursiveSecond
  <2>5. SubSeq(t, 1, n) \o <<t[n + 1]>> = Append(SubSeq(t, 1, n), t[n + 1])
    BY <2>2, <2>3, AppendIsConcat
  <2> QED
    BY <2>2, <2>3, <2>4, <2>5
<1> QED
  BY <1>1, SubSeqFull, ConcatEmptySeq

LEMMA FlatType ==
    ASSUME NEW S, NEW s \in Seq(Seq(S))
    PROVE  FlattenSeq(s) \in Seq(S)
<1>1. CASE s = <<>>
  BY <1>1, FlatEmpty, EmptySeq
<1>2. CASE s # <<>>
  <2>1. Len(s) \in 1..Len(s)
    BY <1>2, EmptySeq
  <2>2. PICK f \in [1..Len(s) -> Seq(S)] : Flat(s, Len(s), f) /\ FlattenSeq(s) = f[Len(s)]
    BY <1>2, FlatSeq
  <2> QED
    BY <2>1, <2>2
<1> QED
  BY <1>1, <1>2

LEMMA FlatAppend ==
    ASSUME NEW S, NEW s \in Seq(Seq(S)), NEW p \in Seq(S)
    PROVE  FlattenSeq(Append(s, p)) = FlattenSeq(s) \o p
<1> DEFINE t == Append(s, p)
           n == Len(s)
<1>1. t \in Seq(Seq(S)) /\ t # <<>> /\ Len(t) = n + 1 /\ n \in Nat /\ t[n + 1] = p
      /\ \A i \in 1..n : s[i] = t[i]
  BY AppendFacts
<1> HIDE DEF t
<1>2. PICK g \in [1..Len(t) -> Seq(S)] : Flat(t, Len(t), g) /\ FlattenSeq(t) = g[Len(t)]
  BY <1>1, FlatSeq
<1>3. FlattenSeq(t) = g[n + 1] /\ Flat(t, n + 1, g)
  BY <1>1, <1>2
<1>4. g[n + 1] = IF n = 0 THEN p ELSE g[n] \o p
  <2>1. n + 1 \in 1..(n + 1) /\ (n + 1) - 1 = n /\ (n + 1 = 1 <=> n = 0)
    BY <1>1
  <2> QED
    BY <1>1, <1>3, <2>1 DEF Flat
<1>5. CASE n = 0
  <2>1. s = <<>> /\ <<>> \o p = p
    BY <1>5, EmptySeq, ConcatEmptySeq
  <2> QED
    BY <1>3, <1>4, <1>5, <2>1, FlatEmpty DEF t
<1>6. CASE n # 0
  <2>1. s # <<>> /\ n \in 1..n /\ n <= n + 1 /\ n + 1 \in Nat
    BY <1>1, <1>6, EmptySeq
  <2>2. PICK f \in [1..n -> Seq(S)] : Flat(s, n, f) /\ FlattenSeq(s) = f[n]
    BY <2>1, FlatSeq
  <2> HIDE DEF n
  <2>3. Agree(f, g, n)
    <3>1. Agree(s, t, n)
      BY <1>1 DEF Agree
    <3> QED
      BY <1>1, <1>3, <2>1, <2>2, <3>1, FlatUnique
  <2> QED
    BY <1>3, <1>4, <1>6, <2>1, <2>2, <2>3 DEF t, Agree
<1> QED
  BY <1>5, <1>6

LEMMA FlatOne ==
    ASSUME NEW S, NEW p \in Seq(S)
    PROVE  FlattenSeq(<<p>>) = p
<1>1. <<>> \in Seq(Seq(S)) /\ Append(<<>>, p) = <<p>> /\ <<>> \o p = p
  BY AppendFacts, EmptySeq, ConcatEmptySeq
<1> QED
  BY <1>1, FlatAppend, FlatEmpty

LEMMA FlatConcat ==
    ASSUME NEW S, NEW s \in Seq(Seq(S)), NEW t \in Seq(Seq(S))
    PROVE  FlattenSeq(s \o t) = FlattenSeq(s) \o FlattenSeq(t)
<1> DEFINE T == {n \in Nat : n <= Len(t) =>
                    FlattenSeq(s \o SubSeq(t, 1, n)) = FlattenSeq(s) \o FlattenSeq(SubSeq(t, 1, n))}
<1>1. FlattenSeq(s) \in Seq(S) /\ FlattenSeq(s) \o <<>> = FlattenSeq(s)
  BY FlatType, ConcatEmptySeq
<1>2. 0 \in T
  <2>1. SubSeq(t, 1, 0) = <<>> /\ s \o <<>> = s
    BY PrefixFacts
  <2> QED
    BY <1>1, <2>1, FlatEmpty
<1>3. ASSUME NEW n \in Nat, n \in T PROVE n + 1 \in T
  <2> SUFFICES ASSUME n + 1 <= Len(t)
               PROVE  FlattenSeq(s \o SubSeq(t, 1, n + 1)) = FlattenSeq(s) \o FlattenSeq(SubSeq(t, 1, n + 1))
    OBVIOUS
  <2> DEFINE u == SubSeq(t, 1, n)
             p == t[n + 1]
             fs == FlattenSeq(s)
             fu == FlattenSeq(u)
  <2>1. n <= Len(t) /\ FlattenSeq(s \o u) = fs \o fu
    BY <1>3, PrefixFacts
  <2>2. u \in Seq(Seq(S)) /\ p \in Seq(S) /\ SubSeq(t, 1, n + 1) = Append(u, p)
    BY PrefixFacts
  <2> HIDE DEF u, p
  <2>3. s \o Append(u, p) = Append(s \o u, p) /\ s \o u \in Seq(Seq(S))
    BY <2>2, AppendConcat
  <2>4. FlattenSeq(Append(s \o u, p)) = (fs \o fu) \o p
    BY <2>1, <2>2, <2>3, FlatAppend
  <2>5. FlattenSeq(Append(u, p)) = fu \o p /\ fu \in Seq(S) /\ fs \in Seq(S)
    BY <1>1, <2>2, FlatAppend, FlatType
  <2> HIDE DEF fs, fu
  <2>6. (fs \o fu) \o p = fs \o (fu \o p)
    <3>1. fs \in Seq(S) /\ fu \in Seq(S) /\ p \in Seq(S)
      BY <2>2, <2>5
    <3> QED
      BY ONLY <3>1, ConcatAssociative
  <2> QED
    BY <2>2, <2>3, <2>4, <2>5, <2>6 DEF fs
<1>4. Len(t) \in T /\ Len(t) \in Nat
  <2>1. Len(t) \in Nat
    BY PrefixFacts
  <2> HIDE DEF T
  <2> QED
    BY <1>2, <1>3, <2>1, Induction
<1>5. SubSeq(t, 1, Len(t)) = t
  BY PrefixFacts
<1>6. FlattenSeq(s \o SubSeq(t, 1, Len(t))) = FlattenSeq(s) \o FlattenSeq(SubSeq(t, 1, Len(t)))
  BY <1>4
<1> QED
  BY <1>5, <1>6

-----------------------------------------------------------------------------
(* Runes of a text: its first n, and those after them.                     *)

Upto(s, n) == SubSeq(s, 1, n)
From(s, n) == SubSeq(s, n + 1, Len(s))

LEMMA UptoFacts ==
    ASSUME NEW S, NEW s \in Seq(S), NEW n \in 0..Len(s)
    PROVE  /\ Upto(s, n) \in Seq(S) /\ Len(Upto(s, n)) = n
           /\ \A i \in 1..n : Upto(s, n)[i] = s[i]
<1>1. \A i \in 1..n : s[i] \in S
  OBVIOUS
<1>2. n \in Int /\ 1 \in Int /\ n - 1 + 1 = n /\ (1 <= n <=> n # 0)
  OBVIOUS
<1>3. /\ SubSeq(s, 1, n) \in Seq(S)
      /\ Len(SubSeq(s, 1, n)) = IF 1 <= n THEN n - 1 + 1 ELSE 0
      /\ \A i \in 1..(n - 1 + 1) : SubSeq(s, 1, n)[i] = s[1 + i - 1]
  BY <1>1, <1>2, SubSeqProperties
<1> QED
  BY <1>2, <1>3 DEF Upto

LEMMA FromFacts ==
    ASSUME NEW S, NEW s \in Seq(S), NEW n \in 0..Len(s)
    PROVE  /\ From(s, n) \in Seq(S) /\ Len(From(s, n)) = Len(s) - n
           /\ \A i \in 1..(Len(s) - n) : From(s, n)[i] = s[n + i]
<1> DEFINE l == Len(s)
           m == n + 1
<1>1. l \in Int /\ m \in Int /\ l - m + 1 = l - n /\ (m <= l <=> l - n # 0)
  OBVIOUS
<1>2. \A i \in m..l : s[i] \in S
  OBVIOUS
<1> HIDE DEF m
<1>3. /\ SubSeq(s, m, l) \in Seq(S)
      /\ Len(SubSeq(s, m, l)) = IF m <= l THEN l - m + 1 ELSE 0
      /\ \A i \in 1..(l - m + 1) : SubSeq(s, m, l)[i] = s[m + i - 1]
  BY <1>1, <1>2, SubSeqProperties
<1>4. \A i \in 1..(l - n) : m + i - 1 = n + i
  BY DEF m
<1> QED
  BY <1>1, <1>3, <1>4 DEF From, m

LEMMA UptoFrom ==
    ASSUME NEW S, NEW s \in Seq(S), NEW n \in 0..Len(s)
    PROVE  s = Upto(s, n) \o From(s, n)
<1> DEFINE a == Upto(s, n)
           b == From(s, n)
<1>1. /\ a \in Seq(S) /\ Len(a) = n /\ \A i \in 1..n : a[i] = s[i]
      /\ b \in Seq(S) /\ Len(b) = Len(s) - n /\ \A i \in 1..(Len(s) - n) : b[i] = s[n + i]
  BY UptoFacts, FromFacts
<1> HIDE DEF a, b
<1>2. /\ a \o b \in Seq(S) /\ Len(a \o b) = Len(a) + Len(b)
      /\ \A i \in 1..(Len(a) + Len(b)) :
            (a \o b)[i] = IF i <= Len(a) THEN a[i] ELSE b[i - Len(a)]
  BY <1>1, ConcatProperties
<1>3. ASSUME NEW i \in 1..Len(s) PROVE (a \o b)[i] = s[i]
  <2>1. i <= n \/ i - n \in 1..(Len(s) - n)
    OBVIOUS
  <2>2. i \in 1..(Len(a) + Len(b)) /\ n + (i - n) = i
    BY <1>1
  <2> QED
    BY <1>1, <1>2, <2>1, <2>2
<1>4. Len(a \o b) = Len(s)
  BY <1>1, <1>2
<1> QED
  BY <1>2, <1>3, <1>4, SeqEqual DEF a, b

LEMMA UptoConcat ==
    ASSUME NEW S, NEW s \in Seq(S), NEW t \in Seq(S), NEW n \in 0..(Len(s) + Len(t))
    PROVE  Upto(s \o t, n) = IF n <= Len(s) THEN Upto(s, n) ELSE s \o Upto(t, n - Len(s))
<1> DEFINE c == s \o t
           u == Upto(c, n)
<1>1. /\ c \in Seq(S) /\ Len(c) = Len(s) + Len(t)
      /\ \A i \in 1..(Len(s) + Len(t)) : c[i] = IF i <= Len(s) THEN s[i] ELSE t[i - Len(s)]
  BY ConcatProperties
<1> HIDE DEF c
<1>2. u \in Seq(S) /\ Len(u) = n /\ \A i \in 1..n : u[i] = c[i]
  BY <1>1, UptoFacts
<1> HIDE DEF u
<1>3. CASE n <= Len(s)
  <2> DEFINE v == Upto(s, n)
  <2>1. v \in Seq(S) /\ Len(v) = n /\ \A i \in 1..n : v[i] = s[i]
    BY <1>3, UptoFacts
  <2> HIDE DEF v
  <2>2. \A i \in 1..n : u[i] = v[i]
    BY <1>1, <1>2, <1>3, <2>1
  <2> QED
    BY <1>2, <1>3, <2>1, <2>2, SeqEqual DEF u, v, c
<1>4. CASE ~(n <= Len(s))
  <2> DEFINE k == n - Len(s)
             v == Upto(t, k)
             w == s \o v
  <2>1. k \in 0..Len(t) /\ n = Len(s) + k
    BY <1>4
  <2> HIDE DEF k
  <2>2. v \in Seq(S) /\ Len(v) = k /\ \A i \in 1..k : v[i] = t[i]
    BY <2>1, UptoFacts
  <2> HIDE DEF v
  <2>3. /\ w \in Seq(S) /\ Len(w) = Len(s) + Len(v)
        /\ \A i \in 1..(Len(s) + Len(v)) : w[i] = IF i <= Len(s) THEN s[i] ELSE v[i - Len(s)]
    BY <2>2, ConcatProperties
  <2> HIDE DEF w
  <2>4. ASSUME NEW i \in 1..n PROVE u[i] = w[i]
    <3> DEFINE l == Len(s)
    <3>1. l \in Nat /\ Len(t) \in Nat
      OBVIOUS
    <3>2. /\ i <= l \/ i - l \in 1..k
          /\ i \in 1..(l + Len(t)) /\ i \in 1..(l + k)
      <4> HIDE DEF l
      <4> QED
        BY <2>1, <3>1 DEF l
    <3>3. u[i] = IF i <= l THEN s[i] ELSE t[i - l]
      BY <1>1, <1>2, <3>2
    <3>4. w[i] = IF i <= l THEN s[i] ELSE v[i - l]
      BY <2>2, <2>3, <3>2
    <3> HIDE DEF l
    <3> QED
      BY <2>2, <3>2, <3>3, <3>4
  <2>5. Len(w) = n
    BY <2>1, <2>2, <2>3
  <2> QED
    BY <1>2, <1>4, <2>3, <2>4, <2>5, SeqEqual DEF u, w, v, k, c
<1> QED
  BY <1>3, <1>4

LEMMA FromConcat ==
    ASSUME NEW S, NEW s \in Seq(S), NEW t \in Seq(S), NEW n \in 0..(Len(s) + Len(t))
    PROVE  From(s \o t, n) = IF n <= Len(s) THEN From(s, n) \o t ELSE From(t, n - Len(s))
<1> DEFINE c == s \o t
           u == From(c, n)
<1>1. /\ c \in Seq(S) /\ Len(c) = Len(s) + Len(t)
      /\ \A i \in 1..(Len(s) + Len(t)) : c[i] = IF i <= Len(s) THEN s[i] ELSE t[i - Len(s)]
  BY ConcatProperties
<1> HIDE DEF c
<1> DEFINE l == Len(s)
           m == l + Len(t)
<1>2. u \in Seq(S) /\ Len(u) = m - n /\ \A i \in 1..(m - n) : u[i] = c[n + i]
  <2>1. n \in 0..Len(c) /\ Len(c) = m
    BY <1>1
  <2> HIDE DEF m
  <2>2. u \in Seq(S) /\ Len(u) = Len(c) - n /\ \A i \in 1..(Len(c) - n) : u[i] = c[n + i]
    BY <1>1, <2>1, FromFacts
  <2> QED
    BY <2>1, <2>2
<1> HIDE DEF u
<1>3. CASE n <= Len(s)
  <2> DEFINE k == l - n
             v == From(s, n)
             w == v \o t
  <2>1. v \in Seq(S) /\ Len(v) = k /\ \A i \in 1..k : v[i] = s[n + i]
    <3>1. n \in 0..Len(s)
      BY <1>3
    <3> QED
      BY <3>1, FromFacts
  <2>2. k \in Nat /\ n + k = l /\ l \in Nat /\ Len(t) \in Nat
    BY <1>3
  <2> HIDE DEF v, k
  <2>3. /\ w \in Seq(S) /\ Len(w) = Len(v) + Len(t)
        /\ \A i \in 1..(Len(v) + Len(t)) : w[i] = IF i <= Len(v) THEN v[i] ELSE t[i - Len(v)]
    BY <2>1, ConcatProperties
  <2> HIDE DEF w
  <2>4. ASSUME NEW i \in 1..Len(u) PROVE u[i] = w[i]
    <3>1. /\ i \in 1..(m - n) /\ n + i \in 1..m
          /\ (n + i <= l <=> i <= k) /\ (n + i) - l = i - k
          /\ i \in 1..(k + Len(t)) /\ (i <= k => i \in 1..k)
      <4>1. i \in 1..(m - n)
        BY <1>2
      <4> HIDE DEF l
      <4> QED
        BY <2>2, <4>1
    <3>2. u[i] = IF n + i <= l THEN s[n + i] ELSE t[(n + i) - l]
      BY <1>1, <1>2, <3>1
    <3>3. w[i] = IF i <= k THEN v[i] ELSE t[i - k]
      BY <2>1, <2>3, <3>1
    <3> HIDE DEF l, m
    <3> QED
      BY <2>1, <3>1, <3>2, <3>3
  <2>5. Len(w) = Len(u)
    <3>1. Len(w) = k + Len(t) /\ Len(u) = m - n
      BY <1>2, <2>1, <2>3
    <3> HIDE DEF l
    <3> QED
      BY <2>2, <3>1
  <2> QED
    BY <1>2, <1>3, <2>3, <2>4, <2>5, SeqEqual DEF u, w, v, c
<1>4. CASE ~(n <= Len(s))
  <2> DEFINE k == n - Len(s)
             v == From(t, k)
  <2>1. k \in 0..Len(t) /\ n = Len(s) + k
    BY <1>4
  <2> HIDE DEF k
  <2>2. v \in Seq(S) /\ Len(v) = Len(t) - k /\ \A i \in 1..(Len(t) - k) : v[i] = t[k + i]
    BY <2>1, FromFacts
  <2> HIDE DEF v
  <2>3. ASSUME NEW i \in 1..Len(u) PROVE u[i] = v[i]
    <3>1. /\ i \in 1..(m - n) /\ n + i \in 1..m
          /\ ~(n + i <= l) /\ (n + i) - l = k + i /\ i \in 1..(Len(t) - k)
      <4>1. i \in 1..(m - n) /\ l \in Nat /\ Len(t) \in Nat
        BY <1>2
      <4> HIDE DEF l
      <4> QED
        BY <2>1, <4>1 DEF l
    <3> QED
      BY <1>1, <1>2, <2>2, <3>1
  <2>4. Len(v) = Len(u)
    BY <1>2, <2>1, <2>2
  <2> QED
    BY <1>2, <1>4, <2>2, <2>3, <2>4, SeqEqual DEF u, v, k, c
<1> QED
  BY <1>3, <1>4

LEMMA Ends ==
    ASSUME NEW S, NEW s \in Seq(S)
    PROVE  Upto(s, Len(s)) = s /\ From(s, Len(s)) = <<>> /\ Upto(s, 0) = <<>> /\ From(s, 0) = s
<1>1. Len(s) \in Nat
  OBVIOUS
<1> QED
  BY <1>1, SubSeqFull, SubSeqEmpty DEF Upto, From

LEMMA Halves ==
    ASSUME NEW S, NEW s \in Seq(S), NEW n \in 0..Len(s)
    PROVE  \E a, b \in Seq(S) : s = a \o b /\ Len(a) = n
BY UptoFacts, FromFacts, UptoFrom

-----------------------------------------------------------------------------
(* Edits of a text.                                                        *)

LEMMA InsSplit ==
    ASSUME NEW S, NEW a \in Seq(S), NEW b \in Seq(S), NEW new
    PROVE  InsAt(a \o b, Len(a), new) = (a \o new) \o b
<1>1. Len(a) \in Nat /\ Len(b) \in Nat /\ Len(a) \in 0..(Len(a) + Len(b)) /\ Len(a) <= Len(a)
  OBVIOUS
<1>2. Upto(a \o b, Len(a)) = a /\ From(a \o b, Len(a)) = <<>> \o b
  BY <1>1, UptoConcat, FromConcat, Ends
<1>3. <<>> \o b = b
  BY ConcatEmptySeq
<1> QED
  BY <1>2, <1>3 DEF InsAt, Upto, From

LEMMA DelSplit ==
    ASSUME NEW S, NEW a \in Seq(S), NEW d \in Seq(S), NEW b \in Seq(S)
    PROVE  DelAt((a \o d) \o b, Len(a), Len(d)) = a \o b
<1> DEFINE c == a \o d
<1>1. c \in Seq(S) /\ Len(c) = Len(a) + Len(d) /\ Len(a) \in Nat /\ Len(b) \in Nat /\ Len(d) \in Nat
  BY ConcatProperties
<1> HIDE DEF c
<1>2. /\ Len(a) \in 0..(Len(c) + Len(b)) /\ Len(c) \in 0..(Len(c) + Len(b))
      /\ Len(a) <= Len(c) /\ Len(c) <= Len(c) /\ Len(a) <= Len(a) /\ Len(a) \in 0..(Len(a) + Len(d))
  BY <1>1
<1>3. Upto(c \o b, Len(a)) = Upto(c, Len(a))
  BY <1>1, <1>2, UptoConcat
<1>4. Upto(c, Len(a)) = a
  BY <1>1, <1>2, UptoConcat, Ends DEF c
<1>5. From(c \o b, Len(c)) = b
  <2>1. From(c \o b, Len(c)) = From(c, Len(c)) \o b
    BY <1>1, <1>2, FromConcat
  <2>2. From(c, Len(c)) = <<>>
    BY <1>1, Ends
  <2>3. <<>> \o b = b
    BY ConcatEmptySeq
  <2> QED
    BY <2>1, <2>2, <2>3
<1> QED
  BY <1>1, <1>3, <1>4, <1>5 DEF DelAt, Upto, From, c

\* t is s with d inserted.
Inserts(S, s, off, d, t) ==
    /\ t \in Seq(S) /\ Len(t) = Len(s) + Len(d)
    /\ \A j \in 1..Len(s) : t[IF j <= off THEN j ELSE j + Len(d)] = s[j]
    /\ \A j \in 1..Len(d) : t[off + j] = d[j]

LEMMA InsInserts ==
    ASSUME NEW S, NEW s \in Seq(S), NEW off \in 0..Len(s), NEW d \in Seq(S)
    PROVE  Inserts(S, s, off, d, InsAt(s, off, d))
<1>1. PICK a, b \in Seq(S) : s = a \o b /\ Len(a) = off
  BY Halves
<1> DEFINE c == a \o d
           t == c \o b
           l == Len(a)
           m == Len(d)
           k == Len(b)
<1>2. InsAt(s, off, d) = t
  BY <1>1, InsSplit
<1>3. l \in Nat /\ m \in Nat /\ k \in Nat /\ off = l
  BY <1>1
<1>4. Len(s) = l + k /\ \A i \in 1..(l + k) : s[i] = IF i <= l THEN a[i] ELSE b[i - l]
  BY <1>1, ConcatProperties
<1>5. c \in Seq(S) /\ Len(c) = l + m /\ \A i \in 1..(l + m) : c[i] = IF i <= l THEN a[i] ELSE d[i - l]
  BY ConcatProperties
<1> HIDE DEF c
<1>6. /\ t \in Seq(S) /\ Len(t) = Len(c) + k
      /\ \A i \in 1..(Len(c) + k) : t[i] = IF i <= Len(c) THEN c[i] ELSE b[i - Len(c)]
  <2>1. c \in Seq(S)
    BY <1>5
  <2> QED
    BY <2>1, ConcatProperties
<1> HIDE DEF t, l, m, k
<1>7. ASSUME NEW j \in 1..Len(s) PROVE t[IF j <= off THEN j ELSE j + m] = s[j]
  <2>1. j \in 1..(l + k)
    BY <1>4
  <2>2. CASE j <= l
    <3>1. j \in 1..(Len(c) + k) /\ j <= Len(c) /\ j \in 1..(l + m)
      BY <1>3, <1>5, <2>1, <2>2
    <3>2. t[j] = c[j] /\ c[j] = a[j] /\ s[j] = a[j]
      BY <1>4, <1>5, <1>6, <2>1, <2>2, <3>1
    <3> QED
      BY <1>3, <2>2, <3>2
  <2>3. CASE ~(j <= l)
    <3> DEFINE i == j + m
    <3>1. i \in 1..(Len(c) + k) /\ ~(i <= Len(c)) /\ i - Len(c) = j - l
      BY <1>3, <1>5, <2>1, <2>3
    <3> HIDE DEF i
    <3>2. t[i] = b[i - Len(c)] /\ s[j] = b[j - l]
      BY <1>4, <1>6, <2>1, <2>3, <3>1
    <3> QED
      BY <1>3, <2>3, <3>1, <3>2 DEF i
  <2> QED
    BY <2>2, <2>3
<1>8. ASSUME NEW j \in 1..m PROVE t[off + j] = d[j]
  <2> DEFINE i == l + j
  <2>1. i \in 1..(Len(c) + k) /\ i <= Len(c) /\ i \in 1..(l + m) /\ ~(i <= l) /\ i - l = j
    BY <1>3, <1>5
  <2> HIDE DEF i
  <2>2. t[i] = c[i] /\ c[i] = d[i - l]
    BY <1>5, <1>6, <2>1
  <2> QED
    BY <1>3, <2>1, <2>2 DEF i
<1>9. Len(t) = Len(s) + m
  BY <1>3, <1>4, <1>5, <1>6
<1>10. Inserts(S, s, off, d, t)
  BY <1>6, <1>7, <1>8, <1>9 DEF m, Inserts
<1> QED
  BY <1>2, <1>10

\* What was inserted is deleted.
LEMMA DelIns ==
    ASSUME NEW S, NEW s \in Seq(S), NEW off \in 0..Len(s), NEW d \in Seq(S)
    PROVE  DelAt(InsAt(s, off, d), off, Len(d)) = s
<1>1. PICK a, b \in Seq(S) : s = a \o b /\ Len(a) = off
  BY Halves
<1>2. InsAt(s, off, d) = (a \o d) \o b
  BY <1>1, InsSplit
<1>3. DelAt((a \o d) \o b, Len(a), Len(d)) = a \o b
  BY DelSplit
<1> QED
  BY <1>1, <1>2, <1>3

LEMMA Associative ==
    \A S : \A x \in Seq(S), y \in Seq(S), z \in Seq(S) : (x \o y) \o z = x \o (y \o z)
BY ONLY ConcatAssociative, SMT

\* Inserting where the last insertion ended.
LEMMA InsIns ==
    ASSUME NEW S, NEW s \in Seq(S), NEW off \in 0..Len(s), NEW d \in Seq(S), NEW e \in Seq(S)
    PROVE  InsAt(InsAt(s, off, d), off + Len(d), e) = InsAt(s, off, d \o e)
<1>1. PICK a, b \in Seq(S) : s = a \o b /\ Len(a) = off
  BY Halves
<1>2. InsAt(s, off, d) = (a \o d) \o b /\ InsAt(s, off, d \o e) = (a \o (d \o e)) \o b
  BY <1>1, InsSplit
<1>3. a \o d \in Seq(S) /\ Len(a \o d) = off + Len(d)
  BY <1>1, ConcatProperties
<1>4. InsAt((a \o d) \o b, off + Len(d), e) = ((a \o d) \o e) \o b
  BY <1>3, InsSplit
<1>5. (a \o d) \o e = a \o (d \o e)
  BY Associative, SMTT(30)
<1> QED
  BY <1>2, <1>4, <1>5

\* What is deleted can be inserted again.
\* d is what is deleted.
Deletes(S, s, off, n, d) ==
    /\ d \in Seq(S) /\ d # <<>> /\ off + Len(d) <= Len(s)
    /\ DelAt(s, off, n) \in Seq(S) /\ Len(DelAt(s, off, n)) = Len(s) - Len(d)
    /\ off <= Len(DelAt(s, off, n))
    /\ s = InsAt(DelAt(s, off, n), off, d)

LEMMA DelFacts ==
    ASSUME NEW S, NEW s \in Seq(S), NEW off \in 0..(Len(s) - 1), NEW n \in Nat \ {0}, NEW d,
           d = SubSeq(s, off + 1, IF off + n < Len(s) THEN off + n ELSE Len(s))
    PROVE  Deletes(S, s, off, n, d)
<1> DEFINE l == Len(s)
           m == IF off + n < l THEN off + n ELSE l
           a == Upto(s, off)
           b == From(s, m)
<1>1. l \in Nat /\ off \in 0..l /\ off + 1 \in 1..l /\ m \in 0..l /\ off < m /\ m \in off..l /\ 1 \in 1..(l + 1)
      /\ off \in (1 - 1)..l
  OBVIOUS
<1>2. d = SubSeq(s, off + 1, m)
  OBVIOUS
<1> HIDE DEF m
<1>3. d \in Seq(S) /\ Len(d) = m - off
  <2> DEFINE p == off + 1
  <2>1. \A i \in p..m : s[i] \in S
    BY <1>1
  <2>2. p \in Int /\ m \in Int /\ p <= m /\ m - p + 1 = m - off
    BY <1>1
  <2> HIDE DEF p
  <2>3. SubSeq(s, p, m) \in Seq(S) /\ Len(SubSeq(s, p, m)) = IF p <= m THEN m - p + 1 ELSE 0
    BY <2>1, <2>2, SubSeqProperties
  <2> QED
    BY <1>2, <2>2, <2>3 DEF p
<1>4. /\ a \in Seq(S) /\ Len(a) = off /\ b \in Seq(S) /\ Len(b) = l - m
      /\ s = Upto(s, m) \o b
  <2>1. a \in Seq(S) /\ Len(a) = off
    BY <1>1, UptoFacts
  <2>2. b \in Seq(S) /\ Len(b) = l - m
    BY <1>1, FromFacts
  <2>3. s = Upto(s, m) \o b
    BY <1>1, UptoFrom
  <2> QED
    BY <2>1, <2>2, <2>3
<1>5. Upto(s, m) = a \o d
  BY <1>1, <1>2, ConcatAdjacentSubSeq DEF Upto
<1>6. From(s, off + n) = b
  <2>1. CASE off + n < l
    BY <2>1 DEF m
  <2>2. CASE ~(off + n < l)
    <3>1. l \in Int /\ off + n + 1 \in Int /\ l < off + n + 1
      BY <1>1, <2>2
    <3>2. From(s, off + n) = <<>>
      BY <3>1, SubSeqEmpty DEF From
    <3>3. m = l
      BY <2>2 DEF m
    <3> QED
      BY <3>2, <3>3, Ends
  <2> QED
    BY <2>1, <2>2
<1>7. DelAt(s, off, n) = a \o b
  BY <1>6 DEF DelAt, Upto, From
<1> HIDE DEF a, b
<1>8. a \o b \in Seq(S) /\ Len(a \o b) = off + (l - m)
  BY <1>4, ConcatProperties
<1>9. InsAt(a \o b, off, d) = (a \o d) \o b
  BY <1>4, InsSplit
<1>10. Len(d) # 0 /\ off + Len(d) <= l /\ off + (l - m) = l - Len(d) /\ off <= off + (l - m)
  <2> DEFINE k == Len(d)
  <2>1. k = m - off
    BY <1>3
  <2>2. off \in Nat /\ l \in Nat /\ m \in Nat /\ off < m /\ m <= l
    BY <1>1
  <2> HIDE DEF k, l
  <2>3. k # 0 /\ off + k <= l /\ off + (l - m) = l - k /\ off <= off + (l - m)
    BY <2>1, <2>2
  <2> QED
    BY <2>3 DEF k
<1>11. d # <<>>
  BY <1>10, EmptySeq
<1> QED
  BY <1>3, <1>4, <1>5, <1>7, <1>8, <1>9, <1>10, <1>11 DEF Deletes

-----------------------------------------------------------------------------
(* Where pieces start.                                                     *)

Piece(S) == Seq(S) \ {<<>>}

LEMMA PieceFacts ==
    ASSUME NEW S, NEW d \in Seq(Piece(S))
    PROVE  d \in Seq(Seq(S)) /\ Len(d) \in Nat /\ \A i \in 1..Len(d) : d[i] \in Seq(S) /\ d[i] # <<>>
<1>1. Piece(S) \subseteq Seq(S)
  BY DEF Piece
<1>2. d \in Seq(Seq(S)) /\ Len(d) \in Nat
  BY <1>1, SeqMonotonic, LenProperties
<1>3. \A i \in 1..Len(d) : d[i] \in Piece(S)
  BY ElementOfSeq
<1> QED
  BY <1>2, <1>3 DEF Piece

\* A sequence and one of its elements.
LEMMA Around ==
    ASSUME NEW U, NEW d \in Seq(U), NEW i \in 1..Len(d)
    PROVE  /\ SubSeq(d, 1, i - 1) \in Seq(U) /\ d[i] \in U /\ SubSeq(d, i + 1, Len(d)) \in Seq(U)
           /\ SubSeq(d, 1, i) = Append(SubSeq(d, 1, i - 1), d[i])
           /\ d = Append(SubSeq(d, 1, i - 1), d[i]) \o SubSeq(d, i + 1, Len(d))
<1>1. i - 1 \in Nat /\ (i - 1) + 1 = i /\ i <= Len(d) /\ i \in 0..Len(d)
  OBVIOUS
<1>2. SubSeq(d, 1, i - 1) \in Seq(U) /\ d[i] \in U /\ SubSeq(d, 1, i) = Append(SubSeq(d, 1, i - 1), d[i])
  BY <1>1, PrefixFacts
<1>3. SubSeq(d, i + 1, Len(d)) \in Seq(U)
  BY <1>1, FromFacts DEF From
<1>4. d = SubSeq(d, 1, i) \o SubSeq(d, i + 1, Len(d))
  BY <1>1, UptoFrom DEF From, Upto
<1> QED
  BY <1>2, <1>3, <1>4

LEMMA StartFacts ==
    ASSUME NEW S, NEW d \in Seq(Seq(S)), NEW i \in 1..Len(d)
    PROVE  /\ Start(d, i) \in Nat /\ Start(d, 1) = 0 /\ Len(d[i]) \in Nat
           /\ Start(d, i + 1) = Start(d, i) + Len(d[i])
           /\ Start(d, Len(d) + 1) = Len(FlattenSeq(d))
<1> DEFINE a == SubSeq(d, 1, i - 1)
           fa == FlattenSeq(a)
<1>1. a \in Seq(Seq(S)) /\ d[i] \in Seq(S) /\ SubSeq(d, 1, i) = Append(a, d[i])
  BY Around
<1>2. i \in Int /\ (i + 1) - 1 = i /\ (Len(d) + 1) - 1 = Len(d) /\ 1 - 1 = 0
  OBVIOUS
<1>3. SubSeq(d, 1, 0) = <<>> /\ SubSeq(d, 1, Len(d)) = d
  BY PrefixFacts
<1>4. Start(d, i) = Len(fa) /\ Start(d, i + 1) = Len(FlattenSeq(Append(a, d[i])))
  BY <1>1, <1>2 DEF Start
<1>5. Start(d, 1) = 0 /\ Start(d, Len(d) + 1) = Len(FlattenSeq(d))
  <2>1. Start(d, 1) = Len(FlattenSeq(SubSeq(d, 1, 0)))
    BY <1>2 DEF Start
  <2>2. Start(d, Len(d) + 1) = Len(FlattenSeq(SubSeq(d, 1, Len(d))))
    BY <1>2 DEF Start
  <2>3. Len(<<>>) = 0
    OBVIOUS
  <2> QED
    BY <1>3, <2>1, <2>2, <2>3, FlatEmpty
<1> HIDE DEF a
<1>6. FlattenSeq(Append(a, d[i])) = fa \o d[i] /\ fa \in Seq(S)
  BY <1>1, FlatAppend, FlatType
<1> HIDE DEF fa
<1>7. Len(fa) \in Nat /\ Len(d[i]) \in Nat /\ Len(fa \o d[i]) = Len(fa) + Len(d[i])
  BY <1>1, <1>6, ConcatProperties, LenProperties
<1> QED
  BY <1>4, <1>5, <1>6, <1>7

\* The text around a piece.
LEMMA FlatAround ==
    ASSUME NEW S, NEW d \in Seq(Seq(S)), NEW i \in 1..Len(d)
    PROVE  /\ FlattenSeq(SubSeq(d, 1, i - 1)) \in Seq(S)
           /\ FlattenSeq(SubSeq(d, i + 1, Len(d))) \in Seq(S)
           /\ FlattenSeq(d) = (FlattenSeq(SubSeq(d, 1, i - 1)) \o d[i])
                                \o FlattenSeq(SubSeq(d, i + 1, Len(d)))
<1> DEFINE a == SubSeq(d, 1, i - 1)
           p == d[i]
           b == SubSeq(d, i + 1, Len(d))
<1>1. a \in Seq(Seq(S)) /\ p \in Seq(S) /\ b \in Seq(Seq(S)) /\ d = Append(a, p) \o b
  BY Around
<1> HIDE DEF a, p, b
<1>2. Append(a, p) \in Seq(Seq(S))
  BY <1>1, AppendFacts
<1>3. FlattenSeq(Append(a, p) \o b) = FlattenSeq(Append(a, p)) \o FlattenSeq(b)
  BY <1>1, <1>2, FlatConcat
<1>4. FlattenSeq(Append(a, p)) = FlattenSeq(a) \o p
  BY <1>1, FlatAppend
<1>5. FlattenSeq(a) \in Seq(S) /\ FlattenSeq(b) \in Seq(S)
  BY <1>1, FlatType
<1> QED
  BY <1>1, <1>3, <1>4, <1>5 DEF a, p, b

-----------------------------------------------------------------------------
(* Insertions in pieces.                                                   *)

InsIn(d, off, i) ==
    /\ off - Start(d, i) <= Len(d[i])
    /\ \A j \in 1..(i - 1) : off - Start(d, j) > Len(d[j])

LEMMA InsWhere ==
    ASSUME NEW S, NEW d \in Seq(Seq(S)), d # <<>>, NEW off \in Nat, off <= Len(FlattenSeq(d))
    PROVE  /\ \E i \in 1..Len(d) : InsIn(d, off, i)
           /\ \A i \in 1..Len(d) : InsIn(d, off, i) =>
                off - Start(d, i) \in 0..Len(d[i]) /\ (i # 1 => off > Start(d, i))
<1>1. Len(d) \in Nat /\ d # <<>>
  BY LenProperties
<1>2. Len(d) \in 1..Len(d)
  BY <1>1, EmptySeq
<1>3. \A i \in 1..Len(d) : /\ Start(d, i) \in Nat /\ Start(d, 1) = 0 /\ Len(d[i]) \in Nat
                           /\ Start(d, i + 1) = Start(d, i) + Len(d[i])
  BY StartFacts
<1>4. Start(d, Len(d) + 1) = Len(FlattenSeq(d))
  BY <1>2, StartFacts
<1> DEFINE B == {i \in 1..Len(d) : off - Start(d, i) <= Len(d[i])}
<1>5. B # {}
  <2>1. off - Start(d, Len(d)) <= Len(d[Len(d)])
    BY <1>2, <1>3, <1>4
  <2> QED
    BY <1>2, <2>1
<1>6. B \in SUBSET Nat
  OBVIOUS
<1>7. PICK i \in B : \A j \in B : i <= j
  <2> HIDE DEF B
  <2> QED
    BY <1>5, <1>6, Smallest
<1>8. ASSUME NEW j \in 1..(i - 1) PROVE off - Start(d, j) > Len(d[j])
  <2>1. j \in 1..Len(d) /\ ~(i <= j)
    BY <1>1
  <2>2. ~(off - Start(d, j) <= Len(d[j]))
    BY <1>7, <2>1
  <2>3. Start(d, j) \in Nat /\ Len(d[j]) \in Nat
    BY <1>3, <2>1
  <2> QED
    BY <2>2, <2>3
<1>9. \E k \in 1..Len(d) : InsIn(d, off, k)
  BY <1>8 DEF InsIn
<1>10. ASSUME NEW k \in 1..Len(d), InsIn(d, off, k)
       PROVE  off - Start(d, k) \in 0..Len(d[k]) /\ (k # 1 => off > Start(d, k))
  <2>1. Start(d, k) \in Nat /\ Len(d[k]) \in Nat /\ off - Start(d, k) <= Len(d[k])
    BY <1>3, <1>10 DEF InsIn
  <2>2. k = 1 => Start(d, k) = 0
    BY <1>3
  <2>3. ASSUME k # 1 PROVE off > Start(d, k)
    <3> DEFINE j == k - 1
    <3>1. j \in 1..(k - 1) /\ j \in 1..Len(d) /\ j + 1 = k
      BY <1>1, <2>3
    <3> HIDE DEF j
    <3>2. off - Start(d, j) > Len(d[j])
      BY <1>10, <3>1 DEF InsIn
    <3>3. Start(d, k) = Start(d, j) + Len(d[j]) /\ Start(d, j) \in Nat /\ Len(d[j]) \in Nat
      BY <1>3, <3>1
    <3> QED
      BY <2>1, <3>2, <3>3
  <2> DEFINE x == Start(d, k)
             y == Len(d[k])
  <2>4. x \in Nat /\ y \in Nat /\ off - x <= y /\ x <= off
    BY <2>1, <2>2, <2>3
  <2> HIDE DEF x, y
  <2>5. off - x \in 0..y
    BY <2>4
  <2> QED
    BY <2>3, <2>5 DEF x, y
<1> QED
  BY <1>9, <1>10

FourParts(a, p, r, b) == (a \o (p \o r)) \o b = (a \o p) \o (r \o b)
FiveParts(a, p, n, r, b) == ((a \o (p \o n)) \o r) \o b = ((a \o p) \o n) \o (r \o b)

LEMMA RegroupFour ==
    ASSUME NEW S, NEW a \in Seq(S), NEW p \in Seq(S), NEW r \in Seq(S), NEW b \in Seq(S)
    PROVE  FourParts(a, p, r, b)
<1> DEFINE c == a \o p
<1>1. c \in Seq(S)
  BY ConcatProperties
<1>2. a \o (p \o r) = c \o r
  BY Associative, SMTT(30)
<1> HIDE DEF c
<1>3. (c \o r) \o b = c \o (r \o b)
  BY <1>1, Associative, SMTT(30)
<1> QED
  BY <1>2, <1>3 DEF c, FourParts

LEMMA RegroupFive ==
    ASSUME NEW S, NEW a \in Seq(S), NEW p \in Seq(S), NEW n \in Seq(S), NEW r \in Seq(S), NEW b \in Seq(S)
    PROVE  FiveParts(a, p, n, r, b)
<1> DEFINE c == (a \o p) \o n
<1>1. a \o p \in Seq(S)
  BY ConcatProperties
<1>2. c \in Seq(S)
  BY <1>1, ConcatProperties
<1>3. a \o (p \o n) = c
  BY Associative, SMTT(30)
<1> HIDE DEF c
<1>4. (c \o r) \o b = c \o (r \o b)
  BY <1>2, Associative, SMTT(30)
<1> QED
  BY <1>3, <1>4 DEF c, FiveParts

LEMMA ConcatTypes ==
    ASSUME NEW U, NEW a \in Seq(U), NEW x \in U, NEW b \in Seq(U), NEW c \in Seq(U)
    PROVE  <<x>> \in Seq(U) /\ ((a \o <<x>>) \o b) \o c \in Seq(U) /\ a \o <<x>> \in Seq(U)
           /\ (a \o <<x>>) \o b \in Seq(U) /\ <<>> \in Seq(U)
<1>1. <<x>> \in Seq(U) /\ <<>> \in Seq(U)
  BY AppendFacts
<1>2. a \o <<x>> \in Seq(U)
  BY <1>1, ConcatProperties
<1>3. (a \o <<x>>) \o b \in Seq(U)
  BY <1>2, ConcatProperties
<1>4. ((a \o <<x>>) \o b) \o c \in Seq(U)
  BY <1>3, ConcatProperties
<1> QED
  BY <1>1, <1>2, <1>3, <1>4

LEMMA LastPiece ==
    ASSUME NEW S, NEW d \in Seq(Seq(S)), d # <<>>
    PROVE  /\ Front(d) \in Seq(Seq(S)) /\ Last(d) \in Seq(S) /\ Len(d) \in 1..Len(d)
           /\ FlattenSeq(Front(d)) \in Seq(S) /\ FlattenSeq(d) = FlattenSeq(Front(d)) \o Last(d)
<1> DEFINE a == SubSeq(d, 1, Len(d) - 1)
           p == d[Len(d)]
<1>1. Len(d) \in 1..Len(d)
  BY EmptySeq
<1>2. a \in Seq(Seq(S)) /\ p \in Seq(S) /\ SubSeq(d, 1, Len(d)) = Append(a, p)
  BY <1>1, Around
<1>3. SubSeq(d, 1, Len(d)) = d
  BY PrefixFacts
<1>4. Front(d) = a /\ Last(d) = p
  BY DEF Front, Last
<1> HIDE DEF a, p
<1>5. FlattenSeq(Append(a, p)) = FlattenSeq(a) \o p /\ FlattenSeq(a) \in Seq(S)
  BY <1>2, FlatAppend, FlatType
<1> QED
  BY <1>1, <1>2, <1>3, <1>4, <1>5

\* At the end of the text.
LEMMA InsLast ==
    ASSUME NEW S, NEW d \in Seq(Piece(S)), NEW new \in Piece(S), NEW off, off = Len(FlattenSeq(d))
    PROVE  /\ ins(d, off, new, off) \in Seq(Piece(S))
           /\ FlattenSeq(ins(d, off, new, off)) = InsAt(FlattenSeq(d), off, new)
<1> DEFINE s == FlattenSeq(d)
           a == Front(d)
           p == Last(d)
<1>1. d \in Seq(Seq(S)) /\ new \in Seq(S) /\ new # <<>>
  BY PieceFacts DEF Piece
<1>2. s \in Seq(S)
  BY <1>1, FlatType
<1>3. InsAt(s, off, new) = s \o new
  <2>1. s \o new \in Seq(S)
    BY <1>1, <1>2, ConcatProperties
  <2> HIDE DEF s
  <2>2. InsAt(s, Len(s), new) = (Upto(s, Len(s)) \o new) \o From(s, Len(s))
    BY DEF InsAt, Upto, From
  <2>3. InsAt(s, Len(s), new) = (s \o new) \o <<>>
    BY <1>2, <2>2, Ends
  <2>4. (s \o new) \o <<>> = s \o new
    BY <2>1, ConcatEmptySeq
  <2> QED
    BY <2>3, <2>4 DEF s
<1>4. CASE d # <<>> /\ Len(p) < PieceMax
  <2> DEFINE q == p \o new
  <2>1. ins(d, off, new, off) = Append(a, q)
    BY <1>4 DEF ins
  <2>2. /\ a \in Seq(Seq(S)) /\ p \in Seq(S) /\ FlattenSeq(a) \in Seq(S) /\ s = FlattenSeq(a) \o p
        /\ Len(d) \in 1..Len(d)
    BY <1>1, <1>4, LastPiece
  <2>3. a \in Seq(Piece(S))
    BY <2>2, Around DEF Front
  <2> HIDE DEF a, p
  <2>4. q \in Seq(S) /\ q # <<>>
    BY <1>1, <2>2, ConcatProperties, ConcatEqualIffEmpty
  <2> HIDE DEF q
  <2>5. Append(a, q) \in Seq(Piece(S))
    BY <2>3, <2>4, AppendFacts DEF Piece
  <2>6. FlattenSeq(Append(a, q)) = FlattenSeq(a) \o q
    BY <2>2, <2>4, FlatAppend
  <2>7. FlattenSeq(a) \o (p \o new) = (FlattenSeq(a) \o p) \o new
    <3> DEFINE fa == FlattenSeq(a)
    <3>1. fa \in Seq(S) /\ p \in Seq(S) /\ new \in Seq(S)
      BY <1>1, <2>2
    <3> HIDE DEF fa
    <3>2. (fa \o p) \o new = fa \o (p \o new)
      BY ONLY <3>1, ConcatAssociative
    <3> QED
      BY <3>2 DEF fa
  <2> QED
    BY <1>3, <2>1, <2>2, <2>5, <2>6, <2>7 DEF q
<1>5. CASE ~(d # <<>> /\ Len(p) < PieceMax)
  <2>1. ins(d, off, new, off) = Append(d, new)
    BY <1>5 DEF ins
  <2>2. Append(d, new) \in Seq(Piece(S))
    BY AppendFacts
  <2>3. FlattenSeq(Append(d, new)) = s \o new
    BY <1>1, FlatAppend
  <2> QED
    BY <1>3, <2>1, <2>2, <2>3
<1> QED
  BY <1>4, <1>5

\* In the piece that it falls in.
LEMMA InsMiddle ==
    ASSUME NEW S, NEW d \in Seq(Piece(S)), NEW new \in Piece(S),
           NEW off \in Nat, off < Len(FlattenSeq(d))
    PROVE  /\ ins(d, Len(FlattenSeq(d)), new, off) \in Seq(Piece(S))
           /\ FlattenSeq(ins(d, Len(FlattenSeq(d)), new, off)) = InsAt(FlattenSeq(d), off, new)
<1> DEFINE s == FlattenSeq(d)
           In(j) == InsIn(d, off, j)
           i == CHOOSE j \in 1..Len(d) : In(j)
           k == off - Start(d, i)
           a == SubSeq(d, 1, i - 1)
           b == SubSeq(d, i + 1, Len(d))
           p == Upto(d[i], k)
           r == From(d[i], k)
           rest == IF r = <<>> THEN <<>> ELSE <<r>>
           q == p \o new
           fa == FlattenSeq(a)
           fb == FlattenSeq(b)
<1>1. d \in Seq(Seq(S)) /\ new \in Seq(S) /\ new # <<>> /\ \A j \in 1..Len(d) : d[j] \in Seq(S)
  BY PieceFacts DEF Piece
<1>2. i \in 1..Len(d) /\ k \in 0..Len(d[i])
  <2>1. /\ \E j \in 1..Len(d) : In(j)
        /\ \A j \in 1..Len(d) : In(j) => off - Start(d, j) \in 0..Len(d[j])
    <3>1. d # <<>> /\ off <= Len(s)
      BY <1>1, FlatType, FlatEmpty, LenProperties, EmptySeq
    <3> QED
      BY <1>1, <3>1, InsWhere
  <2> HIDE DEF In
  <2>2. i \in 1..Len(d) /\ In(i)
    BY <2>1
  <2> HIDE DEF i
  <2> QED
    BY <2>1, <2>2
<1>3. ins(d, Len(s), new, off) = ((a \o <<q>>) \o rest) \o b
  <2>1. off # Len(s)
    BY <1>1, FlatType
  <2> QED
    BY <2>1 DEF ins, InsIn, Upto, From
<1> HIDE DEF i
<1>4. /\ a \in Seq(Piece(S)) /\ b \in Seq(Piece(S)) /\ d[i] \in Seq(S)
      /\ a \in Seq(Seq(S)) /\ b \in Seq(Seq(S))
  <2>1. a \in Seq(Piece(S)) /\ b \in Seq(Piece(S))
    BY <1>2, Around
  <2> QED
    BY <1>1, <1>2, <2>1, PieceFacts
<1>5. fa \in Seq(S) /\ fb \in Seq(S) /\ s = (fa \o d[i]) \o fb
  BY <1>1, <1>2, FlatAround
<1>6. p \in Seq(S) /\ r \in Seq(S) /\ Len(p) = k /\ d[i] = p \o r
  BY <1>2, <1>4, UptoFacts, FromFacts, UptoFrom
<1>7. off = Len(fa) + k
  <2>1. Start(d, i) = Len(fa)
    BY DEF Start
  <2>2. Start(d, i) \in Nat
    BY <1>1, <1>2, StartFacts
  <2> HIDE DEF fa
  <2> QED
    BY <2>1, <2>2
<1> HIDE DEF k, a, b, p, r
<1>8. q \in Seq(S) /\ q # <<>>
  BY <1>1, <1>6, ConcatProperties, ConcatEqualIffEmpty
<1> HIDE DEF q
<1>9. rest \in Seq(Piece(S)) /\ rest \in Seq(Seq(S)) /\ FlattenSeq(rest) = r
  <2>1. CASE r = <<>>
    BY <2>1, EmptySeq, FlatEmpty
  <2>2. CASE r # <<>>
    <3>1. r \in Piece(S)
      BY <1>6, <2>2 DEF Piece
    <3>2. <<r>> \in Seq(Piece(S)) /\ <<r>> \in Seq(Seq(S))
      BY <1>6, <3>1, AppendFacts, EmptySeq
    <3> QED
      BY <1>6, <2>2, <3>2, FlatOne
  <2> QED
    BY <2>1, <2>2
<1> HIDE DEF rest
<1>10. ((a \o <<q>>) \o rest) \o b \in Seq(Piece(S))
  <2>1. q \in Piece(S)
    BY <1>8 DEF Piece
  <2> QED
    BY <1>4, <1>9, <2>1, ConcatTypes
<1>11. FlattenSeq(((a \o <<q>>) \o rest) \o b) = ((fa \o q) \o r) \o fb
  <2>1. <<q>> \in Seq(Seq(S)) /\ a \o <<q>> \in Seq(Seq(S)) /\ (a \o <<q>>) \o rest \in Seq(Seq(S))
    BY <1>4, <1>8, <1>9, ConcatTypes
  <2>2. FlattenSeq(a \o <<q>>) = fa \o FlattenSeq(<<q>>) /\ FlattenSeq(<<q>>) = q
    BY <1>4, <1>8, <2>1, FlatConcat, FlatOne
  <2>3. FlattenSeq((a \o <<q>>) \o rest) = FlattenSeq(a \o <<q>>) \o FlattenSeq(rest)
    BY <1>9, <2>1, FlatConcat
  <2>4. FlattenSeq(((a \o <<q>>) \o rest) \o b) = FlattenSeq((a \o <<q>>) \o rest) \o fb
    BY <1>4, <2>1, FlatConcat
  <2> QED
    BY <1>9, <2>2, <2>3, <2>4
<1> HIDE DEF fa, fb, s
<1>12. InsAt(s, off, new) = ((fa \o p) \o new) \o (r \o fb)
  <2>1. fa \o p \in Seq(S) /\ r \o fb \in Seq(S) /\ Len(fa \o p) = off
    BY <1>5, <1>6, <1>7, ConcatProperties
  <2>2. s = (fa \o p) \o (r \o fb)
    <3>1. fa \in Seq(S) /\ p \in Seq(S) /\ r \in Seq(S) /\ fb \in Seq(S)
      BY <1>5, <1>6
    <3>2. FourParts(fa, p, r, fb)
      BY <3>1, RegroupFour
    <3> QED
      BY <1>5, <1>6, <3>2 DEF FourParts
  <2> QED
    BY <2>1, <2>2, InsSplit
<1>13. ((fa \o q) \o r) \o fb = ((fa \o p) \o new) \o (r \o fb)
  <2>1. fa \in Seq(S) /\ p \in Seq(S) /\ new \in Seq(S) /\ r \in Seq(S) /\ fb \in Seq(S)
    BY <1>1, <1>5, <1>6
  <2>2. FiveParts(fa, p, new, r, fb)
    BY <2>1, RegroupFive
  <2> QED
    BY <2>2 DEF q, FiveParts
<1> QED
  BY <1>3, <1>10, <1>11, <1>12, <1>13 DEF s

-----------------------------------------------------------------------------
(* Deletions.                                                              *)

\* Where x falls, in l runes that start at first.
At(x, first, l) == IF x < first THEN 0 ELSE IF x > first + l THEN l ELSE x - first
Clip(s, x, y) == Upto(s, At(x, 0, Len(s))) \o From(s, At(y, 0, Len(s)))
Rest(p, first, x, y) == Upto(p, At(x, first, Len(p))) \o From(p, At(y, first, Len(p)))

LEMMA AtType ==
    ASSUME NEW x \in Nat, NEW l \in Nat, NEW m \in Nat, m # 0
    PROVE  At(x, l, m) \in 0..m
BY DEF At

LEMMA RestType ==
    ASSUME NEW S, NEW p \in Piece(S), NEW first \in Nat, NEW x \in Nat, NEW y \in Nat
    PROVE  Rest(p, first, x, y) \in Seq(S)
<1>1. p \in Seq(S) /\ Len(p) \in Nat /\ Len(p) # 0
  BY EmptySeq DEF Piece
<1>2. At(x, first, Len(p)) \in 0..Len(p) /\ At(y, first, Len(p)) \in 0..Len(p)
  BY <1>1, AtType
<1>3. Upto(p, At(x, first, Len(p))) \in Seq(S)
  BY <1>1, <1>2, UptoFacts
<1>4. From(p, At(y, first, Len(p))) \in Seq(S)
  BY <1>1, <1>2, FromFacts
<1> QED
  BY <1>3, <1>4, ConcatProperties DEF Rest

LEMMA ClipConcat ==
    ASSUME NEW S, NEW s \in Seq(S), NEW p \in Piece(S), NEW x \in Nat, NEW y \in Nat, x <= y
    PROVE  Clip(s \o p, x, y) = Clip(s, x, y) \o Rest(p, Len(s), x, y)
<1> DEFINE l == Len(s)
           m == Len(p)
           xm == At(x, 0, l + m)
           ym == At(y, 0, l + m)
           xp == At(x, l, m)
           yp == At(y, l, m)
           a == Upto(s, At(x, 0, l))
           b == From(s, At(y, 0, l))
           q == Upto(p, xp)
           r == From(p, yp)
           u == Upto(s \o p, xm)
           v == From(s \o p, ym)
<1>1. p \in Seq(S) /\ l \in Nat /\ m \in Nat /\ m # 0 /\ Len(s \o p) = l + m
  <2>1. p \in Seq(S) /\ m \in Nat /\ m # 0
    BY EmptySeq DEF Piece
  <2> QED
    BY <2>1, ConcatProperties, LenProperties
<1>2. Clip(s \o p, x, y) = u \o v /\ Clip(s, x, y) = a \o b /\ Rest(p, l, x, y) = q \o r
  BY <1>1 DEF Clip, Rest
<1>3. /\ xp \in 0..m /\ At(x, 0, l) \in 0..l /\ xm \in 0..(l + m)
      /\ x <= l => At(x, 0, l) = x /\ xm = x /\ xp = 0
      /\ x > l => At(x, 0, l) = l /\ xm > l /\ xm - l = xp
  <2>1. l \in Nat /\ m \in Nat /\ m # 0 /\ x \in Nat
    BY <1>1
  <2> HIDE DEF l, m
  <2>2. /\ At(x, l, m) \in 0..m /\ At(x, 0, l) \in 0..l /\ At(x, 0, l + m) \in 0..(l + m)
        /\ x <= l => At(x, 0, l) = x /\ At(x, 0, l + m) = x /\ At(x, l, m) = 0
        /\ x > l => At(x, 0, l) = l /\ At(x, 0, l + m) > l /\ At(x, 0, l + m) - l = At(x, l, m)
    BY ONLY <2>1 DEF At
  <2> QED
    BY <2>2
<1>4. /\ yp \in 0..m /\ At(y, 0, l) \in 0..l /\ ym \in 0..(l + m)
      /\ y <= l => At(y, 0, l) = y /\ ym = y /\ yp = 0
      /\ y > l => At(y, 0, l) = l /\ ym > l /\ ym - l = yp
  <2>1. l \in Nat /\ m \in Nat /\ m # 0 /\ y \in Nat
    BY <1>1
  <2> HIDE DEF l, m
  <2>2. /\ At(y, l, m) \in 0..m /\ At(y, 0, l) \in 0..l /\ At(y, 0, l + m) \in 0..(l + m)
        /\ y <= l => At(y, 0, l) = y /\ At(y, 0, l + m) = y /\ At(y, l, m) = 0
        /\ y > l => At(y, 0, l) = l /\ At(y, 0, l + m) > l /\ At(y, 0, l + m) - l = At(y, l, m)
    BY ONLY <2>1 DEF At
  <2> QED
    BY <2>2
<1> HIDE DEF xm, ym, xp, yp
<1>5. a \in Seq(S)
  BY <1>1, <1>3, UptoFacts
<1>6. b \in Seq(S)
  BY <1>1, <1>4, FromFacts
<1>7. q \in Seq(S)
  BY <1>1, <1>3, UptoFacts
<1>8. r \in Seq(S)
  BY <1>1, <1>4, FromFacts
<1>9. u = IF xm <= l THEN Upto(s, xm) ELSE s \o Upto(p, xm - l)
  BY <1>1, <1>3, UptoConcat
<1>10. v = IF ym <= l THEN From(s, ym) \o p ELSE From(p, ym - l)
  BY <1>1, <1>4, FromConcat
<1>11. Upto(s, l) = s /\ From(s, l) = <<>> /\ Upto(p, 0) = <<>> /\ From(p, 0) = p
  BY <1>1, Ends
<1>12. x <= l \/ x > l
  BY <1>1
<1>13. y <= l \/ y > l
  BY <1>1
<1>14. CASE y <= l
  <2>1. x <= l
    BY <1>1, <1>14
  <2>2. u = a /\ v = b \o p /\ q = <<>> /\ r = p
    BY <1>3, <1>4, <1>9, <1>10, <1>11, <1>14, <2>1
  <2> HIDE DEF a, b, q, r, u, v
  <2>3. <<>> \o p = p
    BY <1>1, ConcatEmptySeq
  <2>4. (a \o b) \o p = a \o (b \o p)
    BY <1>1, <1>5, <1>6, Associative, SMTT(30)
  <2> QED
    BY <1>2, <2>2, <2>3, <2>4
<1>15. CASE x <= l /\ y > l
  <2>1. ~(ym <= l) /\ xm <= l
    BY <1>1, <1>3, <1>4, <1>15
  <2>2. u = a /\ v = r /\ q = <<>> /\ b = <<>>
    BY <1>3, <1>4, <1>9, <1>10, <1>11, <1>15, <2>1
  <2> HIDE DEF a, b, q, r, u, v
  <2>3. <<>> \o r = r /\ a \o <<>> = a
    BY <1>5, <1>8, ConcatEmptySeq
  <2> QED
    BY <1>2, <2>2, <2>3
<1>16. CASE x > l
  <2>1. y > l
    BY <1>1, <1>16
  <2>2. ~(ym <= l) /\ ~(xm <= l)
    BY <1>1, <1>3, <1>4, <1>16, <2>1
  <2>3. u = s \o q /\ v = r /\ a = s /\ b = <<>>
    BY <1>3, <1>4, <1>9, <1>10, <1>11, <1>16, <2>1, <2>2
  <2> HIDE DEF a, b, q, r, u, v
  <2>4. s \o <<>> = s
    BY <1>1, ConcatEmptySeq
  <2>5. (s \o q) \o r = s \o (q \o r)
    BY <1>7, <1>8, Associative, SMTT(30)
  <2> QED
    BY <1>2, <2>3, <2>4, <2>5
<1> QED
  BY <1>12, <1>13, <1>14, <1>15, <1>16

LEMMA ClipDel ==
    ASSUME NEW S, NEW s \in Seq(S), NEW off \in 0..Len(s), NEW n \in Nat
    PROVE  Clip(s, off, off + n) = DelAt(s, off, n)
<1> DEFINE l == Len(s)
           m == off + n
<1>1. l \in Nat /\ off \in Nat /\ m \in Nat /\ off <= l
  BY LenProperties
<1>2. At(off, 0, l) = off
  BY <1>1 DEF At
<1>3. From(s, At(m, 0, l)) = From(s, m)
  <2>1. CASE m <= l
    <3> HIDE DEF l, m
    <3>1. At(m, 0, l) = m
      BY <1>1, <2>1 DEF At
    <3> QED
      BY <3>1
  <2>2. CASE m > l
    <3>1. At(m, 0, l) = l
      <4> HIDE DEF l, m
      <4> QED
        BY <1>1, <2>2 DEF At
    <3>2. l \in Int /\ m + 1 \in Int /\ l < m + 1
      BY <1>1, <2>2
    <3>3. From(s, m) = <<>>
      BY <3>2, SubSeqEmpty DEF From
    <3> QED
      BY <3>1, <3>3, Ends
  <2> QED
    BY <1>1, <2>1, <2>2
<1> QED
  BY <1>2, <1>3 DEF Clip, DelAt, Upto, From

LEMMA FcnSeq ==
    ASSUME NEW U, NEW n \in Nat, NEW c \in [1..n -> U]
    PROVE  c \in Seq(U) /\ Len(c) = n
OBVIOUS

LEMMA CutFacts ==
    ASSUME NEW S, NEW d \in Seq(Piece(S)), NEW off \in Nat, NEW n \in Nat
    PROVE  /\ Cut(d, off, n) \in Seq(Seq(S)) /\ Len(Cut(d, off, n)) = Len(d)
           /\ \A i \in 1..Len(d) : Cut(d, off, n)[i] = Rest(d[i], Start(d, i), off, off + n)
<1> DEFINE c == Cut(d, off, n)
<1>1. d \in Seq(Seq(S)) /\ Len(d) \in Nat /\ \A i \in 1..Len(d) : d[i] \in Piece(S)
  BY PieceFacts, ElementOfSeq
<1>2. c = [i \in 1..Len(d) |-> c[i]]
  BY DEF Cut
<1>3. \A i \in 1..Len(d) : c[i] = Rest(d[i], Start(d, i), off, off + n)
  BY DEF Cut, Rest, At, Upto, From
<1> HIDE DEF c
<1>4. ASSUME NEW i \in 1..Len(d) PROVE c[i] \in Seq(S)
  <2>1. Start(d, i) \in Nat /\ d[i] \in Piece(S) /\ off + n \in Nat
    BY <1>1, StartFacts
  <2>2. Rest(d[i], Start(d, i), off, off + n) \in Seq(S)
    BY <2>1, RestType
  <2> QED
    BY <1>3, <2>2
<1>5. c \in [1..Len(d) -> Seq(S)]
  BY <1>2, <1>4
<1>6. c \in Seq(Seq(S)) /\ Len(c) = Len(d)
  BY <1>1, <1>5, FcnSeq
<1> QED
  BY <1>3, <1>6 DEF c

\* The text in the first pieces, once cut.
LEMMA CutText ==
    ASSUME NEW S, NEW d \in Seq(Piece(S)), NEW off \in Nat, NEW n \in Nat
    PROVE  FlattenSeq(Cut(d, off, n)) = Clip(FlattenSeq(d), off, off + n)
<1> DEFINE c == Cut(d, off, n)
           y == off + n
           T == {j \in Nat : j <= Len(d) => FlattenSeq(SubSeq(c, 1, j)) = Clip(FlattenSeq(SubSeq(d, 1, j)), off, y)}
<1>1. /\ c \in Seq(Seq(S)) /\ Len(c) = Len(d)
      /\ \A i \in 1..Len(d) : c[i] = Rest(d[i], Start(d, i), off, y)
  BY CutFacts
<1>2. d \in Seq(Seq(S)) /\ Len(d) \in Nat /\ \A i \in 1..Len(d) : d[i] \in Piece(S)
  BY PieceFacts, ElementOfSeq
<1>3. off <= y /\ y \in Nat
  OBVIOUS
<1> HIDE DEF c, y
<1>4. 0 \in T
  <2>1. SubSeq(c, 1, 0) = <<>> /\ SubSeq(d, 1, 0) = <<>>
    BY <1>1, <1>2, PrefixFacts
  <2>2. Len(<<>>) = 0 /\ At(off, 0, 0) = 0 /\ At(y, 0, 0) = 0
    BY <1>3 DEF At
  <2>3. <<>> \in Seq(S) /\ <<>> \o <<>> = <<>>
    BY EmptySeq, ConcatEmptySeq
  <2>4. Upto(<<>>, 0) = <<>> /\ From(<<>>, 0) = <<>>
    BY <2>3, Ends
  <2>5. Clip(<<>>, off, y) = <<>>
    BY <2>2, <2>3, <2>4 DEF Clip
  <2> QED
    BY <2>1, <2>5, FlatEmpty
<1>5. ASSUME NEW j \in Nat, j \in T PROVE j + 1 \in T
  <2> SUFFICES ASSUME j + 1 <= Len(d)
               PROVE  FlattenSeq(SubSeq(c, 1, j + 1)) = Clip(FlattenSeq(SubSeq(d, 1, j + 1)), off, y)
    OBVIOUS
  <2> DEFINE cs == SubSeq(c, 1, j)
             ds == SubSeq(d, 1, j)
             s == FlattenSeq(ds)
             i == j + 1
             p == d[i]
             r == c[i]
  <2>1. j <= Len(d) /\ i \in 1..Len(d) /\ i - 1 = j
    BY <1>2
  <2>2. FlattenSeq(cs) = Clip(s, off, y)
    BY <1>5, <2>1
  <2>3. cs \in Seq(Seq(S)) /\ r \in Seq(S) /\ SubSeq(c, 1, j + 1) = Append(cs, r)
    BY <1>1, PrefixFacts
  <2>4. ds \in Seq(Seq(S)) /\ SubSeq(d, 1, j + 1) = Append(ds, p)
    BY <1>2, PrefixFacts
  <2>5. p \in Piece(S) /\ r = Rest(p, Start(d, i), off, y)
    BY <1>1, <1>2, <2>1
  <2>6. Start(d, i) = Len(s)
    BY <2>1 DEF Start
  <2> HIDE DEF cs, ds, p, r, i
  <2>7. s \in Seq(S) /\ p \in Seq(S)
    BY <2>4, <2>5, FlatType DEF Piece
  <2>8. FlattenSeq(Append(cs, r)) = FlattenSeq(cs) \o r
    BY <2>3, FlatAppend
  <2>9. FlattenSeq(Append(ds, p)) = s \o p
    BY <2>4, <2>7, FlatAppend
  <2> HIDE DEF s
  <2>10. Clip(s \o p, off, y) = Clip(s, off, y) \o Rest(p, Len(s), off, y)
    BY <1>3, <2>5, <2>7, ClipConcat
  <2> QED
    BY <2>2, <2>3, <2>4, <2>5, <2>6, <2>8, <2>9, <2>10
<1>6. Len(d) \in T
  <2> HIDE DEF T
  <2> QED
    BY <1>2, <1>4, <1>5, Induction
<1>7. SubSeq(c, 1, Len(d)) = c /\ SubSeq(d, 1, Len(d)) = d
  BY <1>1, <1>2, PrefixFacts
<1>8. FlattenSeq(SubSeq(c, 1, Len(d))) = Clip(FlattenSeq(SubSeq(d, 1, Len(d))), off, y)
  BY <1>2, <1>6
<1> QED
  BY <1>7, <1>8 DEF c, y

\* Pieces with no runes are dropped.
Kept(c, n, f) ==
    f = [i \in 0..n |-> IF i = 0 THEN <<>>
                        ELSE IF c[i] = <<>> THEN f[i - 1] ELSE Append(f[i - 1], c[i])]

LEMMA KeptExists ==
    ASSUME NEW c
    PROVE  \A n \in Nat : \E f : Kept(c, n, f)
<1> DEFINE T == {n \in Nat : \E f : Kept(c, n, f)}
<1>1. 0 \in T
  <2> DEFINE f == [i \in 0..0 |-> <<>>]
  <2>1. Kept(c, 0, f)
    BY DEF Kept
  <2> QED
    BY <2>1
<1>2. ASSUME NEW n \in Nat, n \in T PROVE n + 1 \in T
  <2>1. PICK g : Kept(c, n, g)
    BY <1>2
  <2> DEFINE m == n + 1
             x == IF c[m] = <<>> THEN g[n] ELSE Append(g[n], c[m])
             f == [i \in 0..m |-> IF i = m THEN x ELSE g[i]]
  <2>2. m \in 0..m /\ m # 0 /\ m - 1 = n /\ n \in 0..m /\ n # m /\ m \in Nat
    OBVIOUS
  <2> HIDE DEF x, m
  <2>3. f[m] = x /\ f[n] = g[n] /\ \A i \in 0..n : f[i] = g[i]
    <3>1. \A i \in 0..n : i \in 0..m /\ i # m
      BY DEF m
    <3> QED
      BY <2>2, <3>1
  <2>4. f = [i \in 0..m |-> f[i]]
    OBVIOUS
  <2> HIDE DEF f
  <2>5. ASSUME NEW i \in 0..m
        PROVE  f[i] = IF i = 0 THEN <<>>
                      ELSE IF c[i] = <<>> THEN f[i - 1] ELSE Append(f[i - 1], c[i])
    <3>1. CASE i = m
      BY <2>2, <2>3, <3>1 DEF x
    <3>2. CASE i # m
      <4>1. i \in 0..n /\ (i # 0 => i - 1 \in 0..n)
        BY <3>2 DEF m
      <4>2. g[i] = IF i = 0 THEN <<>>
                   ELSE IF c[i] = <<>> THEN g[i - 1] ELSE Append(g[i - 1], c[i])
        BY <2>1, <4>1 DEF Kept
      <4> QED
        BY <2>3, <4>1, <4>2
    <3> QED
      BY <3>1, <3>2
  <2>6. Kept(c, m, f)
    BY <2>4, <2>5 DEF Kept
  <2> QED
    BY <2>2, <2>6 DEF m
<1> HIDE DEF T
<1>3. \A n \in Nat : n \in T
  BY <1>1, <1>2, Induction
<1> QED
  BY <1>3 DEF T

LEMMA KeptText ==
    ASSUME NEW S, NEW c \in Seq(Seq(S)), NEW f, Kept(c, Len(c), f)
    PROVE  f[Len(c)] \in Seq(Piece(S)) /\ FlattenSeq(f[Len(c)]) = FlattenSeq(c)
<1> DEFINE T == {n \in Nat : n <= Len(c) =>
                    /\ f[n] \in Seq(Piece(S)) /\ FlattenSeq(f[n]) = FlattenSeq(SubSeq(c, 1, n))}
<1>1. Len(c) \in Nat
  BY LenProperties
<1>2. 0 \in T
  <2>1. f[0] = <<>>
    BY <1>1 DEF Kept
  <2>2. SubSeq(c, 1, 0) = <<>>
    BY PrefixFacts
  <2>3. <<>> \in Seq(Piece(S))
    BY EmptySeq
  <2> QED
    BY <2>1, <2>2, <2>3
<1>3. ASSUME NEW n \in Nat, n \in T PROVE n + 1 \in T
  <2> SUFFICES ASSUME n + 1 <= Len(c)
               PROVE  /\ f[n + 1] \in Seq(Piece(S))
                      /\ FlattenSeq(f[n + 1]) = FlattenSeq(SubSeq(c, 1, n + 1))
    OBVIOUS
  <2> DEFINE m == n + 1
             k == f[n]
             p == c[m]
             cs == SubSeq(c, 1, n)
  <2>1. n <= Len(c) /\ m \in 0..Len(c) /\ m # 0 /\ m - 1 = n
    BY <1>1
  <2>2. k \in Seq(Piece(S)) /\ FlattenSeq(k) = FlattenSeq(cs)
    BY <1>3, <2>1
  <2>3. cs \in Seq(Seq(S)) /\ p \in Seq(S) /\ SubSeq(c, 1, m) = Append(cs, p)
    BY PrefixFacts
  <2> HIDE DEF m
  <2>4. f[m] = IF p = <<>> THEN k ELSE Append(k, p)
    BY <2>1 DEF Kept
  <2> HIDE DEF k, p, cs
  <2>5. FlattenSeq(Append(cs, p)) = FlattenSeq(cs) \o p /\ FlattenSeq(cs) \in Seq(S) /\ k \in Seq(Seq(S))
    BY <2>2, <2>3, FlatAppend, FlatType, PieceFacts
  <2>6. CASE p = <<>>
    <3>1. FlattenSeq(cs) \o <<>> = FlattenSeq(cs)
      BY <2>5, ConcatEmptySeq
    <3> QED
      BY <2>2, <2>3, <2>4, <2>5, <2>6, <3>1 DEF m
  <2>7. CASE p # <<>>
    <3>1. p \in Piece(S)
      BY <2>3, <2>7 DEF Piece
    <3>2. Append(k, p) \in Seq(Piece(S))
      BY <2>2, <3>1, AppendFacts
    <3>3. FlattenSeq(Append(k, p)) = FlattenSeq(k) \o p
      BY <2>3, <2>5, FlatAppend
    <3> QED
      BY <2>2, <2>3, <2>4, <2>5, <2>7, <3>2, <3>3 DEF m
  <2> QED
    BY <2>6, <2>7
<1>4. Len(c) \in T
  <2> HIDE DEF T
  <2> QED
    BY <1>1, <1>2, <1>3, Induction
<1>5. SubSeq(c, 1, Len(c)) = c
  BY PrefixFacts
<1>6. f[Len(c)] \in Seq(Piece(S)) /\ FlattenSeq(f[Len(c)]) = FlattenSeq(SubSeq(c, 1, Len(c)))
  BY <1>1, <1>4
<1> QED
  BY <1>5, <1>6

LEMMA DelPieces ==
    ASSUME NEW S, NEW d \in Seq(Piece(S)), NEW off \in 0..Len(FlattenSeq(d)), NEW n \in Nat
    PROVE  /\ del(d, off, n) \in Seq(Piece(S))
           /\ FlattenSeq(del(d, off, n)) = DelAt(FlattenSeq(d), off, n)
<1> DEFINE c == Cut(d, off, n)
           f == CHOOSE g : Kept(c, Len(c), g)
<1>1. d \in Seq(Seq(S)) /\ FlattenSeq(d) \in Seq(S) /\ off \in Nat
  BY PieceFacts, FlatType, LenProperties
<1>2. c \in Seq(Seq(S)) /\ Len(c) \in Nat /\ FlattenSeq(c) = Clip(FlattenSeq(d), off, off + n)
  BY <1>1, CutFacts, CutText, LenProperties
<1>3. del(d, off, n) = f[Len(c)]
  BY DEF del, Kept
<1> HIDE DEF c
<1>4. Kept(c, Len(c), f)
  BY <1>2, KeptExists
<1> HIDE DEF f
<1>5. f[Len(c)] \in Seq(Piece(S)) /\ FlattenSeq(f[Len(c)]) = FlattenSeq(c)
  BY <1>2, <1>4, KeptText
<1>6. Clip(FlattenSeq(d), off, off + n) = DelAt(FlattenSeq(d), off, n)
  BY <1>1, ClipDel
<1> QED
  BY <1>2, <1>3, <1>5, <1>6

-----------------------------------------------------------------------------
(* The versions that edits tell of.                                        *)

\* t is what s is after e.
Made(S, s, t, e) ==
    /\ e.data \in Piece(S)
    /\ IF e.op = "ins" THEN e.off \in 0..Len(s) /\ t = InsAt(s, e.off, e.data)
       ELSE e.off \in 0..Len(t) /\ s = InsAt(t, e.off, e.data)

\* g are the versions, when n of the edits are applied.
Versions(S, es, n, text, g) ==
    /\ g \in [0..Len(es) -> Seq(S)]
    /\ g[n] = text
    /\ \A k \in 1..Len(es) : Made(S, g[k - 1], g[k], es[k])

\* f is computed as Version is.
VersionOf(es, n, text, f) ==
    f = [k \in 0..Len(es) |->
            IF k = n THEN text
            ELSE IF k < n THEN Undone(f[k + 1], es[k + 1]) ELSE Done(f[k - 1], es[k])]

LEMMA MadeFacts ==
    ASSUME NEW S, NEW s \in Seq(S), NEW t \in Seq(S), NEW e, Made(S, s, t, e)
    PROVE  Done(s, e) = t /\ Undone(t, e) = s
<1>1. e.data \in Seq(S)
  BY DEF Made, Piece
<1>2. CASE e.op = "ins"
  <2>1. e.off \in 0..Len(s) /\ t = InsAt(s, e.off, e.data)
    BY <1>2 DEF Made
  <2>2. DelAt(InsAt(s, e.off, e.data), e.off, Len(e.data)) = s
    BY <1>1, <2>1, DelIns
  <2> QED
    BY <1>2, <2>1, <2>2 DEF Done, Undone
<1>3. CASE e.op # "ins"
  <2>1. e.off \in 0..Len(t) /\ s = InsAt(t, e.off, e.data)
    BY <1>3 DEF Made
  <2>2. DelAt(InsAt(t, e.off, e.data), e.off, Len(e.data)) = t
    BY <1>1, <2>1, DelIns
  <2> QED
    BY <1>3, <2>1, <2>2 DEF Done, Undone
<1> QED
  BY <1>2, <1>3

LEMMA VersionsMade ==
    ASSUME NEW S, NEW es, NEW n, NEW text, NEW g, Len(es) \in Nat, n \in 0..Len(es),
           Versions(S, es, n, text, g)
    PROVE  /\ \A k \in 1..Len(es) : Done(g[k - 1], es[k]) = g[k] /\ Undone(g[k], es[k]) = g[k - 1]
           /\ VersionOf(es, n, text, g)
<1>1. ASSUME NEW k \in 1..Len(es)
      PROVE  Done(g[k - 1], es[k]) = g[k] /\ Undone(g[k], es[k]) = g[k - 1]
  <2>1. k \in 0..Len(es) /\ k - 1 \in 0..Len(es)
    OBVIOUS
  <2>2. g[k] \in Seq(S) /\ g[k - 1] \in Seq(S) /\ Made(S, g[k - 1], g[k], es[k])
    BY <2>1 DEF Versions
  <2> QED
    BY <2>2, MadeFacts
<1>2. ASSUME NEW k \in 0..Len(es)
      PROVE  g[k] = IF k = n THEN text
                    ELSE IF k < n THEN Undone(g[k + 1], es[k + 1]) ELSE Done(g[k - 1], es[k])
  <2>1. CASE k = n
    BY <2>1 DEF Versions
  <2>2. CASE k < n
    <3>1. k + 1 \in 1..Len(es) /\ (k + 1) - 1 = k /\ k # n
      BY <2>2
    <3> QED
      BY <1>1, <2>2, <3>1
  <2>3. CASE k > n
    <3>1. k \in 1..Len(es) /\ k # n /\ ~(k < n)
      BY <2>3
    <3> QED
      BY <1>1, <3>1
  <2> QED
    BY <2>1, <2>2, <2>3
<1>3. g = [k \in 0..Len(es) |-> g[k]]
  BY DEF Versions
<1>4. VersionOf(es, n, text, g)
  BY <1>2, <1>3 DEF VersionOf
<1> QED
  BY <1>1, <1>4

LEMMA VersionUnique ==
    ASSUME NEW S, NEW es, NEW n, NEW text, NEW g, Len(es) \in Nat, n \in 0..Len(es),
           Versions(S, es, n, text, g), NEW f, VersionOf(es, n, text, f)
    PROVE  f = g
<1> DEFINE D == {j \in Nat : j <= n => f[n - j] = g[n - j]}
           U == {j \in Nat : n + j <= Len(es) => f[n + j] = g[n + j]}
<1>1. \A k \in 1..Len(es) : Done(g[k - 1], es[k]) = g[k] /\ Undone(g[k], es[k]) = g[k - 1]
  BY VersionsMade
<1>2. f[n] = g[n]
  BY DEF VersionOf, Versions
<1>3. \A j \in Nat : j \in D
  <2>1. 0 \in D
    BY <1>2
  <2>2. ASSUME NEW j \in Nat, j \in D PROVE j + 1 \in D
    <3> SUFFICES ASSUME j + 1 <= n PROVE f[n - (j + 1)] = g[n - (j + 1)]
      OBVIOUS
    <3> DEFINE k == n - (j + 1)
    <3>1. /\ k \in 0..Len(es) /\ k + 1 = n - j /\ j <= n /\ k # n /\ k < n
          /\ k + 1 \in 1..Len(es) /\ (k + 1) - 1 = k
      OBVIOUS
    <3>2. f[k + 1] = g[k + 1]
      BY <2>2, <3>1
    <3> HIDE DEF k
    <3>3. f[k] = Undone(f[k + 1], es[k + 1])
      BY <3>1 DEF VersionOf
    <3>4. Undone(g[k + 1], es[k + 1]) = g[k]
      BY <1>1, <3>1
    <3> QED
      BY <3>2, <3>3, <3>4 DEF k
  <2> HIDE DEF D
  <2> QED
    BY <2>1, <2>2, Induction
<1>4. \A j \in Nat : j \in U
  <2>1. 0 \in U
    BY <1>2
  <2>2. ASSUME NEW j \in Nat, j \in U PROVE j + 1 \in U
    <3> SUFFICES ASSUME n + (j + 1) <= Len(es) PROVE f[n + (j + 1)] = g[n + (j + 1)]
      OBVIOUS
    <3> DEFINE k == n + (j + 1)
    <3>1. k \in 1..Len(es) /\ k - 1 = n + j /\ n + j <= Len(es) /\ k # n /\ ~(k < n) /\ k \in 0..Len(es)
      OBVIOUS
    <3>2. f[k - 1] = g[k - 1]
      BY <2>2, <3>1
    <3> HIDE DEF k
    <3>3. f[k] = Done(f[k - 1], es[k])
      BY <3>1 DEF VersionOf
    <3>4. Done(g[k - 1], es[k]) = g[k]
      BY <1>1, <3>1
    <3> QED
      BY <3>2, <3>3, <3>4 DEF k
  <2> HIDE DEF U
  <2> QED
    BY <2>1, <2>2, Induction
<1>5. ASSUME NEW k \in 0..Len(es) PROVE f[k] = g[k]
  <2>1. CASE k <= n
    <3>1. n - k \in Nat /\ n - k <= n /\ n - (n - k) = k
      BY <2>1
    <3>2. \A j \in Nat : j <= n => f[n - j] = g[n - j]
      BY <1>3
    <3>3. f[n - (n - k)] = g[n - (n - k)]
      BY <3>1, <3>2
    <3> QED
      BY <3>1, <3>3
  <2>2. CASE k > n
    <3>1. k - n \in Nat /\ n + (k - n) = k /\ n + (k - n) <= Len(es)
      BY <2>2
    <3>2. \A j \in Nat : n + j <= Len(es) => f[n + j] = g[n + j]
      BY <1>4
    <3>3. f[n + (k - n)] = g[n + (k - n)]
      BY <3>1, <3>2
    <3> QED
      BY <3>1, <3>3
  <2> QED
    BY <2>1, <2>2
<1>6. f = [k \in 0..Len(es) |-> f[k]] /\ g = [k \in 0..Len(es) |-> g[k]]
  BY DEF VersionOf, Versions
<1> QED
  BY <1>5, <1>6

\* The edits tell of just those versions.
LEMMA VersionIs ==
    ASSUME NEW S, NEW es, NEW n, NEW text, NEW g, Len(es) \in Nat, n \in 0..Len(es),
           Versions(S, es, n, text, g)
    PROVE  (CHOOSE f : VersionOf(es, n, text, f)) = g
<1> DEFINE f == CHOOSE f : VersionOf(es, n, text, f)
<1>1. VersionOf(es, n, text, g)
  BY VersionsMade
<1>2. VersionOf(es, n, text, f)
  BY <1>1
<1> HIDE DEF f
<1>3. f = g
  BY <1>2, VersionUnique
<1> QED
  BY <1>3 DEF f

LEMMA VersionDef == Version = CHOOSE f : VersionOf(edits, nedits, Text, f)
BY DEF Version, VersionOf

LEMMA VersionDefPrimed == Version' = CHOOSE f : VersionOf(edits', nedits', Text', f)
BY DEF Version, VersionOf

-----------------------------------------------------------------------------
(* An edit noted is one more version, or the last one made longer.         *)

LEMMA SeqWiden ==
    ASSUME NEW S, NEW W, S \subseteq W
    PROVE  Seq(S) \subseteq Seq(W) /\ Piece(S) \subseteq Piece(W)
BY SeqMonotonic DEF Piece

LEMMA VersionsWiden ==
    ASSUME NEW S, NEW W, S \subseteq W, NEW es, NEW n, NEW text, NEW g, Versions(S, es, n, text, g)
    PROVE  Versions(W, es, n, text, g)
<1>1. Seq(S) \subseteq Seq(W) /\ Piece(S) \subseteq Piece(W)
  BY SeqWiden
<1>2. \A k \in 1..Len(es) : Made(W, g[k - 1], g[k], es[k])
  BY <1>1 DEF Versions, Made
<1>3. g \in [0..Len(es) -> Seq(W)]
  BY <1>1 DEF Versions
<1> QED
  BY <1>2, <1>3 DEF Versions

\* The edits once e is noted, when n of es are applied.
Longer(es, n, e) == [SubSeq(es, 1, n) EXCEPT ![n].data = @ \o e.data]
WithEdit(es, n, e) ==
    IF n > 0 /\ Joins(es[n], e.op, e.off) THEN Longer(es, n, e) ELSE Append(SubSeq(es, 1, n), e)

LEMMA JoinedFacts ==
    ASSUME NEW es \in Seq(Edit), NEW n \in 1..Len(es), NEW e \in Edit
    PROVE  /\ Longer(es, n, e) \in Seq(Edit) /\ Len(Longer(es, n, e)) = n
           /\ \A k \in 1..(n - 1) : Longer(es, n, e)[k] = es[k]
           /\ Longer(es, n, e)[n].op = es[n].op /\ Longer(es, n, e)[n].off = es[n].off
           /\ Longer(es, n, e)[n].data = es[n].data \o e.data
<1> DEFINE u == SubSeq(es, 1, n)
           x == [es[n] EXCEPT !.data = @ \o e.data]
           es2 == [u EXCEPT ![n] = x]
<1>1. n \in 0..Len(es) /\ n \in 1..n
  OBVIOUS
<1>2. u \in Seq(Edit) /\ Len(u) = n /\ \A k \in 1..n : u[k] = es[k]
  BY <1>1, UptoFacts DEF Upto
<1>3. es[n] \in Edit
  OBVIOUS
<1>4. es[n].data \o e.data \in Seq(Nat)
  BY <1>3, ConcatProperties DEF Edit
<1>5. x \in Edit /\ x.op = es[n].op /\ x.off = es[n].off /\ x.data = es[n].data \o e.data
  BY <1>3, <1>4 DEF Edit
<1>6. [u EXCEPT ![n].data = @ \o e.data] = es2
  BY <1>1, <1>2
<1> HIDE DEF u, x
<1>7. /\ es2 \in Seq(Edit) /\ Len(es2) = Len(u)
      /\ \A k \in 1..Len(u) : es2[k] = IF k = n THEN x ELSE u[k]
  BY <1>1, <1>2, <1>5, ExceptSeq
<1> HIDE DEF es2
<1>8. es2[n] = x /\ \A k \in 1..(n - 1) : es2[k] = es[k]
  BY <1>1, <1>2, <1>7
<1>9. Len(es2) = n
  BY <1>2, <1>7
<1>10. /\ es2 \in Seq(Edit) /\ Len(es2) = n
       /\ \A k \in 1..(n - 1) : es2[k] = es[k]
       /\ es2[n].op = es[n].op /\ es2[n].off = es[n].off
       /\ es2[n].data = es[n].data \o e.data
  BY <1>5, <1>7, <1>8, <1>9
<1> QED
  BY <1>6, <1>10 DEF u, Longer

LEMMA AppendedFacts ==
    ASSUME NEW es \in Seq(Edit), NEW n \in 0..Len(es), NEW e \in Edit
    PROVE  LET es2 == Append(SubSeq(es, 1, n), e)
           IN  /\ es2 \in Seq(Edit) /\ Len(es2) = n + 1
               /\ \A k \in 1..n : es2[k] = es[k]
               /\ es2[n + 1] = e
<1> DEFINE u == SubSeq(es, 1, n)
<1>1. u \in Seq(Edit) /\ Len(u) = n /\ \A k \in 1..n : u[k] = es[k]
  BY UptoFacts DEF Upto
<1> HIDE DEF u
<1>2. /\ Append(u, e) \in Seq(Edit) /\ Len(Append(u, e)) = Len(u) + 1
      /\ Append(u, e)[Len(u) + 1] = e
      /\ \A k \in 1..Len(u) : u[k] = Append(u, e)[k]
  BY <1>1, AppendFacts
<1> QED
  BY <1>1, <1>2 DEF u

\* A deletion that joins another is not one of them: their runes were not together.
LEMMA NotedVersions ==
    ASSUME NEW S, NEW es \in Seq(Edit), NEW n \in 0..Len(es), NEW text, NEW g,
           Versions(S, es, n, text, g),
           NEW e \in Edit, NEW text2 \in Seq(S), Made(S, text, text2, e),
           n > 0 /\ Joins(es[n], e.op, e.off) => e.op = "ins",
           NEW es2, es2 = WithEdit(es, n, e)
    PROVE  /\ es2 \in Seq(Edit) /\ Len(es2) \in {n, n + 1} \ {0}
           /\ \E g2 : /\ Versions(S, es2, Len(es2), text2, g2)
                      /\ \A k \in 0..(Len(es2) - 1) : g2[k] = g[k]
<1>1. Len(es) \in Nat
  BY LenProperties
<1>2. CASE n > 0 /\ Joins(es[n], e.op, e.off)
  <2>1. n \in 1..Len(es) /\ n - 1 \in 0..Len(es) /\ n \in 0..n
    BY <1>1, <1>2
  <2>2. /\ es2 \in Seq(Edit) /\ Len(es2) = n
        /\ \A k \in 1..(n - 1) : es2[k] = es[k]
        /\ es2[n].op = es[n].op /\ es2[n].off = es[n].off
        /\ es2[n].data = es[n].data \o e.data
    <3>1. es2 = Longer(es, n, e)
      BY <1>2 DEF WithEdit
    <3>2. /\ Longer(es, n, e) \in Seq(Edit) /\ Len(Longer(es, n, e)) = n
          /\ \A k \in 1..(n - 1) : Longer(es, n, e)[k] = es[k]
          /\ Longer(es, n, e)[n].op = es[n].op /\ Longer(es, n, e)[n].off = es[n].off
          /\ Longer(es, n, e)[n].data = es[n].data \o e.data
      <4>1. n \in 1..Len(es)
        BY <2>1
      <4> QED
        BY <4>1, JoinedFacts
    <3> QED
      BY ONLY <3>1, <3>2
  <2> DEFINE g2 == [k \in 0..n |-> IF k = n THEN text2 ELSE g[k]]
  <2>3. g2[n] = text2 /\ \A k \in 0..(n - 1) : g2[k] = g[k]
    BY <2>1
  <2>4. g2 \in [0..n -> Seq(S)]
    BY <1>1, <2>1 DEF Versions
  <2> HIDE DEF g2
  <2>5. ASSUME NEW k \in 1..(n - 1) PROVE Made(S, g2[k - 1], g2[k], es2[k])
    <3>1. k \in 1..Len(es) /\ k - 1 \in 0..(n - 1) /\ k \in 0..(n - 1)
      BY <1>1, <2>1
    <3> QED
      BY <2>2, <2>3, <3>1 DEF Versions
  <2>6. Made(S, g2[n - 1], g2[n], es2[n])
    <3> DEFINE s == g[n - 1]
               d == es[n].data
               off == es[n].off
    <3>1. s \in Seq(S) /\ Made(S, s, g[n], es[n]) /\ g[n] = text /\ g2[n - 1] = s
      BY <2>1, <2>3 DEF Versions
    <3>2. e.op = "ins" /\ es[n].op = "ins" /\ e.off = off + Len(d)
      BY <1>2 DEF Joins
    <3>3. d \in Seq(S) /\ d # <<>> /\ off \in 0..Len(s) /\ text = InsAt(s, off, d)
      BY <3>1, <3>2 DEF Made, Piece
    <3>4. e.data \in Seq(S) /\ e.data # <<>> /\ text2 = InsAt(text, e.off, e.data)
      BY <3>2 DEF Made, Piece
    <3> HIDE DEF s, d, off
    <3>5. text2 = InsAt(s, off, d \o e.data)
      <4> DEFINE y == e.data
      <4>1. y \in Seq(S)
        BY <3>4
      <4> HIDE DEF y
      <4>2. InsAt(InsAt(s, off, d), off + Len(d), y) = InsAt(s, off, d \o y)
        BY <3>1, <3>3, <4>1, InsIns
      <4> QED
        BY <3>2, <3>3, <3>4, <4>2 DEF y
    <3>6. d \o e.data \in Piece(S)
      BY <3>3, <3>4, ConcatProperties, ConcatEqualIffEmpty DEF Piece
    <3>7. es2[n].op = "ins" /\ es2[n].off = off /\ es2[n].data = d \o e.data
      BY <2>2, <3>2 DEF d, off
    <3> QED
      BY <2>3, <3>1, <3>3, <3>5, <3>6, <3>7 DEF Made
  <2>7. \A k \in 1..n : Made(S, g2[k - 1], g2[k], es2[k])
    <3>1. \A k \in 1..n : k = n \/ k \in 1..(n - 1)
      OBVIOUS
    <3> QED
      BY <2>5, <2>6, <3>1
  <2>8. Versions(S, es2, n, text2, g2)
    BY <2>2, <2>3, <2>4, <2>7 DEF Versions
  <2> QED
    BY <2>1, <2>2, <2>3, <2>8
<1>3. CASE ~(n > 0 /\ Joins(es[n], e.op, e.off))
  <2> DEFINE m == n + 1
  <2>1. /\ es2 \in Seq(Edit) /\ Len(es2) = m
        /\ \A k \in 1..n : es2[k] = es[k]
        /\ es2[m] = e
    BY <1>3, AppendedFacts DEF WithEdit
  <2> DEFINE g2 == [k \in 0..m |-> IF k = m THEN text2 ELSE g[k]]
  <2>2. m \in 0..m /\ m - 1 = n /\ n \in 0..n /\ m # 0
    OBVIOUS
  <2>3. g2[m] = text2 /\ \A k \in 0..n : g2[k] = g[k]
    BY <2>2
  <2>4. g2 \in [0..m -> Seq(S)]
    <3>1. \A k \in 0..m : k = m \/ k \in 0..Len(es)
      BY <1>1
    <3> QED
      BY <3>1 DEF Versions
  <2> HIDE DEF g2
  <2>5. ASSUME NEW k \in 1..m PROVE Made(S, g2[k - 1], g2[k], es2[k])
    <3>1. CASE k = m
      <4>1. g2[k - 1] = text /\ g2[k] = text2 /\ es2[k] = e
        BY <2>1, <2>2, <2>3, <3>1 DEF Versions
      <4> QED
        BY <4>1
    <3>2. CASE k # m
      <4>1. k \in 1..n /\ k \in 1..Len(es) /\ k - 1 \in 0..n /\ k \in 0..n
        BY <1>1, <3>2
      <4> QED
        BY <2>1, <2>3, <4>1 DEF Versions
    <3> QED
      BY <3>1, <3>2
  <2>6. Versions(S, es2, m, text2, g2)
    BY <2>1, <2>3, <2>4, <2>5 DEF Versions
  <2> QED
    BY <2>1, <2>2, <2>3, <2>6
<1> QED
  BY <1>2, <1>3

-----------------------------------------------------------------------------
(* What changes of the text do.                                            *)

Runes == 1..MaxRunes

LEMMA BoundTypes ==
    /\ PieceMax \in Nat /\ EditMax \in Nat /\ MaxIns \in Nat
    /\ MaxDel \in Nat /\ MaxRunes \in Nat /\ MaxVers \in Nat
BY TxtAssumption

LEMMA TextFacts ==
    ASSUME TypeOK
    PROVE  /\ data \in Seq(Piece(Runes)) /\ data \in Seq(Seq(Runes))
           /\ Text \in Seq(Runes) /\ sz = Len(Text) /\ sz \in Nat
<1>1. data \in Seq(Piece(Runes)) /\ sz = Len(Text)
  BY DEF TypeOK, Piece, Runes
<1>2. data \in Seq(Seq(Runes))
  BY <1>1, PieceFacts
<1>3. Text \in Seq(Runes)
  BY <1>2, FlatType DEF Text
<1> QED
  BY <1>1, <1>2, <1>3, LenProperties

\* What is said of the variables that do not depend on the edits.
Placed ==
    /\ data \in Seq(Piece(Runes))
    /\ sz = Len(Text)
    /\ marks \in [Names -> -1..sz]
    /\ seek \in [off: Nat \cup {-2}, i: Nat, n: Nat]

LEMMA DoInsFacts ==
    ASSUME TypeOK, NEW new \in Piece(Runes), NEW off \in 0..sz, NEW mark, DoIns(new, off, mark)
    PROVE  Placed' /\ Text' = InsAt(Text, off, new) /\ seek'.off = -2
<1> DEFINE t == InsAt(Text, off, new)
           n == Len(new)
<1>1. data \in Seq(Piece(Runes)) /\ Text \in Seq(Runes) /\ sz = Len(Text) /\ sz \in Nat
  BY TextFacts
<1>2. new \in Seq(Runes) /\ n \in Nat
  BY LenProperties DEF Piece
<1>3. data' \in Seq(Piece(Runes)) /\ Text' = t
  <2>1. data' = ins(data, Len(FlattenSeq(data)), new, off)
    BY <1>1 DEF DoIns, Text
  <2>2. CASE off = sz
    <3>1. off = Len(FlattenSeq(data))
      BY <1>1, <2>2 DEF Text
    <3>2. data' = ins(data, off, new, off)
      BY <2>1, <3>1
    <3> QED
      BY <1>1, <3>1, <3>2, InsLast DEF Text
  <2>3. CASE off # sz
    <3>1. off \in Nat /\ off < Len(FlattenSeq(data))
      BY <1>1, <2>3 DEF Text
    <3> QED
      BY <1>1, <2>1, <3>1, InsMiddle DEF Text
  <2> QED
    BY <2>2, <2>3
<1>4. Len(t) = sz + n
  <2>1. off \in 0..Len(Text)
    BY <1>1
  <2>2. Inserts(Runes, Text, off, new, t)
    BY <1>1, <1>2, <2>1, InsInserts
  <2> QED
    BY <1>1, <2>2 DEF Inserts
<1>5. sz' = sz + n
  BY DEF DoIns
<1> HIDE DEF n, t
<1>6. marks' \in [Names -> -1..(sz + n)]
  <2>1. \A m \in Names : marks[m] \in -1..sz
    BY DEF TypeOK
  <2>2. \A x \in -1..sz : pins(x, off, n) \in -1..(sz + n) /\ x \in -1..(sz + n)
    BY <1>1, <1>2 DEF pins
  <2>3. marks' = [m \in Names |-> IF marks[m] # off \/ m = mark THEN pins(marks[m], off, n) ELSE marks[m]]
    BY DEF DoIns, markins, n
  <2> QED
    BY <2>1, <2>2, <2>3
<1>7. seek' \in [off: Nat \cup {-2}, i: Nat, n: Nat] /\ seek'.off = -2
  BY DEF TypeOK, DoIns, invalidate
<1> QED
  BY <1>3, <1>4, <1>5, <1>6, <1>7 DEF Placed, t

LEMMA DoDelFacts ==
    ASSUME TypeOK, NEW off \in 0..(sz - 1), NEW n \in Nat \ {0}, DoDel(off, n)
    PROVE  /\ Placed' /\ Text' = DelAt(Text, off, n) /\ seek'.off = -2
           /\ Deleted(off, n) \in Piece(Runes) /\ off + Len(Deleted(off, n)) <= sz
           /\ Text' \in Seq(Runes) /\ off \in 0..Len(Text')
           /\ Text = InsAt(Text', off, Deleted(off, n))
<1> DEFINE t == DelAt(Text, off, n)
           d == Deleted(off, n)
           k == Len(d)
<1>1. data \in Seq(Piece(Runes)) /\ Text \in Seq(Runes) /\ sz = Len(Text) /\ sz \in Nat
  BY TextFacts
<1>2. data' \in Seq(Piece(Runes)) /\ Text' = t
  <2>1. data' = del(data, off, n) /\ off \in 0..Len(FlattenSeq(data)) /\ n \in Nat
    BY <1>1 DEF DoDel, Text
  <2> QED
    BY <1>1, <2>1, DelPieces DEF Text
<1>3. /\ d \in Seq(Runes) /\ d # <<>> /\ off + k <= sz
      /\ t \in Seq(Runes) /\ Len(t) = sz - k
      /\ off <= Len(t) /\ Text = InsAt(t, off, d)
  <2>1. d = SubSeq(Text, off + 1, IF off + n < Len(Text) THEN off + n ELSE Len(Text))
    BY <1>1 DEF Deleted
  <2> HIDE DEF d
  <2>2. off \in 0..(Len(Text) - 1)
    BY <1>1
  <2> DEFINE s == Text
  <2>3. s \in Seq(Runes) /\ off \in 0..(Len(s) - 1) /\ n \in Nat \ {0}
        /\ d = SubSeq(s, off + 1, IF off + n < Len(s) THEN off + n ELSE Len(s))
    BY <1>1, <2>1, <2>2
  <2> HIDE DEF s
  <2>4. Deletes(Runes, s, off, n, d)
    BY <2>3, DelFacts
  <2> QED
    BY <1>1, <2>4 DEF s, Deletes
<1>4. k \in Nat /\ Len(t) \in Nat
  BY <1>3, LenProperties
<1>5. sz' = sz - k
  BY DEF DoDel
<1>6. marks' = [m \in Names |-> pdel(marks[m], off, off + k)]
  BY DEF DoDel, markdel
<1>7. seek' \in [off: Nat \cup {-2}, i: Nat, n: Nat] /\ seek'.off = -2
  BY DEF TypeOK, DoDel, invalidate
<1>8. off \in 0..Len(t)
  BY <1>3, <1>4
<1>9. d \in Piece(Runes)
  BY <1>3 DEF Piece
<1> HIDE DEF d, k, t
<1>10. marks' \in [Names -> -1..(sz - k)]
  <2>1. \A m \in Names : marks[m] \in -1..sz
    BY DEF TypeOK
  <2>2. \A x \in -1..sz : pdel(x, off, off + k) \in -1..(sz - k)
    BY <1>1, <1>3, <1>4 DEF pdel
  <2> QED
    BY <1>6, <2>1, <2>2
<1>11. Placed'
  BY <1>2, <1>3, <1>5, <1>7, <1>10 DEF Placed
<1> QED
  BY <1>2, <1>3, <1>7, <1>8, <1>9, <1>11 DEF d, k, t

-----------------------------------------------------------------------------
(* The invariant: the edits noted, with the text, tell of versions of it,  *)
(* each with runes that are all different.                                 *)

Distinct(s) == \A i, j \in 1..Len(s) : s[i] = s[j] => i = j

History(g) ==
    /\ Versions(1..nrunes, edits, nedits, Text, g)
    /\ \A k \in 0..Len(edits) : Distinct(g[k])

EditsOK ==
    /\ edits \in Seq(Edit) /\ nedits \in 0..Len(edits)
    /\ contd \in BOOLEAN /\ vers \in Nat /\ nrunes \in Nat /\ nrunes <= MaxRunes

TxtInv == Placed /\ EditsOK /\ SeekOk /\ \E g : History(g)

\* What a step does to the versions.
Apart(s, t) == \E off \in 0..Len(s), d \in Seq(Nat) : t = InsAt(s, off, d)
SameVersions(es, n, g, es2, n2, g2) ==
    Len(es2) = Len(es) /\ g2 = g /\ n2 \in {n - 1, n, n + 1} /\ n2 \in 0..Len(es)
NoVersions(es, n, g, es2, n2, g2) == Len(es2) = 0 /\ n2 = 0 /\ g2[0] = g[n]
NewVersion(es, n, g, es2, n2, g2) ==
    /\ Len(es2) = n2 /\ n2 \in {n, n + 1} \ {0}
    /\ \A k \in 0..(n2 - 1) : g2[k] = g[k]
    /\ Apart(g[n], g2[n2]) \/ Apart(g2[n2], g[n])
Follows ==
    \A g : History(g) =>
        \E g2 : /\ History(g2)'
                /\ \/ SameVersions(edits, nedits, g, edits', nedits', g2)
                   \/ NoVersions(edits, nedits, g, edits', nedits', g2)
                   \/ NewVersion(edits, nedits, g, edits', nedits', g2)

\* What it does to the text and marks, if it is an edit.
Change ==
    \/ \E new \in Piece(Runes), off \in 0..sz, mark \in Names \cup {"none"} : DoIns(new, off, mark)
    \/ \E off \in 0..(sz - 1), n \in Nat \ {0} : DoDel(off, n)
    \/ UNCHANGED <<data, sz, marks, seek>>

LEMMA InvTypes == Placed /\ EditsOK => TypeOK
BY DEF Placed, EditsOK, TypeOK, Piece, Runes

LEMMA RunesSoFar ==
    ASSUME NEW n \in Nat, n <= MaxRunes
    PROVE  1..n \subseteq Runes /\ 1..n \subseteq Nat /\ Seq(1..n) \subseteq Seq(Nat)
           /\ Piece(1..n) \subseteq Piece(Runes)
<1>1. 1..n \subseteq Runes /\ 1..n \subseteq Nat
  BY BoundTypes DEF Runes
<1> QED
  BY <1>1, SeqWiden

LEMMA ChangeFacts ==
    ASSUME Placed, EditsOK, Change
    PROVE  Placed' /\ ((seek' = seek /\ data' = data) \/ seek'.off = -2)
<1>1. TypeOK
  BY InvTypes
<1>2. CASE \E new \in Piece(Runes), off \in 0..sz, mark \in Names \cup {"none"} : DoIns(new, off, mark)
  BY <1>1, <1>2, DoInsFacts
<1>3. CASE \E off \in 0..(sz - 1), n \in Nat \ {0} : DoDel(off, n)
  BY <1>1, <1>3, DoDelFacts
<1>4. CASE UNCHANGED <<data, sz, marks, seek>>
  BY <1>4 DEF Placed, Text
<1> QED
  BY <1>2, <1>3, <1>4 DEF Change

LEMMA TextOfHistory ==
    ASSUME EditsOK, NEW g, History(g)
    PROVE  /\ g[nedits] = Text /\ Text \in Seq(1..nrunes) /\ Distinct(Text)
           /\ Len(edits) \in Nat /\ nedits \in Nat
           /\ \A k \in 1..Len(edits) :
                /\ Made(1..nrunes, g[k - 1], g[k], edits[k])
                /\ g[k - 1] \in Seq(1..nrunes) /\ g[k] \in Seq(1..nrunes)
                /\ edits[k] \in Edit /\ edits[k].data \in Piece(1..nrunes)
<1>1. Len(edits) \in Nat /\ nedits \in 0..Len(edits) /\ \A k \in 1..Len(edits) : edits[k] \in Edit
  BY DEF EditsOK
<1>2. \A k \in 1..Len(edits) : k \in 0..Len(edits) /\ k - 1 \in 0..Len(edits)
  BY <1>1
<1>3. g \in [0..Len(edits) -> Seq(1..nrunes)] /\ g[nedits] = Text
  BY DEF History, Versions
<1>4. Distinct(g[nedits])
  BY <1>1 DEF History
<1>5. \A k \in 1..Len(edits) : Made(1..nrunes, g[k - 1], g[k], edits[k])
  BY DEF History, Versions
<1>6. \A k \in 1..Len(edits) : edits[k].data \in Piece(1..nrunes)
  BY <1>5 DEF Made
<1>7. Text \in Seq(1..nrunes) /\ Distinct(Text) /\ nedits \in Nat
  <2> HIDE DEF Text
  <2> QED
    BY <1>1, <1>3, <1>4
<1>8. \A k \in 1..Len(edits) : g[k - 1] \in Seq(1..nrunes) /\ g[k] \in Seq(1..nrunes)
  BY <1>2, <1>3
<1> QED
  BY <1>1, <1>3, <1>5, <1>6, <1>7, <1>8

\* An edit that is noted.
LEMMA NotedFollows ==
    ASSUME TxtInv, NEW op \in {"ins", "del"}, NEW off \in Nat, NEW new \in Piece(1..nrunes'),
           nrunes <= nrunes', nrunes' \in Nat, nrunes' <= MaxRunes, vers' \in Nat,
           Noted(op, off, new), Text' \in Seq(1..nrunes'), Distinct(Text'),
           IF op = "ins" THEN off \in 0..Len(Text) /\ Text' = InsAt(Text, off, new)
           ELSE off \in 0..Len(Text') /\ Text = InsAt(Text', off, new),
           nedits > 0 /\ Joins(edits[nedits], op, off) => op = "ins"
    PROVE  EditsOK' /\ Follows
<1> DEFINE e == [op |-> op, off |-> off, data |-> new, contd |-> contd]
           S == 1..nrunes'
           es2 == WithEdit(edits, nedits, e)
           m == Len(es2)
           t == Text'
<1>1. e \in Edit /\ e.op = op /\ e.off = off /\ e.data = new /\ new \in Seq(Nat)
  <2>1. new \in Seq(Nat)
    BY RunesSoFar DEF Piece
  <2> QED
    BY <2>1 DEF Edit, TxtInv, EditsOK
<1>2. edits' = es2 /\ nedits' = m /\ contd' = FALSE
  BY DEF Noted, addEdit, WithEdit, Longer
<1> HIDE DEF e
<1>3. edits \in Seq(Edit) /\ nedits \in 0..Len(edits) /\ Len(edits) \in Nat /\ nrunes \in Nat
  BY LenProperties DEF TxtInv, EditsOK
<1>4. nedits > 0 /\ Joins(edits[nedits], e.op, e.off) => e.op = "ins"
  BY <1>1
<1>5. Made(S, Text, t, e) /\ t \in Seq(S)
  BY <1>1 DEF Made
<1>6. 1..nrunes \subseteq S
  BY <1>3
<1> HIDE DEF S, es2, t
<1>7. ASSUME NEW g, History(g)
      PROVE  /\ es2 \in Seq(Edit) /\ m \in {nedits, nedits + 1} \ {0}
             /\ \E g2 : /\ Versions(S, es2, m, t, g2)
                        /\ \A k \in 0..(m - 1) : g2[k] = g[k]
  <2>1. Versions(S, edits, nedits, Text, g)
    BY <1>6, <1>7, VersionsWiden DEF History
  <2> QED
    BY <1>1, <1>3, <1>4, <1>5, <2>1, NotedVersions DEF es2
<1>8. es2 \in Seq(Edit) /\ m \in {nedits, nedits + 1} \ {0} /\ m \in Nat
  BY <1>3, <1>7 DEF TxtInv
<1>9. EditsOK'
  <2>1. m \in 0..m
    BY <1>8
  <2> HIDE DEF m
  <2>2. edits' \in Seq(Edit) /\ nedits' \in 0..Len(edits') /\ contd' \in BOOLEAN
    BY <1>2, <1>8, <2>1 DEF m
  <2> QED
    BY <2>2 DEF EditsOK
<1>10. ASSUME NEW g, History(g)
       PROVE  \E g2 : History(g2)' /\ NewVersion(edits, nedits, g, edits', nedits', g2)
  <2>1. PICK g2 : Versions(S, es2, m, t, g2) /\ \A k \in 0..(m - 1) : g2[k] = g[k]
    BY <1>7, <1>10
  <2>2. ASSUME NEW k \in 0..m PROVE Distinct(g2[k])
    <3>1. CASE k = m
      BY <2>1, <3>1 DEF Versions, t
    <3>2. CASE k # m
      <4>1. k \in 0..(m - 1) /\ k \in 0..Len(edits)
        BY <1>3, <1>8, <3>2
      <4> QED
        BY <1>10, <2>1, <4>1 DEF History
    <3> QED
      BY <3>1, <3>2
  <2>3. History(g2)'
    BY <1>2, <2>1, <2>2 DEF History, S, t
  <2>4. g[nedits] = Text /\ g2[m] = t
    BY <1>10, <2>1 DEF History, Versions
  <2>5. Apart(Text, t) \/ Apart(t, Text)
    BY <1>1 DEF Apart, t
  <2>6. NewVersion(edits, nedits, g, es2, m, g2)
    BY <1>8, <2>1, <2>4, <2>5 DEF NewVersion
  <2> QED
    BY <1>2, <2>3, <2>6
<1> QED
  BY <1>9, <1>10 DEF Follows

-----------------------------------------------------------------------------
(* Runes stay different.                                                   *)

LEMMA DistinctIns ==
    ASSUME NEW k \in Nat, NEW n \in Nat, NEW s \in Seq(1..k), NEW off \in 0..Len(s), NEW d, NEW m,
           m = k + n, d = [i \in 1..n |-> k + i], Distinct(s)
    PROVE  /\ d \in Seq(1..m) /\ Len(d) = n
           /\ InsAt(s, off, d) \in Seq(1..m) /\ Distinct(InsAt(s, off, d))
<1> DEFINE t == InsAt(s, off, d)
           l == Len(s)
<1>1. d \in Seq(1..m) /\ Len(d) = n
  OBVIOUS
<1>2. s \in Seq(1..m)
  <2>1. 1..k \subseteq 1..m
    OBVIOUS
  <2> QED
    BY <2>1, SeqMonotonic
<1>3. l \in Nat /\ \A i \in 1..l : s[i] \in 1..k
  OBVIOUS
<1>4. \A i \in 1..n : d[i] = k + i
  OBVIOUS
<1>5. /\ t \in Seq(1..m) /\ Len(t) = l + n
      /\ \A j \in 1..l : t[IF j <= off THEN j ELSE j + n] = s[j]
      /\ \A j \in 1..n : t[off + j] = d[j]
  <2>1. /\ t \in Seq(1..m) /\ Len(t) = l + Len(d)
        /\ \A j \in 1..l : t[IF j <= off THEN j ELSE j + Len(d)] = s[j]
        /\ \A j \in 1..Len(d) : t[off + j] = d[j]
    <3>1. Inserts(1..m, s, off, d, t)
      BY <1>1, <1>2, InsInserts
    <3> QED
      BY <3>1 DEF Inserts
  <2> QED
    BY <1>1, <2>1
<1> HIDE DEF t
<1>6. ASSUME NEW i \in 1..(l + n)
      PROVE  \/ i <= off /\ i \in 1..l /\ t[i] = s[i]
             \/ i > off + n /\ i - n \in 1..l /\ t[i] = s[i - n]
             \/ i - off \in 1..n /\ t[i] = k + (i - off)
  <2>1. CASE i <= off
    <3>1. i \in 1..l
      BY <1>3, <2>1
    <3> QED
      BY <1>5, <2>1, <3>1
  <2>2. CASE i > off + n
    <3>1. i - n \in 1..l /\ ~(i - n <= off) /\ (i - n) + n = i
      BY <1>3, <2>2
    <3> QED
      BY <1>5, <2>2, <3>1
  <2>3. CASE i > off /\ i <= off + n
    <3>1. i - off \in 1..n /\ off + (i - off) = i
      BY <1>3, <2>3
    <3>2. t[off + (i - off)] = d[i - off]
      BY <1>5, <3>1
    <3> QED
      BY <1>4, <3>1, <3>2
  <2> QED
    BY <1>3, <2>1, <2>2, <2>3
<1>7. ASSUME NEW i \in 1..(l + n), NEW j \in 1..(l + n), t[i] = t[j]
      PROVE  i = j
  <2>1. \/ i <= off /\ i \in 1..l /\ t[i] = s[i] /\ t[i] \in 1..k
        \/ i > off + n /\ i - n \in 1..l /\ t[i] = s[i - n] /\ t[i] \in 1..k
        \/ i - off \in 1..n /\ t[i] = k + (i - off)
    BY <1>3, <1>6
  <2>2. \/ j <= off /\ j \in 1..l /\ t[j] = s[j] /\ t[j] \in 1..k
        \/ j > off + n /\ j - n \in 1..l /\ t[j] = s[j - n] /\ t[j] \in 1..k
        \/ j - off \in 1..n /\ t[j] = k + (j - off)
    BY <1>3, <1>6
  <2>3. \A x, y \in 1..l : s[x] = s[y] => x = y
    BY DEF Distinct
  <2>4. CASE i <= off /\ i \in 1..l /\ t[i] = s[i] /\ t[i] \in 1..k
    <3>1. ~(j - off \in 1..n /\ t[j] = k + (j - off))
      BY <1>7, <2>4
    <3>2. ~(j > off + n /\ j - n \in 1..l /\ t[j] = s[j - n])
      BY <1>7, <2>3, <2>4
    <3> QED
      BY <1>7, <2>2, <2>3, <2>4, <3>1, <3>2
  <2>5. CASE i > off + n /\ i - n \in 1..l /\ t[i] = s[i - n] /\ t[i] \in 1..k
    <3>1. ~(j - off \in 1..n /\ t[j] = k + (j - off))
      BY <1>7, <2>5
    <3>2. ~(j <= off /\ j \in 1..l /\ t[j] = s[j])
      BY <1>7, <2>3, <2>5
    <3>3. j - n \in 1..l /\ t[j] = s[j - n]
      BY <2>2, <3>1, <3>2
    <3>4. i - n = j - n
      BY <1>7, <2>3, <2>5, <3>3
    <3> QED
      BY <1>3, <3>4
  <2>6. CASE i - off \in 1..n /\ t[i] = k + (i - off)
    <3>1. ~(t[j] \in 1..k)
      BY <1>7, <2>6
    <3>2. t[j] = k + (j - off)
      BY <2>2, <3>1
    <3>3. i \in Int /\ j \in Int /\ off \in Int /\ k \in Int
      OBVIOUS
    <3>4. k + (i - off) = k + (j - off)
      BY <1>7, <2>6, <3>2
    <3> QED
      BY ONLY <3>3, <3>4
  <2> QED
    BY <2>1, <2>4, <2>5, <2>6
<1>8. Distinct(t)
  BY <1>5, <1>7 DEF Distinct
<1> QED
  BY <1>1, <1>5, <1>8 DEF t

LEMMA DistinctDel ==
    ASSUME NEW S, NEW t \in Seq(S), NEW off \in 0..Len(t), NEW d \in Seq(S), Distinct(InsAt(t, off, d))
    PROVE  Distinct(t)
<1> DEFINE s == InsAt(t, off, d)
           n == Len(d)
           P(j) == IF j <= off THEN j ELSE j + n
<1>1. n \in Nat /\ Len(t) \in Nat
  OBVIOUS
<1>2. /\ Len(s) = Len(t) + n
      /\ \A j \in 1..Len(t) : s[P(j)] = t[j]
  <2>1. Inserts(S, t, off, d, s)
    BY InsInserts
  <2> QED
    BY <2>1 DEF Inserts
<1> HIDE DEF s, n
<1>3. \A j \in 1..Len(t) : P(j) \in 1..Len(s)
  BY <1>1, <1>2
<1>4. \A i, j \in 1..Len(t) : P(i) = P(j) => i = j
  BY <1>1
<1>5. Distinct(s)
  BY DEF s
<1> HIDE DEF P
<1>6. \A i, j \in 1..Len(t) : t[i] = t[j] => P(i) = P(j)
  BY <1>2, <1>3, <1>5 DEF Distinct
<1> QED
  BY <1>4, <1>6 DEF Distinct

-----------------------------------------------------------------------------
(* Each operation follows the versions.                                    *)

LEMMA Inserting ==
    ASSUME TxtInv, NEW n \in 1..MaxIns, NEW off \in 0..sz, NEW mark \in Names \cup {"none"},
           Changed, CanIns(n), DoIns(New(n), off, mark), Noted("ins", off, New(n))
    PROVE  EditsOK' /\ Follows /\ Change
<1> DEFINE d == New(n)
           k == nrunes'
<1>1. PICK g : History(g)
  BY DEF TxtInv
<1>2. Text \in Seq(1..nrunes) /\ Distinct(Text)
  BY <1>1, TextOfHistory DEF TxtInv
<1>3. TypeOK
  BY InvTypes DEF TxtInv
<1>4. nrunes \in Nat /\ n \in Nat /\ n # 0 /\ k = nrunes + n /\ k \in Nat /\ k <= MaxRunes /\ nrunes <= k /\ vers' \in Nat
  BY BoundTypes DEF TxtInv, EditsOK, CanIns, Changed
<1>5. off \in 0..Len(Text) /\ off \in Nat
  BY <1>3, TextFacts
<1>6. d = [i \in 1..n |-> nrunes + i]
  BY DEF New
<1> HIDE DEF d, k
<1>7. /\ d \in Seq(1..k) /\ Len(d) = n
      /\ InsAt(Text, off, d) \in Seq(1..k) /\ Distinct(InsAt(Text, off, d))
  BY <1>2, <1>4, <1>5, <1>6, DistinctIns
<1>8. d \in Piece(1..k)
  BY <1>4, <1>7, EmptySeq DEF Piece
<1>9. d \in Piece(Runes)
  BY <1>4, <1>8, RunesSoFar
<1>10. Text' = InsAt(Text, off, d)
  BY <1>3, <1>9, DoInsFacts DEF d
<1>11. EditsOK' /\ Follows
  BY <1>4, <1>5, <1>7, <1>8, <1>10, NotedFollows DEF d, k
<1>12. Change
  BY <1>9 DEF Change, d
<1> QED
  BY <1>11, <1>12

LEMMA Deleting ==
    ASSUME TxtInv, NEW off \in 0..(sz - 1), NEW n \in Nat \ {0}, ~Skips(off),
           Changed, DoDel(off, n), Noted("del", off, Deleted(off, n)), nrunes' = nrunes
    PROVE  EditsOK' /\ Follows /\ Change
<1> DEFINE d == Deleted(off, n)
           k == nrunes'
<1>1. PICK g : History(g)
  BY DEF TxtInv
<1>2. Text \in Seq(1..nrunes) /\ Distinct(Text)
  BY <1>1, TextOfHistory DEF TxtInv
<1>3. TypeOK
  BY InvTypes DEF TxtInv
<1>4. k = nrunes /\ k \in Nat /\ k <= MaxRunes /\ nrunes <= k /\ vers' \in Nat
  BY DEF TxtInv, EditsOK, Changed
<1>5. sz = Len(Text) /\ sz \in Nat /\ off \in 0..(Len(Text) - 1) /\ off \in Nat
  BY <1>3, TextFacts
<1>6. Text' = DelAt(Text, off, n)
  BY <1>3, DoDelFacts
<1>7. d = SubSeq(Text, off + 1, IF off + n < Len(Text) THEN off + n ELSE Len(Text))
  BY <1>5 DEF Deleted
<1> HIDE DEF d, k
<1>8. Deletes(1..k, Text, off, n, d)
  BY <1>2, <1>4, <1>5, <1>7, DelFacts
<1> DEFINE t == Text'
<1>9. /\ d \in Piece(1..k) /\ t \in Seq(1..k) /\ off \in 0..Len(t)
      /\ Text = InsAt(t, off, d)
  <2>1. d \in Seq(1..k) /\ d # <<>> /\ t \in Seq(1..k) /\ off <= Len(t) /\ Text = InsAt(t, off, d)
    BY <1>6, <1>8 DEF Deletes
  <2> HIDE DEF t
  <2>2. Len(t) \in Nat
    BY <2>1, LenProperties
  <2> QED
    BY <1>5, <2>1, <2>2 DEF Piece
<1> HIDE DEF t
<1>10. Distinct(t)
  BY <1>2, <1>9, DistinctDel DEF Piece
<1>11. ~(nedits > 0 /\ Joins(edits[nedits], "del", off))
  BY DEF Skips
<1>12. EditsOK' /\ Follows
  BY <1>4, <1>5, <1>9, <1>10, <1>11, NotedFollows DEF d, k, t
<1>13. Change
  BY DEF Change
<1> QED
  BY <1>12, <1>13

\* Edits have runes, so that none ends at 0: all the text is never deleted as
\* part of another deletion.
LEMMA NotSkipped ==
    ASSUME TxtInv PROVE ~Skips(0)
<1> SUFFICES ASSUME Skips(0) PROVE FALSE
  OBVIOUS
<1>1. PICK g : History(g)
  BY DEF TxtInv
<1>2. nedits \in 1..Len(edits)
  BY DEF Skips, TxtInv, EditsOK
<1>3. edits[nedits] \in Edit /\ edits[nedits].data \in Piece(1..nrunes)
  BY <1>1, <1>2, TextOfHistory DEF TxtInv
<1>4. Len(edits[nedits].data) \in Nat \ {0} /\ edits[nedits].off \in Nat
  BY <1>3, EmptySeq DEF Edit, Piece
<1>5. edits[nedits].off + Len(edits[nedits].data) = 0
  BY DEF Skips, Joins
<1> QED
  BY <1>4, <1>5

\* The versions stay, and so do the edits.
LEMMA SameFollows ==
    ASSUME EditsOK, edits' = edits, nrunes' = nrunes, nedits' \in 0..Len(edits),
           nedits' \in {nedits - 1, nedits, nedits + 1},
           \A g : History(g) => g[nedits'] = Text'
    PROVE  Follows
<1>1. ASSUME NEW g, History(g) PROVE History(g)'
  <2>1. Versions(1..nrunes, edits, nedits', Text', g)
    BY <1>1 DEF History, Versions
  <2> QED
    BY <1>1, <2>1 DEF History
<1>2. \A g : SameVersions(edits, nedits, g, edits', nedits', g)
  BY DEF SameVersions
<1> QED
  BY <1>1, <1>2 DEF Follows

LEMMA UndoFollows == TxtInv /\ Undo => EditsOK' /\ Follows /\ Change
<1> SUFFICES ASSUME TxtInv, Undo PROVE EditsOK' /\ Follows /\ Change
  OBVIOUS
<1> DEFINE e == edits[nedits]
           n == nedits - 1
           S == 1..nrunes
<1>1. EditsOK /\ TypeOK
  BY InvTypes DEF TxtInv
<1>2. /\ nedits \in 1..Len(edits) /\ n \in 0..Len(edits) /\ Len(edits) \in Nat
      /\ edits' = edits /\ nedits' = n /\ contd' = contd /\ nrunes' = nrunes /\ vers' \in Nat
  BY <1>1 DEF Undo, EditsOK, Changed
<1>3. EditsOK'
  BY <1>1, <1>2 DEF EditsOK
<1>4. sz = Len(Text) /\ sz \in Nat /\ Piece(S) \subseteq Piece(Runes)
  BY <1>1, TextFacts, RunesSoFar DEF EditsOK
<1>5. ASSUME NEW g, History(g)
      PROVE  Change /\ g[n] = Text'
  <2> DEFINE s == g[n]
  <2>1. /\ g[nedits] = Text /\ Made(S, s, Text, e) /\ s \in Seq(S) /\ Text \in Seq(S)
        /\ e.data \in Piece(S) /\ e \in Edit
    BY <1>1, <1>2, <1>5, TextOfHistory
  <2>2. Undone(Text, e) = s
    BY <2>1, MadeFacts
  <2>3. Len(e.data) \in Nat \ {0} /\ e.data \in Seq(S) /\ Len(s) \in Nat
    BY <2>1, EmptySeq, LenProperties DEF Piece
  <2> HIDE DEF s, e, n, S
  <2>4. CASE e.op = "ins"
    <3>1. e.off \in 0..Len(s) /\ Text = InsAt(s, e.off, e.data)
      BY <2>1, <2>4 DEF Made
    <3>2. Len(Text) = Len(s) + Len(e.data)
      <4>1. Inserts(S, s, e.off, e.data, InsAt(s, e.off, e.data))
        BY <2>1, <2>3, <3>1, InsInserts
      <4> QED
        BY <3>1, <4>1 DEF Inserts
    <3>3. e.off \in 0..(sz - 1)
      BY <1>4, <2>3, <3>1, <3>2
    <3>4. DoDel(e.off, Len(e.data))
      BY <2>4 DEF Undo, e
    <3>5. Text' = DelAt(Text, e.off, Len(e.data))
      BY <1>1, <2>3, <3>3, <3>4, DoDelFacts
    <3>6. Change
      BY <2>3, <3>3, <3>4 DEF Change
    <3> QED
      BY <2>2, <2>4, <3>5, <3>6 DEF Undone, s
  <2>5. CASE e.op # "ins"
    <3>1. e.off \in 0..sz
      BY <1>4, <2>1, <2>5 DEF Made
    <3>2. DoIns(e.data, e.off, "none")
      BY <2>5 DEF Undo, e
    <3>3. e.data \in Piece(Runes)
      BY <1>4, <2>1
    <3>4. Text' = InsAt(Text, e.off, e.data)
      BY <1>1, <3>1, <3>2, <3>3, DoInsFacts
    <3>5. Change
      BY <3>1, <3>2, <3>3 DEF Change
    <3> QED
      BY <2>2, <2>5, <3>4, <3>5 DEF Undone, s
  <2> QED
    BY <2>4, <2>5
<1>6. Follows
  BY <1>1, <1>2, <1>5, SameFollows
<1> QED
  BY <1>3, <1>5, <1>6 DEF TxtInv

LEMMA RedoFollows == TxtInv /\ Redo => EditsOK' /\ Follows /\ Change
<1> SUFFICES ASSUME TxtInv, Redo PROVE EditsOK' /\ Follows /\ Change
  OBVIOUS
<1> DEFINE n == nedits + 1
           e == edits[n]
           S == 1..nrunes
<1>1. EditsOK /\ TypeOK
  BY InvTypes DEF TxtInv
<1>2. /\ n \in 1..Len(edits) /\ n \in 0..Len(edits) /\ n - 1 = nedits /\ Len(edits) \in Nat
      /\ edits' = edits /\ nedits' = n /\ contd' = contd /\ nrunes' = nrunes /\ vers' \in Nat
  BY <1>1 DEF Redo, EditsOK, Changed
<1>3. EditsOK'
  BY <1>1, <1>2 DEF EditsOK
<1>4. sz = Len(Text) /\ sz \in Nat /\ Piece(S) \subseteq Piece(Runes)
  BY <1>1, TextFacts, RunesSoFar DEF EditsOK
<1>5. ASSUME NEW g, History(g)
      PROVE  Change /\ g[n] = Text'
  <2> DEFINE t == g[n]
  <2>1. /\ g[nedits] = Text /\ Made(S, Text, t, e) /\ t \in Seq(S) /\ Text \in Seq(S)
        /\ e.data \in Piece(S) /\ e \in Edit
    BY <1>1, <1>2, <1>5, TextOfHistory
  <2>2. Done(Text, e) = t
    BY <2>1, MadeFacts
  <2>3. Len(e.data) \in Nat \ {0} /\ e.data \in Seq(S) /\ Len(t) \in Nat
    BY <2>1, EmptySeq, LenProperties DEF Piece
  <2> HIDE DEF t, e, n, S
  <2>4. CASE e.op # "ins"
    <3>1. e.off \in 0..Len(t) /\ Text = InsAt(t, e.off, e.data)
      BY <2>1, <2>4 DEF Made
    <3>2. Len(Text) = Len(t) + Len(e.data)
      <4>1. Inserts(S, t, e.off, e.data, InsAt(t, e.off, e.data))
        BY <2>1, <2>3, <3>1, InsInserts
      <4> QED
        BY <3>1, <4>1 DEF Inserts
    <3>3. e.off \in 0..(sz - 1)
      BY <1>4, <2>3, <3>1, <3>2
    <3>4. DoDel(e.off, Len(e.data))
      BY <2>4 DEF Redo, e, n
    <3>5. Text' = DelAt(Text, e.off, Len(e.data))
      BY <1>1, <2>3, <3>3, <3>4, DoDelFacts
    <3>6. Change
      BY <2>3, <3>3, <3>4 DEF Change
    <3> QED
      BY <2>2, <2>4, <3>5, <3>6 DEF Done, t
  <2>5. CASE e.op = "ins"
    <3>1. e.off \in 0..sz
      BY <1>4, <2>1, <2>5 DEF Made
    <3>2. DoIns(e.data, e.off, "none")
      BY <2>5 DEF Redo, e, n
    <3>3. e.data \in Piece(Runes)
      BY <1>4, <2>1
    <3>4. Text' = InsAt(Text, e.off, e.data)
      BY <1>1, <3>1, <3>2, <3>3, DoInsFacts
    <3>5. Change
      BY <3>1, <3>2, <3>3 DEF Change
    <3> QED
      BY <2>2, <2>5, <3>4, <3>5 DEF Done, t
  <2> QED
    BY <2>4, <2>5
<1>6. Follows
  BY <1>1, <1>2, <1>5, SameFollows
<1> QED
  BY <1>3, <1>5, <1>6 DEF TxtInv

LEMMA DropFollows == TxtInv /\ DropEdits => EditsOK' /\ Follows /\ Change
<1> SUFFICES ASSUME TxtInv, DropEdits PROVE EditsOK' /\ Follows /\ Change
  OBVIOUS
<1>1. /\ edits' = <<>> /\ nedits' = 0 /\ contd' = FALSE /\ Text' = Text
      /\ UNCHANGED <<data, sz, marks, seek, vers, nrunes>>
  BY DEF DropEdits, Text
<1>2. edits' \in Seq(Edit) /\ Len(edits') = 0
  BY <1>1, EmptySeq
<1>3. EditsOK'
  <2>1. nedits' \in 0..Len(edits') /\ contd' \in BOOLEAN
    <3>1. 0 \in 0..0
      OBVIOUS
    <3> QED
      BY <1>1, <1>2, <3>1
  <2> QED
    BY <1>1, <1>2, <2>1 DEF EditsOK, TxtInv
<1>4. ASSUME NEW g, History(g)
      PROVE  \E g2 : History(g2)' /\ NoVersions(edits, nedits, g, edits', nedits', g2)
  <2> PICK g2 : g2 = [k \in 0..0 |-> Text]
    OBVIOUS
  <2>1. g[nedits] = Text /\ Text \in Seq(1..nrunes) /\ Distinct(Text)
    BY <1>4, TextOfHistory DEF TxtInv
  <2>2. g2 \in [0..0 -> Seq(1..nrunes)] /\ g2[0] = Text
    BY <2>1
  <2>3. \A k \in 0..0 : k = 0
    OBVIOUS
  <2>4. Versions(1..nrunes, edits', nedits', Text, g2)
    BY <1>1, <1>2, <2>2 DEF Versions
  <2>5. \A k \in 0..Len(edits') : Distinct(g2[k])
    BY <1>2, <2>1, <2>2, <2>3
  <2>6. History(g2)'
    BY <1>1, <2>4, <2>5 DEF History
  <2>7. NoVersions(edits, nedits, g, edits', nedits', g2)
    BY <1>1, <1>2, <2>1, <2>2 DEF NoVersions
  <2> QED
    BY <2>6, <2>7
<1>5. Change
  BY <1>1 DEF Change
<1> QED
  BY <1>3, <1>4, <1>5 DEF Follows

LEMMA DelAllFollows == TxtInv /\ DelAll => EditsOK' /\ Follows /\ Change
<1> SUFFICES ASSUME TxtInv, DelAll PROVE EditsOK' /\ Follows /\ Change
  OBVIOUS
<1>1. TypeOK /\ EditsOK
  BY InvTypes DEF TxtInv
<1>2. Text \in Seq(Runes) /\ sz = Len(Text) /\ sz \in Nat
  BY <1>1, TextFacts
<1>3. nrunes' = nrunes /\ vers' \in Nat /\ Changed
  BY <1>1 DEF DelAll, Changed, EditsOK
<1>4. CASE sz = 0
  <2>1. UNCHANGED <<data, sz, edits, nedits, marks, seek>> /\ contd' = FALSE /\ Text' = Text
    BY <1>4 DEF DelAll, Text
  <2>2. EditsOK'
    BY <1>1, <1>3, <2>1 DEF EditsOK
  <2>3. \A g : History(g) => g[nedits'] = Text'
    BY <1>1, <2>1, TextOfHistory
  <2>4. Follows
    BY <1>1, <1>3, <2>1, <2>3, SameFollows DEF EditsOK
  <2>5. Change
    BY <2>1 DEF Change
  <2> QED
    BY <2>2, <2>4, <2>5
<1>5. CASE sz # 0
  <2>1. 0 \in 0..(sz - 1) /\ sz \in Nat \ {0}
    BY <1>2, <1>5
  <2>2. Deleted(0, sz) = Text
    <3>1. 0 + 1 = 1 /\ 0 + sz = sz /\ ~(0 + sz < sz)
      BY <1>2
    <3>2. SubSeq(Text, 1, sz) = Text
      BY <1>2, SubSeqFull
    <3> QED
      BY <3>1, <3>2 DEF Deleted
  <2>3. DoDel(0, sz) /\ Noted("del", 0, Deleted(0, sz))
    BY <1>5, <2>2 DEF DelAll
  <2> QED
    BY <1>3, <2>1, <2>3, NotSkipped, Deleting
<1> QED
  BY <1>4, <1>5

-----------------------------------------------------------------------------
(* The cached position.                                                    *)

Seeks == [off: Nat \cup {-2}, i: Nat, n: Nat]

\* x is the position of its offset.
SeekIn(d, x) ==
    /\ x.i \in 1..Len(d) /\ x.n \in 1..Len(d[x.i])
    /\ x.off = Start(d, x.i) + x.n - 1

LEMMA SeekInIs ==
    ASSUME NEW d, NEW off \in Nat, NEW i \in 1..Len(d), NEW n \in 1..Len(d[i]),
           Start(d, i) \in Nat, off = (Start(d, i) + n) - 1
    PROVE  SeekIn(d, [off |-> off, i |-> i, n |-> n])
<1> DEFINE x == [off |-> off, i |-> i, n |-> n]
<1>1. x.off = off /\ x.i = i /\ x.n = n
  OBVIOUS
<1> HIDE DEF x
<1>2. x.i \in 1..Len(d) /\ x.n \in 1..Len(d[x.i])
  BY <1>1
<1>3. x.off = Start(d, x.i) + x.n - 1
  BY <1>1
<1>4. SeekIn(d, x)
  BY <1>2, <1>3, Zenon DEF SeekIn
<1> QED
  BY <1>4 DEF x

LEMMA SeekFacts ==
    ASSUME NEW S, NEW d \in Seq(Piece(S)), NEW x \in Seeks, SeekIn(d, x)
    PROVE  /\ x.off \in Nat /\ x.i \in 1..Len(d) /\ x.n \in Nat /\ Len(d) \in Nat
           /\ Start(d, x.i) \in Nat /\ Len(d[x.i]) \in Nat \ {0}
           /\ Start(d, x.i + 1) = Start(d, x.i) + Len(d[x.i])
<1>1. x.i \in 1..Len(d) /\ x.n \in 1..Len(d[x.i]) /\ x.off = Start(d, x.i) + x.n - 1
  BY DEF SeekIn
<1>2. d \in Seq(Seq(S)) /\ Len(d) \in Nat /\ d[x.i] \in Seq(S) /\ d[x.i] # <<>>
  BY <1>1, PieceFacts
<1>3. Len(d[x.i]) \in Nat \ {0}
  BY <1>2, EmptySeq, LenProperties
<1>4. Start(d, x.i) \in Nat /\ Start(d, x.i + 1) = Start(d, x.i) + Len(d[x.i])
  BY <1>1, <1>2, StartFacts
<1>5. x.n \in Nat /\ x.off \in Nat \cup {-2}
  BY DEF Seeks
<1>6. x.off \in Nat
  <2> DEFINE a == Start(d, x.i)
             b == Len(d[x.i])
  <2>1. a \in Nat /\ b \in Nat /\ x.n \in 1..b /\ x.off = a + x.n - 1
    BY <1>1, <1>3, <1>4
  <2> HIDE DEF a, b
  <2> QED
    BY <2>1
<1> QED
  BY <1>1, <1>2, <1>3, <1>4, <1>5, <1>6

\* One step back, or forth, in the piece or to the one beside it.
LEMMA StepsIn ==
    ASSUME NEW S, NEW d \in Seq(Piece(S)), NEW x \in Seeks, SeekIn(d, x)
    PROVE  /\ x.n > 1 => SeekIn(d, [off |-> x.off - 1, i |-> x.i, n |-> x.n - 1])
           /\ x.n <= 1 /\ x.i > 1 =>
                SeekIn(d, [off |-> x.off - 1, i |-> x.i - 1, n |-> Len(d[x.i - 1])])
           /\ x.n < Len(d[x.i]) => SeekIn(d, [off |-> x.off + 1, i |-> x.i, n |-> x.n + 1])
           /\ x.n >= Len(d[x.i]) /\ x.i < Len(d) =>
                SeekIn(d, [off |-> x.off + 1, i |-> x.i + 1, n |-> 1])
<1> DEFINE a == Start(d, x.i)
           b == Len(d[x.i])
           o == x.off
           n == x.n
<1>1. /\ x.off \in Nat /\ x.i \in 1..Len(d) /\ x.n \in Nat /\ Len(d) \in Nat
      /\ a \in Nat /\ b \in Nat \ {0} /\ Start(d, x.i + 1) = a + b
      /\ n \in 1..b /\ n \in Nat /\ o \in Nat /\ o = (a + n) - 1
  BY SeekFacts DEF SeekIn
<1> HIDE DEF a, b, o, n
<1>2. ASSUME x.n > 1 PROVE SeekIn(d, [off |-> x.off - 1, i |-> x.i, n |-> x.n - 1])
  <2>1. n - 1 \in 1..b /\ o - 1 = (a + (n - 1)) - 1
    <3>1. n > 1
      BY <1>2 DEF n
    <3> QED
      BY <1>1, <3>1
  <2> QED
    BY <1>1, <2>1 DEF SeekIn, a, b, o, n
<1>3. ASSUME x.n <= 1, x.i > 1
      PROVE  SeekIn(d, [off |-> x.off - 1, i |-> x.i - 1, n |-> Len(d[x.i - 1])])
  <2> DEFINE j == x.i - 1
             l == Len(d[j])
  <2>1. j \in 1..Len(d) /\ j + 1 = x.i
    BY <1>1, <1>3
  <2>2. d \in Seq(Seq(S)) /\ d[j] \in Seq(S) /\ d[j] # <<>>
    BY <2>1, PieceFacts
  <2>3. l \in Nat \ {0}
    BY <2>2, EmptySeq, LenProperties
  <2>4. Start(d, j) \in Nat /\ Start(d, j + 1) = Start(d, j) + l
    BY <2>1, <2>2, StartFacts
  <2>5. a = Start(d, j) + l
    BY <2>1, <2>4 DEF a
  <2>6. l \in 1..l /\ o - 1 = (Start(d, j) + l) - 1
    <3>1. n = 1
      BY <1>1, <1>3 DEF n
    <3> QED
      BY <1>1, <2>3, <2>5, <3>1
  <2> DEFINE p == o - 1
  <2>7. l \in 1..Len(d[j]) /\ p = (Start(d, j) + l) - 1 /\ p \in Nat /\ Start(d, j) \in Nat
    <3>1. p = (Start(d, j) + l) - 1 /\ l \in Nat \ {0} /\ Start(d, j) \in Nat
      BY <2>3, <2>4, <2>6
    <3> QED
      BY <2>6, <3>1
  <2> HIDE DEF l, p, j
  <2>8. SeekIn(d, [off |-> p, i |-> j, n |-> l])
    BY <2>1, <2>7, SeekInIs
  <2> QED
    BY <2>8 DEF l, p, j, o
<1>4. ASSUME x.n < b PROVE SeekIn(d, [off |-> x.off + 1, i |-> x.i, n |-> x.n + 1])
  <2>1. n + 1 \in 1..b /\ o + 1 = (a + (n + 1)) - 1
    <3>1. n < b
      BY <1>4 DEF n
    <3> QED
      BY <1>1, <3>1
  <2> QED
    BY <1>1, <2>1 DEF SeekIn, a, b, o, n
<1>5. ASSUME x.n >= b, x.i < Len(d) PROVE SeekIn(d, [off |-> x.off + 1, i |-> x.i + 1, n |-> 1])
  <2> DEFINE j == x.i + 1
  <2>1. j \in 1..Len(d)
    BY <1>1, <1>5
  <2>2. d[j] \in Seq(S) /\ d[j] # <<>>
    BY <2>1, PieceFacts
  <2>3. Len(d[j]) \in Nat \ {0}
    BY <2>2, EmptySeq, LenProperties
  <2>4. 1 \in 1..Len(d[j])
    BY <2>3
  <2>5. o + 1 = (Start(d, j) + 1) - 1
    <3>1. n = b
      BY <1>1, <1>5 DEF n
    <3>2. Start(d, j) = a + b
      BY <1>1
    <3> QED
      BY <1>1, <3>1, <3>2
  <2> DEFINE p == o + 1
  <2>6. p = (Start(d, j) + 1) - 1 /\ p \in Nat /\ Start(d, j) \in Nat
    <3>1. Start(d, j) = a + b
      BY <1>1, <1>5
    <3> QED
      BY <1>1, <2>5, <3>1
  <2> HIDE DEF p, j
  <2>7. SeekIn(d, [off |-> p, i |-> j, n |-> 1])
    BY <2>1, <2>4, <2>6, SeekInIs
  <2> QED
    BY <2>7 DEF p, j, o
<1> QED
  BY <1>2, <1>3, <1>4, <1>5 DEF b

\* The piece an offset is in.
LookIn(d, off, i) ==
    /\ off - Start(d, i) < Len(d[i])
    /\ \A j \in 1..(i - 1) : off - Start(d, j) >= Len(d[j])

LEMMA LookWhere ==
    ASSUME NEW S, NEW d \in Seq(Seq(S)), NEW off \in Nat, off < Len(FlattenSeq(d))
    PROVE  /\ \E i \in 1..Len(d) : LookIn(d, off, i)
           /\ \A i \in 1..Len(d) : LookIn(d, off, i) =>
                off - Start(d, i) \in Nat /\ off - Start(d, i) < Len(d[i])
<1>1. Len(d) \in Nat /\ FlattenSeq(d) \in Seq(S)
  BY FlatType, LenProperties
<1>2. d # <<>> /\ off + 1 \in Nat /\ off + 1 <= Len(FlattenSeq(d))
  <2>1. Len(FlattenSeq(d)) \in Nat
    BY <1>1, LenProperties
  <2>2. Len(FlattenSeq(<<>>)) = 0
    BY FlatEmpty
  <2> QED
    BY <2>1, <2>2
<1>3. \A i \in 1..Len(d) : Start(d, i) \in Nat /\ Len(d[i]) \in Nat
  BY StartFacts
<1>4. ASSUME NEW i \in 1..Len(d) PROVE InsIn(d, off + 1, i) <=> LookIn(d, off, i)
  <2>1. i \in Nat
    OBVIOUS
  <2>2. \A j \in 1..i : Start(d, j) \in Nat /\ Len(d[j]) \in Nat
    BY <1>1, <1>3
  <2>3. ASSUME NEW j \in 1..i
        PROVE  /\ (off + 1) - Start(d, j) <= Len(d[j]) <=> off - Start(d, j) < Len(d[j])
               /\ (off + 1) - Start(d, j) > Len(d[j]) <=> off - Start(d, j) >= Len(d[j])
    BY <2>2
  <2>5. i \in 1..i /\ \A j \in 1..(i - 1) : j \in 1..i
    BY <2>1
  <2> QED
    BY <2>3, <2>5 DEF InsIn, LookIn
<1>5. \E i \in 1..Len(d) : InsIn(d, off + 1, i)
  BY <1>2, InsWhere
<1>6. ASSUME NEW i \in 1..Len(d), LookIn(d, off, i)
      PROVE  off - Start(d, i) \in Nat /\ off - Start(d, i) < Len(d[i])
  <2>1. InsIn(d, off + 1, i)
    BY <1>4, <1>6
  <2>2. i # 1 => off + 1 > Start(d, i)
    BY <1>2, <2>1, InsWhere
  <2>3. Start(d, 1) = 0 /\ Start(d, i) \in Nat
    BY StartFacts
  <2>4. off - Start(d, i) \in Nat
    BY <2>2, <2>3
  <2> QED
    BY <1>6, <2>4 DEF LookIn
<1> QED
  BY <1>4, <1>5, <1>6

LEMMA LookAt ==
    ASSUME NEW S, NEW d \in Seq(Piece(S)), NEW off \in Nat, off < Len(FlattenSeq(d)),
           NEW i, i = CHOOSE j \in 1..Len(d) : LookIn(d, off, j)
    PROVE  /\ [off |-> off, i |-> i, n |-> off - Start(d, i) + 1] \in Seeks
           /\ SeekIn(d, [off |-> off, i |-> i, n |-> off - Start(d, i) + 1])
<1>1. d \in Seq(Seq(S)) /\ Len(d) \in Nat
  BY PieceFacts
<1>2. i \in 1..Len(d) /\ LookIn(d, off, i)
  BY <1>1, LookWhere
<1> DEFINE a == Start(d, i)
           b == Len(d[i])
           n == off - a + 1
<1>3. off - a \in Nat /\ off - a < b /\ a \in Nat /\ b \in Nat
  BY <1>1, <1>2, LookWhere, StartFacts
<1> HIDE DEF a, b
<1>4. n \in 1..b /\ n \in Nat /\ off = (a + n) - 1
  BY <1>3
<1> HIDE DEF n
<1>5. SeekIn(d, [off |-> off, i |-> i, n |-> n])
  BY <1>2, <1>3, <1>4, SeekInIs DEF a, b
<1>6. i \in Nat
  BY <1>1, <1>2
<1>7. [off |-> off, i |-> i, n |-> n] \in Seeks
  BY <1>4, <1>6 DEF Seeks
<1> QED
  BY <1>5, <1>7 DEF n, a

LEMMA SeekOkIs ==
    /\ SeekOk <=> (seek.off # -2 => SeekIn(data, seek))
    /\ SeekOk' <=> (seek'.off # -2 => SeekIn(data', seek'))
BY DEF SeekOk, SeekIn, Start

\* Getc keeps the position, steps to the next one, looks for it, or forgets it.
LEMMA GetcKeeps ==
    ASSUME TxtInv, NEW off \in 0..sz, Getc(off)
    PROVE  Placed' /\ SeekOk'
<1>1. /\ data \in Seq(Piece(Runes)) /\ sz = Len(Text) /\ sz \in Nat /\ seek \in Seeks
      /\ Len(FlattenSeq(data)) = sz
  BY TextFacts, InvTypes DEF TxtInv, Placed, Seeks, Text
<1>2. seek.off # -2 => SeekIn(data, seek)
  BY SeekOkIs DEF TxtInv
<1>3. data' = data /\ (seek' \in Seeks => Placed')
  <2>1. UNCHANGED <<data, sz, marks>> /\ Text' = Text
    BY DEF Getc, Text
  <2>2. seek' \in Seeks => Placed'
    BY <2>1 DEF Placed, Seeks, TxtInv
  <2> QED
    BY <2>1, <2>2
<1> SUFFICES seek' \in Seeks /\ (seek'.off # -2 => SeekIn(data, seek'))
  BY <1>3, SeekOkIs
<1>4. CASE off = seek.off
  BY <1>1, <1>2, <1>4 DEF Getc
<1>5. CASE off # seek.off /\ off = seek.off - 1
  <2>1. seek.off # -2 /\ seek.off \in Int
    BY <1>1, <1>5 DEF Seeks
  <2>2. SeekIn(data, seek) /\ seek' = Back
    BY <1>2, <1>5, <2>1 DEF Getc
  <2>3. SeekIn(data, Back)
    <3>1. seek.n > 1 \/ seek.n <= 1
      BY <1>1, <2>2, SeekFacts
    <3> QED
      BY <1>1, <2>2, <3>1, StepsIn DEF Back
  <2>4. Back \in Seeks
    <3>1. off \in Nat /\ Back \in {seek, [off |-> off, i |-> Back.i, n |-> Back.n]}
      BY <1>1, <1>5 DEF Back
    <3>2. Back.i \in Nat /\ Back.n \in Nat
      BY <2>3 DEF SeekIn
    <3> QED
      BY <1>1, <3>1, <3>2 DEF Seeks
  <2> QED
    BY <2>2, <2>3, <2>4
<1>6. CASE off # seek.off /\ off # seek.off - 1 /\ off = seek.off + 1
  <2>1. seek.off # -2 /\ seek.off \in Int
    BY <1>1, <1>6 DEF Seeks
  <2>2. SeekIn(data, seek) /\ seek' = Forth
    BY <1>2, <1>6, <2>1 DEF Getc
  <2>3. SeekIn(data, Forth)
    <3>1. seek.n < Len(data[seek.i]) \/ seek.n >= Len(data[seek.i])
      BY <1>1, <2>2, SeekFacts
    <3> QED
      BY <1>1, <2>2, <3>1, StepsIn DEF Forth
  <2>4. Forth \in Seeks
    <3>1. off \in Nat /\ Forth \in {seek, [off |-> off, i |-> Forth.i, n |-> Forth.n]}
      BY <1>1, <1>6 DEF Forth
    <3>2. Forth.i \in Nat /\ Forth.n \in Nat
      BY <2>3 DEF SeekIn
    <3> QED
      BY <1>1, <3>1, <3>2 DEF Seeks
  <2> QED
    BY <2>2, <2>3, <2>4
<1>7. CASE off # seek.off /\ off # seek.off - 1 /\ off # seek.off + 1 /\ off >= sz
  <2>1. seek' = invalidate
    BY <1>7 DEF Getc
  <2> QED
    BY <1>1, <2>1 DEF invalidate, Seeks
<1>8. CASE off # seek.off /\ off # seek.off - 1 /\ off # seek.off + 1 /\ ~(off >= sz)
  <2>1. seek' = Look(off)
    BY <1>8 DEF Getc
  <2>2. off \in Nat /\ off < Len(FlattenSeq(data))
    BY <1>1, <1>8
  <2> DEFINE i == CHOOSE i \in 1..Len(data) : LookIn(data, off, i)
  <2>3. Look(off) = [off |-> off, i |-> i, n |-> off - Start(data, i) + 1]
    BY DEF Look, LookIn
  <2> HIDE DEF i
  <2>4. Look(off) \in Seeks /\ SeekIn(data, Look(off))
    BY <1>1, <2>2, <2>3, LookAt DEF i
  <2> QED
    BY <2>1, <2>4
<1> QED
  BY <1>4, <1>5, <1>6, <1>7, <1>8

-----------------------------------------------------------------------------
(* Every step keeps the invariant.                                         *)

Keeps == Placed' /\ EditsOK' /\ SeekOk' /\ Follows /\ (vers' # vers => Change)

LEMMA ChangeKeeps ==
    ASSUME TxtInv, EditsOK', Follows, Change
    PROVE  Keeps
<1>1. Placed' /\ ((seek' = seek /\ data' = data) \/ seek'.off = -2)
  BY ChangeFacts DEF TxtInv
<1>2. SeekOk'
  BY <1>1, SeekOkIs DEF TxtInv
<1> QED
  BY <1>1, <1>2 DEF Keeps

\* Steps that are not edits.
LEMMA OtherFollows ==
    ASSUME TxtInv, UNCHANGED <<data, sz, edits, nedits, vers, nrunes>>, contd' \in BOOLEAN
    PROVE  EditsOK' /\ Follows
<1>1. EditsOK' /\ Text' = Text
  BY DEF TxtInv, EditsOK, Text
<1>2. \A g : History(g) => g[nedits'] = Text'
  BY <1>1, TextOfHistory DEF TxtInv
<1> QED
  BY <1>1, <1>2, SameFollows DEF TxtInv, EditsOK

LEMMA StepFacts == TxtInv /\ [Next]_vars => Keeps
<1> SUFFICES ASSUME TxtInv, [Next]_vars PROVE Keeps
  OBVIOUS
<1>1. /\ Placed /\ EditsOK /\ SeekOk /\ TypeOK
      /\ sz \in Nat /\ marks \in [Names -> -1..sz] /\ contd \in BOOLEAN
  BY InvTypes, TextFacts DEF TxtInv, Placed, EditsOK
<1>2. ASSUME NEW n \in 1..MaxIns, NEW off \in 0..sz, Ins(n, off) PROVE Keeps
  BY <1>2, Inserting, ChangeKeeps DEF Ins
<1>3. ASSUME NEW n \in 1..MaxIns, NEW m \in Names, MarkIns(m, n) PROVE Keeps
  <2>1. marks[m] \in 0..sz
    <3>1. marks[m] \in -1..sz /\ marks[m] # -1
      BY <1>1, <1>3 DEF MarkIns
    <3> QED
      BY <1>1, <3>1
  <2> QED
    BY <1>3, <2>1, Inserting, ChangeKeeps DEF MarkIns
<1>4. ASSUME NEW n \in Nat \ {0}, NEW off \in 0..(sz - 1), ~Skips(off), Del(off, n) PROVE Keeps
  BY <1>4, Deleting, ChangeKeeps DEF Del
<1>5. ASSUME NEW n \in 1..MaxDel, NEW m \in Names, ~Skips(MarkedFrom(m, n)), MarkDel(m, n)
      PROVE  Keeps
  <2> DEFINE p == marks[m]
             off == MarkedFrom(m, n)
  <2>1. p \in -1..sz /\ p > 0 /\ Del(off, p - off)
    BY <1>1, <1>5 DEF MarkDel
  <2>2. off = IF n > p THEN 0 ELSE p - n
    BY DEF MarkedFrom
  <2>3. n \in Nat \ {0}
    BY BoundTypes
  <2> HIDE DEF off, p
  <2>4. off \in 0..(sz - 1) /\ p - off \in Nat \ {0}
    BY <1>1, <2>1, <2>2, <2>3
  <2> QED
    BY <1>4, <1>5, <2>1, <2>4 DEF off
<1>6. ASSUME InsFails(sz + 1) PROVE Keeps
  <2>1. UNCHANGED <<data, sz, edits, nedits, marks, vers, nrunes>> /\ contd' = FALSE
        /\ seek' = invalidate /\ Text' = Text
    BY <1>6 DEF InsFails, Text
  <2>2. EditsOK' /\ Follows
    BY <2>1, OtherFollows
  <2>3. Placed' /\ SeekOk'
    BY <1>1, <2>1, SeekOkIs DEF Placed, invalidate
  <2> QED
    BY <2>1, <2>2, <2>3 DEF Keeps
<1>7. ASSUME DelAll PROVE Keeps
  BY <1>7, DelAllFollows, ChangeKeeps
<1>8. ASSUME Undo PROVE Keeps
  BY <1>8, UndoFollows, ChangeKeeps
<1>9. ASSUME Redo PROVE Keeps
  BY <1>9, RedoFollows, ChangeKeeps
<1>10. ASSUME DropEdits PROVE Keeps
  BY <1>10, DropFollows, ChangeKeeps
<1>11. ASSUME NEW on \in BOOLEAN, ContdEdit(on) PROVE Keeps
  <2>1. UNCHANGED <<data, sz, edits, nedits, marks, seek, vers, nrunes>> /\ contd' \in BOOLEAN
        /\ Text' = Text
    BY <1>11 DEF ContdEdit, Text
  <2>2. EditsOK' /\ Follows
    BY <2>1, OtherFollows
  <2>3. Placed' /\ SeekOk'
    BY <1>1, <2>1, SeekOkIs DEF Placed
  <2> QED
    BY <2>1, <2>2, <2>3 DEF Keeps
<1>12. ASSUME NEW m \in Names, NEW off \in -1..sz, SetMark(m, off) PROVE Keeps
  <2>1. UNCHANGED <<data, sz, edits, nedits, seek, contd, vers, nrunes>> /\ Text' = Text
        /\ marks' = [marks EXCEPT ![m] = off]
    BY <1>12 DEF SetMark, Text
  <2>2. EditsOK' /\ Follows
    BY <1>1, <2>1, OtherFollows
  <2>3. marks' \in [Names -> -1..sz]
    BY <1>1, <2>1
  <2>4. Placed' /\ SeekOk'
    BY <1>1, <2>1, <2>3, SeekOkIs DEF Placed
  <2> QED
    BY <2>1, <2>2, <2>4 DEF Keeps
<1>13. ASSUME NEW off \in 0..sz, Getc(off) PROVE Keeps
  <2>1. UNCHANGED <<data, sz, edits, nedits, marks, contd, vers, nrunes>>
    BY <1>13 DEF Getc
  <2>2. EditsOK' /\ Follows
    BY <1>1, <2>1, OtherFollows
  <2> QED
    BY <1>13, <2>1, <2>2, GetcKeeps DEF Keeps
<1>14. ASSUME UNCHANGED vars PROVE Keeps
  <2>1. UNCHANGED <<data, sz, edits, nedits, marks, seek, contd, vers, nrunes>> /\ Text' = Text
    BY <1>14 DEF vars, Text
  <2>2. EditsOK' /\ Follows
    BY <1>1, <2>1, OtherFollows
  <2>3. Placed' /\ SeekOk'
    BY <1>1, <2>1, SeekOkIs DEF Placed
  <2> QED
    BY <2>1, <2>2, <2>3 DEF Keeps
<1>15. MaxDel \in Nat /\ \A n \in 1..MaxDel : n \in Nat \ {0}
  BY BoundTypes
<1> QED
  BY <1>2, <1>3, <1>4, <1>5, <1>6, <1>7, <1>8, <1>9, <1>10, <1>11, <1>12, <1>13, <1>14, <1>15
     DEF Next

LEMMA InvKept == TxtInv /\ [Next]_vars => TxtInv'
<1> SUFFICES ASSUME TxtInv, [Next]_vars PROVE TxtInv'
  OBVIOUS
<1>1. Placed' /\ EditsOK' /\ SeekOk' /\ Follows
  BY StepFacts DEF Keeps
<1>2. PICK g : History(g)
  BY DEF TxtInv
<1>3. \E g2 : History(g2)'
  BY <1>1, <1>2 DEF Follows
<1> QED
  BY <1>1, <1>3 DEF TxtInv

\* There is one version, the empty text.
LEMMA InitVersion ==
    ASSUME Init
    PROVE  /\ Text = <<>> /\ Placed /\ EditsOK /\ SeekOk
           /\ \A g : g = [k \in 0..0 |-> <<>>] => History(g)
<1>1. /\ data = <<>> /\ sz = 0 /\ edits = <<>> /\ nedits = 0 /\ contd = FALSE /\ vers = 0 /\ nrunes = 0
      /\ marks = [m \in Names |-> -1] /\ seek = [off |-> -2, i |-> 1, n |-> 1]
  BY DEF Init
<1>2. Text = <<>> /\ Len(Text) = 0
  BY <1>1, FlatEmpty, EmptySeq DEF Text
<1>3. Placed
  <2>1. data \in Seq(Piece(Runes))
    BY <1>1, EmptySeq
  <2>2. marks \in [Names -> -1..0]
    BY <1>1
  <2> QED
    BY <1>1, <1>2, <2>1, <2>2 DEF Placed
<1>4. EditsOK
  <2>1. edits \in Seq(Edit) /\ Len(edits) = 0
    BY <1>1, EmptySeq
  <2>2. 0 \in 0..0 /\ 0 <= MaxRunes
    BY BoundTypes
  <2>3. nedits \in 0..Len(edits)
    BY <1>1, <2>1, <2>2
  <2>4. contd \in BOOLEAN /\ vers \in Nat /\ nrunes \in Nat /\ nrunes <= MaxRunes
    BY <1>1, <2>2
  <2> QED
    BY <2>1, <2>3, <2>4 DEF EditsOK
<1>5. SeekOk
  BY <1>1 DEF SeekOk
<1>6. ASSUME NEW g, g = [k \in 0..0 |-> <<>>] PROVE History(g)
  <2>1. <<>> \in Seq(1..nrunes) /\ Len(edits) = 0 /\ Distinct(<<>>)
    BY <1>1, EmptySeq DEF Distinct
  <2>2. g \in [0..0 -> Seq(1..nrunes)] /\ g[0] = <<>>
    BY <1>6, <2>1
  <2>3. Versions(1..nrunes, edits, nedits, Text, g)
    BY <1>1, <1>2, <2>1, <2>2 DEF Versions
  <2>4. \A k \in 0..Len(edits) : g[k] = <<>>
    BY <1>6, <2>1
  <2>5. \A k \in 0..Len(edits) : Distinct(g[k])
    BY <2>1, <2>4
  <2> QED
    BY <2>3, <2>5 DEF History
<1> QED
  BY <1>2, <1>3, <1>4, <1>5, <1>6

LEMMA InitInv == Init => TxtInv
<1> SUFFICES ASSUME Init PROVE TxtInv
  OBVIOUS
<1>1. \E g : g = [k \in 0..0 |-> <<>>]
  OBVIOUS
<1> QED
  BY <1>1, InitVersion DEF TxtInv

-----------------------------------------------------------------------------
(* Invariants.                                                             *)

LEMMA Invariant == Spec => []TxtInv
BY InitInv, InvKept, PTL DEF Spec

\* Whatever is done to a text, every variable keeps to its type, no piece is
\* empty, the size is that of the text, and marks are in it (Text.Ins, Text.Del
\* and the rest, which keep sz and the marks beside the pieces).
THEOREM TypeCorrect == Spec => []TypeOK
<1>1. TxtInv => TypeOK
  BY InvTypes DEF TxtInv
<1> QED
  BY <1>1, Invariant, PTL

\* Where Getc was is where the cached piece and position are, whatever was
\* edited since (Text.Getc steps from them without looking).
THEOREM SeekIsRight == Spec => []SeekOk
<1>1. TxtInv => SeekOk
  BY DEF TxtInv
<1> QED
  BY <1>1, Invariant, PTL

-----------------------------------------------------------------------------
(* A text with undo is one that goes through versions.                     *)

\* The names of the variables of Undoable, given the versions.
HistBy(es, g) == [k \in 1..(Len(es) + 1) |-> g[k - 1]]

LEMMA InsertedIn ==
    ASSUME NEW s \in Seq(Nat), NEW t, Apart(s, t)
    PROVE  \E off \in 0..Len(s) : Undoing!Inserted(s, t, off)
<1>1. PICK off \in 0..Len(s), d \in Seq(Nat) : t = InsAt(s, off, d)
  BY DEF Apart
<1>2. Inserts(Nat, s, off, d, t)
  BY <1>1, InsInserts
<1> DEFINE l == Len(s)
           n == Len(d)
           k == off + n
<1>3. /\ t \in Seq(Nat) /\ Len(t) = l + n /\ l \in Nat /\ n \in Nat /\ k \in Nat
      /\ off \in 0..l /\ off \in Nat
      /\ \A j \in 1..l : t[IF j <= off THEN j ELSE j + n] = s[j]
  BY <1>2, LenProperties DEF Inserts
<1>4. k \in 0..Len(t) /\ off \in 0..Len(t) /\ Len(t) - k = l - off
  BY <1>3
<1> HIDE DEF l, n
<1>5. Upto(t, off) = Upto(s, off)
  <2> DEFINE a == Upto(t, off)
             b == Upto(s, off)
  <2>1. a \in Seq(Nat) /\ Len(a) = off /\ \A i \in 1..off : a[i] = t[i]
    BY <1>3, <1>4, UptoFacts
  <2>2. b \in Seq(Nat) /\ Len(b) = off /\ \A i \in 1..off : b[i] = s[i]
    BY <1>1, UptoFacts
  <2> HIDE DEF a, b
  <2>3. \A i \in 1..off : t[i] = s[i]
    <3> TAKE i \in 1..off
    <3>1. i \in 1..l /\ i <= off
      BY <1>3
    <3> QED
      BY <1>3, <3>1
  <2>4. \A i \in 1..Len(a) : a[i] = b[i]
    BY <2>1, <2>2, <2>3
  <2> QED
    BY <2>1, <2>2, <2>4, SeqEqual DEF a, b
<1>6. From(t, k) = From(s, off)
  <2> DEFINE a == From(t, k)
             b == From(s, off)
  <2> HIDE DEF k
  <2>1. a \in Seq(Nat) /\ Len(a) = l - off /\ \A i \in 1..(l - off) : a[i] = t[k + i]
    <3>1. a \in Seq(Nat) /\ Len(a) = Len(t) - k /\ \A i \in 1..(Len(t) - k) : a[i] = t[k + i]
      BY <1>3, <1>4, FromFacts
    <3> QED
      BY <1>4, <3>1
  <2>2. b \in Seq(Nat) /\ Len(b) = l - off /\ \A i \in 1..(l - off) : b[i] = s[off + i]
    BY <1>1, FromFacts DEF l
  <2> HIDE DEF a, b
  <2>3. ASSUME NEW i \in 1..(l - off) PROVE t[k + i] = s[off + i]
    <3> DEFINE j == off + i
    <3>1. j \in 1..l /\ ~(j <= off) /\ j + n = k + i
      BY <1>3 DEF k
    <3> HIDE DEF j
    <3>2. t[j + n] = s[j]
      BY <1>3, <3>1
    <3> QED
      BY <3>1, <3>2 DEF j
  <2>4. \A i \in 1..Len(a) : a[i] = b[i]
    BY <2>1, <2>2, <2>3
  <2> QED
    BY <2>1, <2>2, <2>4, SeqEqual DEF a, b
<1>7. Len(t) - Len(s) + off + 1 = k + 1 /\ Len(s) <= Len(t) /\ off <= Len(s)
  BY <1>3 DEF l
<1>8. Undoing!Inserted(s, t, off)
  <2> HIDE DEF k
  <2> QED
    BY <1>5, <1>6, <1>7 DEF Undoing!Inserted, Upto, From
<1> QED
  BY <1>8

\* The versions that the variables tell of are those of the history.
LEMMA VersionsAre ==
    ASSUME EditsOK, NEW g, History(g)
    PROVE  Version = g
<1>1. Versions(1..nrunes, edits, nedits, Text, g) /\ Len(edits) \in Nat /\ nedits \in 0..Len(edits)
  BY LenProperties DEF History, EditsOK
<1>2. (CHOOSE f : VersionOf(edits, nedits, Text, f)) = g
  BY <1>1, VersionIs
<1> QED
  BY <1>2, VersionDef

LEMMA VersionsWillBe ==
    ASSUME EditsOK', NEW g, History(g)'
    PROVE  Version' = g
<1>1. /\ Versions(1..nrunes', edits', nedits', Text', g)
      /\ Len(edits') \in Nat /\ nedits' \in 0..Len(edits')
  BY LenProperties DEF History, EditsOK
<1>2. (CHOOSE f : VersionOf(edits', nedits', Text', f)) = g
  BY <1>1, VersionIs
<1> QED
  BY <1>2, VersionDefPrimed

\* What is done to the versions is what Undoable does.
HistHas(es, n, g) ==
    /\ HistBy(es, g) \in Seq(Seq(Nat)) /\ Len(HistBy(es, g)) = Len(es) + 1
    /\ HistBy(es, g)[n + 1] = g[n]
    /\ \A k \in 1..(Len(es) + 1) : HistBy(es, g)[k] = g[k - 1]

LEMMA HistFacts ==
    ASSUME NEW es, NEW n, Len(es) \in Nat, n \in 0..Len(es), NEW g, NEW S,
           g \in [0..Len(es) -> Seq(S)], S \subseteq Nat
    PROVE  HistHas(es, n, g)
<1> DEFINE h == HistBy(es, g)
           l == Len(es)
<1>1. Seq(S) \subseteq Seq(Nat)
  BY SeqWiden
<1>2. \A k \in 1..(l + 1) : k - 1 \in 0..l
  OBVIOUS
<1>3. h = [k \in 1..(l + 1) |-> g[k - 1]] /\ l + 1 \in Nat
  BY DEF HistBy
<1> HIDE DEF h, l
<1>4. \A k \in 1..(l + 1) : h[k] = g[k - 1] /\ g[k - 1] \in Seq(Nat)
  BY <1>1, <1>2, <1>3 DEF l
<1>5. h \in [1..(l + 1) -> Seq(Nat)]
  BY <1>3, <1>4
<1>6. h \in Seq(Seq(Nat)) /\ Len(h) = l + 1
  BY <1>3, <1>5, FcnSeq
<1>7. n + 1 \in 1..(l + 1) /\ (n + 1) - 1 = n
  BY DEF l
<1> QED
  BY <1>4, <1>6, <1>7 DEF h, l, HistHas

Hist == [k \in 1..(Len(edits) + 1) |-> Version[k - 1]]

LEMMA EditIs ==
    ASSUME NEW h \in Seq(Seq(Nat)), NEW h2 \in Seq(Seq(Nat)), NEW n \in Nat, NEW n2 \in Nat,
           nedits = n, nedits' = n2, n2 \in {n, n + 1} \ {0}, n + 1 <= Len(h),
           Len(h2) = n2 + 1, \A k \in 1..n2 : h2[k] = h[k],
           Apart(h[n + 1], h2[n2 + 1]) \/ Apart(h2[n2 + 1], h[n + 1])
    PROVE  Undoing!Edit(h, h2)
<1> DEFINE s == h[n + 1]
           t == h2[n2 + 1]
<1>1. s \in Seq(Nat) /\ t \in Seq(Nat) /\ Len(s) \in Nat /\ Len(t) \in Nat
  <2>1. n + 1 \in 1..Len(h) /\ n2 + 1 \in 1..Len(h2)
    OBVIOUS
  <2>2. s \in Seq(Nat) /\ t \in Seq(Nat)
    BY <2>1, ElementOfSeq
  <2> QED
    BY <2>2, LenProperties
<1>2. SubSeq(h2, 1, n2) = SubSeq(h, 1, n2)
  <2>1. n2 \in 0..Len(h2) /\ n2 \in 0..Len(h)
    OBVIOUS
  <2> DEFINE a == Upto(h2, n2)
             b == Upto(h, n2)
  <2>2. a \in Seq(Seq(Nat)) /\ Len(a) = n2 /\ \A i \in 1..n2 : a[i] = h2[i]
    BY <2>1, UptoFacts
  <2>3. b \in Seq(Seq(Nat)) /\ Len(b) = n2 /\ \A i \in 1..n2 : b[i] = h[i]
    BY <2>1, UptoFacts
  <2> HIDE DEF a, b
  <2>4. \A i \in 1..Len(a) : a[i] = b[i]
    BY <2>2, <2>3
  <2>5. a = b
    BY <2>2, <2>3, <2>4, SeqEqual
  <2> QED
    BY <2>5 DEF a, b, Upto
<1> HIDE DEF s, t
<1>3. \E off \in 0..(Len(s) + Len(t)) : Undoing!Inserted(s, t, off) \/ Undoing!Inserted(t, s, off)
  <2>1. CASE Apart(s, t)
    <3>1. PICK off \in 0..Len(s) : Undoing!Inserted(s, t, off)
      BY <1>1, <2>1, InsertedIn
    <3>2. off \in 0..(Len(s) + Len(t))
      BY <1>1
    <3> QED
      BY <3>1, <3>2
  <2>2. CASE Apart(t, s)
    <3>1. PICK off \in 0..Len(t) : Undoing!Inserted(t, s, off)
      BY <1>1, <2>2, InsertedIn
    <3>2. off \in 0..(Len(s) + Len(t))
      BY <1>1
    <3> QED
      BY <3>1, <3>2
  <2> QED
    BY <2>1, <2>2 DEF s, t
<1>4. (nedits + 1)' \in {nedits + 1, (nedits + 1) + 1} \ {1} /\ Len(h2) = (nedits + 1)' /\ (nedits + 1)' - 1 = n2
  OBVIOUS
<1>5. nedits + 1 = n + 1 /\ nedits' + 1 = n2 + 1
  OBVIOUS
<1> QED
  BY <1>2, <1>3, <1>4, <1>5 DEF Undoing!Edit, s, t

LEMMA ForgetIs ==
    ASSUME NEW h \in Seq(Seq(Nat)), NEW h2 \in Seq(Seq(Nat)), NEW n \in Nat,
           nedits = n, nedits' = 0, Len(h2) = 1, h2[1] = h[n + 1], n + 1 <= Len(h)
    PROVE  Undoing!Forget(h, h2)
<1>1. h[n + 1] \in Seq(Nat)
  BY ElementOfSeq
<1>2. h2 = <<h[n + 1]>>
  <2> DEFINE x == h[n + 1]
             u == <<x>>
  <2>1. u \in Seq(Seq(Nat)) /\ Len(u) = 1 /\ u[1] = x
    BY <1>1
  <2> HIDE DEF u
  <2>2. \A i \in 1..Len(h2) : h2[i] = u[i]
    BY <2>1
  <2> QED
    BY <2>1, <2>2, SeqEqual DEF u
<1> QED
  BY <1>2 DEF Undoing!Forget

LEMMA UndoableStep == TxtInv /\ [Next]_vars => [Undoing!UNext]_(Undoing!uvars)
<1> SUFFICES ASSUME TxtInv, [Next]_vars PROVE [Undoing!UNext]_(Undoing!uvars)
  OBVIOUS
<1>1. EditsOK /\ EditsOK' /\ Follows
  BY StepFacts DEF TxtInv, Keeps
<1>2. PICK g : History(g)
  BY DEF TxtInv
<1>3. PICK g2 : /\ History(g2)'
                /\ \/ SameVersions(edits, nedits, g, edits', nedits', g2)
                   \/ NoVersions(edits, nedits, g, edits', nedits', g2)
                   \/ NewVersion(edits, nedits, g, edits', nedits', g2)
  BY <1>1, <1>2 DEF Follows
<1> DEFINE h == HistBy(edits, g)
           h2 == HistBy(edits', g2)
<1>4. Hist = h /\ Hist' = h2
  <2>1. Version = g /\ Version' = g2
    BY <1>1, <1>2, <1>3, VersionsAre, VersionsWillBe
  <2> QED
    BY <2>1 DEF Hist, HistBy
<1>5. /\ Len(edits) \in Nat /\ nedits \in 0..Len(edits) /\ nedits \in Nat
      /\ Len(edits') \in Nat /\ nedits' \in 0..Len(edits') /\ nedits' \in Nat
      /\ 1..nrunes \subseteq Nat /\ 1..nrunes' \subseteq Nat
  BY <1>1, LenProperties DEF EditsOK
<1>6. g \in [0..Len(edits) -> Seq(1..nrunes)] /\ g2 \in [0..Len(edits') -> Seq(1..nrunes')]
  BY <1>2, <1>3 DEF History, Versions
<1>7. /\ h \in Seq(Seq(Nat)) /\ Len(h) = Len(edits) + 1 /\ h[nedits + 1] = g[nedits]
      /\ \A k \in 1..(Len(edits) + 1) : h[k] = g[k - 1]
  <2>1. HistHas(edits, nedits, g)
    BY <1>5, <1>6, HistFacts
  <2> QED
    BY <2>1 DEF HistHas
<1>8. /\ h2 \in Seq(Seq(Nat)) /\ Len(h2) = Len(edits') + 1 /\ h2[nedits' + 1] = g2[nedits']
      /\ \A k \in 1..(Len(edits') + 1) : h2[k] = g2[k - 1]
  <2> DEFINE es == edits'
             n == nedits'
  <2>1. Len(es) \in Nat /\ n \in 0..Len(es) /\ g2 \in [0..Len(es) -> Seq(1..nrunes')]
    BY <1>5, <1>6
  <2> HIDE DEF es, n
  <2>2. HistHas(es, n, g2)
    BY <1>5, <2>1, HistFacts
  <2> QED
    BY <2>2 DEF HistHas, es, n
<1>9. CASE SameVersions(edits, nedits, g, edits', nedits', g2)
  <2>1. /\ Len(edits') = Len(edits) /\ g2 = g
        /\ nedits' \in {nedits - 1, nedits, nedits + 1} /\ nedits' \in 0..Len(edits)
    BY <1>9 DEF SameVersions
  <2>2. h2 = h
    BY <2>1 DEF HistBy
  <2>3. CASE nedits' = nedits
    BY <1>4, <2>2, <2>3 DEF Undoing!uvars, Hist
  <2>4. CASE nedits' = nedits - 1
    <3>1. Undoing!Undo(Hist, Hist')
      BY <1>4, <1>5, <2>2, <2>4 DEF Undoing!Undo
    <3> QED
      BY <3>1 DEF Undoing!UNext, Hist
  <2>5. CASE nedits' = nedits + 1
    <3>1. nedits + 1 < Len(h)
      BY <1>5, <1>7, <2>1, <2>5
    <3>2. Undoing!Redo(h, h2)
      BY <2>2, <2>5, <3>1 DEF Undoing!Redo
    <3> QED
      BY <1>4, <3>2 DEF Undoing!UNext, Hist
  <2> QED
    BY <2>1, <2>3, <2>4, <2>5
<1>10. CASE NoVersions(edits, nedits, g, edits', nedits', g2)
  <2>1. Len(edits') = 0 /\ nedits' = 0 /\ g2[0] = g[nedits]
    BY <1>10 DEF NoVersions
  <2>2. Len(h2) = 1 /\ h2[1] = h[nedits + 1] /\ nedits + 1 <= Len(h)
    BY <1>5, <1>7, <1>8, <2>1
  <2> HIDE DEF h, h2
  <2>3. Undoing!Forget(h, h2)
    BY <1>5, <1>7, <1>8, <2>1, <2>2, ForgetIs
  <2> QED
    BY <1>4, <2>3 DEF Undoing!UNext, Hist
<1>11. CASE NewVersion(edits, nedits, g, edits', nedits', g2)
  <2>1. /\ Len(edits') = nedits' /\ nedits' \in {nedits, nedits + 1} \ {0}
        /\ \A k \in 0..(nedits' - 1) : g2[k] = g[k]
        /\ Apart(g[nedits], g2[nedits']) \/ Apart(g2[nedits'], g[nedits])
    BY <1>11 DEF NewVersion
  <2> HIDE DEF h, h2
  <2>2. Len(h2) = nedits' + 1 /\ nedits + 1 <= Len(h)
    BY <1>5, <1>7, <1>8, <2>1
  <2>3. ASSUME NEW k \in 1..nedits' PROVE h2[k] = h[k]
    <3> DEFINE l == Len(edits)
               n2 == nedits'
    <3>1. k \in 1..n2 /\ n2 <= l + 1 /\ n2 \in Nat /\ l \in Nat /\ Len(edits') = n2
      BY <1>5, <2>1
    <3> HIDE DEF l, n2
    <3>2. k \in 1..(l + 1) /\ k \in 1..(n2 + 1) /\ k - 1 \in 0..(n2 - 1)
      BY <3>1
    <3>3. h[k] = g[k - 1] /\ h2[k] = g2[k - 1] /\ g2[k - 1] = g[k - 1]
      BY <1>7, <1>8, <2>1, <3>1, <3>2 DEF l, n2
    <3> QED
      BY <3>3
  <2>4. Undoing!Edit(h, h2)
    BY <1>5, <1>7, <1>8, <2>1, <2>2, <2>3, EditIs
  <2> QED
    BY <1>4, <2>4 DEF Undoing!UNext, Hist
<1> QED
  BY <1>3, <1>9, <1>10, <1>11

LEMMA UndoableInit == Init => Undoing!UInit
<1> SUFFICES ASSUME Init PROVE Undoing!UInit
  OBVIOUS
<1>1. PICK g : g = [k \in 0..0 |-> <<>>]
  OBVIOUS
<1>2. EditsOK /\ History(g) /\ nedits = 0 /\ edits = <<>> /\ Len(edits) = 0
  BY <1>1, InitVersion DEF Init
<1>3. Version = g
  BY <1>2, VersionsAre
<1>4. Hist = [k \in 1..1 |-> <<>>]
  <2>1. \A k \in 1..1 : g[k - 1] = <<>>
    BY <1>1
  <2>2. 1..(Len(edits) + 1) = 1..1
    BY <1>2
  <2> QED
    BY <1>3, <2>1, <2>2 DEF Hist
<1>5. [k \in 1..1 |-> <<>>] = <<<<>>>>
  OBVIOUS
<1> QED
  BY <1>2, <1>4, <1>5 DEF Undoing!UInit, Hist

\* Ins, Del and their kin, on pieces, are edits of the text; Undo and Redo take
\* it exactly through the versions it had, whatever the edits noted were joined
\* to and whatever was dropped (Text.addEdit, Text.Undo and Text.Redo).
THEOREM UndoableIsImplemented == Spec => IsUndoable
<1>1. Init => Undoing!UInit
  BY UndoableInit
<1>2. TxtInv /\ [Next]_vars => [Undoing!UNext]_(Undoing!uvars)
  BY UndoableStep
<1> QED
  BY <1>1, <1>2, Invariant, PTL DEF Spec, IsUndoable, Undoing!USpec

-----------------------------------------------------------------------------
(* Marks.                                                                  *)

BeforeIn(s, r, off) == \E i \in 1..off : s[i] = r

\* Offset a of s and offset b of t, which is s with d inserted, are between the
\* same runes of s.
SameSide(s, off, d, a, b) ==
    \A j \in 1..Len(s) : j <= a <=> (IF j <= off THEN j ELSE j + Len(d)) <= b

LEMMA SidesKept ==
    ASSUME NEW S, NEW s \in Seq(S), NEW off \in 0..Len(s), NEW d \in Seq(S), NEW t,
           t = InsAt(s, off, d), Distinct(t),
           NEW a \in 0..Len(s), NEW b \in 0..Len(t), SameSide(s, off, d, a, b),
           NEW r \in Range(s)
    PROVE  BeforeIn(s, r, a) <=> BeforeIn(t, r, b)
<1> DEFINE n == Len(d)
           P(j) == IF j <= off THEN j ELSE j + n
<1>1. Inserts(S, s, off, d, t)
  BY InsInserts
<1>2. /\ n \in Nat /\ Len(s) \in Nat /\ Len(t) = Len(s) + n
      /\ \A j \in 1..Len(s) : t[P(j)] = s[j]
  BY <1>1, LenProperties DEF Inserts
<1>3. Distinct(s)
  BY DistinctDel
<1>4. \A j \in 1..Len(s) : P(j) \in 1..Len(t)
  BY <1>2
<1>5. PICK j \in 1..Len(s) : s[j] = r
  BY DEF Range
<1>6. j <= a <=> P(j) <= b
  BY DEF SameSide
<1> DEFINE p == P(j)
<1>7. p \in 1..Len(t) /\ t[p] = r /\ (j <= a <=> p <= b)
  BY <1>2, <1>4, <1>5, <1>6
<1> HIDE DEF p, n
<1>8. BeforeIn(s, r, a) <=> j <= a
  <2>1. ASSUME j <= a PROVE BeforeIn(s, r, a)
    BY <1>5, <2>1 DEF BeforeIn
  <2>2. ASSUME BeforeIn(s, r, a) PROVE j <= a
    <3>1. PICK i \in 1..a : s[i] = r
      BY <2>2 DEF BeforeIn
    <3>2. i \in 1..Len(s)
      BY <1>2
    <3>3. i = j
      BY <1>3, <1>5, <3>1, <3>2 DEF Distinct
    <3> QED
      BY <3>3
  <2> QED
    BY <2>1, <2>2
<1>9. BeforeIn(t, r, b) <=> p <= b
  <2>1. ASSUME p <= b PROVE BeforeIn(t, r, b)
    <3>1. p \in 1..b
      BY <1>7, <2>1
    <3> QED
      BY <1>7, <3>1 DEF BeforeIn
  <2>2. ASSUME BeforeIn(t, r, b) PROVE p <= b
    <3>1. PICK i \in 1..b : t[i] = r
      BY <2>2 DEF BeforeIn
    <3>2. i \in 1..Len(t)
      BY <1>2
    <3>3. i = p
      BY <1>7, <3>1, <3>2 DEF Distinct
    <3> QED
      BY <3>3
  <2> QED
    BY <2>1, <2>2
<1> QED
  BY <1>7, <1>8, <1>9

LEMMA MarkStep ==
    ASSUME TxtInv, TxtInv', Change, NEW m \in Names, marks[m] # -1,
           NEW r \in Range(Text), r \in Range(Text')
    PROVE  BeforeIn(Text, r, marks[m]) <=> BeforeIn(Text', r, marks'[m])
<1> DEFINE a == marks[m]
           b == marks'[m]
           t == Text'
<1>1. TypeOK
  BY InvTypes DEF TxtInv
<1>2. Text \in Seq(Runes) /\ t \in Seq(Runes) /\ sz = Len(Text) /\ sz \in Nat /\ sz' = Len(t)
  <2>1. Text \in Seq(Runes) /\ sz = Len(Text) /\ sz \in Nat
    BY <1>1, TextFacts
  <2>2. data' \in Seq(Piece(Runes)) /\ sz' = Len(Text')
    BY DEF TxtInv, Placed
  <2>3. Text' \in Seq(Runes)
    BY <2>2, PieceFacts, FlatType DEF Text
  <2> QED
    BY <2>1, <2>2, <2>3
<1>3. Distinct(Text) /\ Distinct(t)
  <2>1. PICK g : History(g)
    BY DEF TxtInv
  <2>2. PICK g2 : History(g2)'
    BY DEF TxtInv
  <2>3. g2[nedits'] = Text' /\ nedits' \in 0..Len(edits') /\ \A k \in 0..Len(edits') : Distinct(g2[k])
    BY <2>2 DEF History, Versions, TxtInv, EditsOK
  <2> QED
    BY <2>1, <2>3, TextOfHistory DEF TxtInv
<1>4. a \in 0..sz /\ marks \in [Names -> -1..sz]
  <2>1. marks \in [Names -> -1..sz]
    BY <1>1 DEF TypeOK
  <2>2. a \in -1..sz
    BY <2>1
  <2> QED
    BY <1>2, <2>1, <2>2
<1>5. ASSUME NEW new \in Piece(Runes), NEW off \in 0..sz, NEW mark, DoIns(new, off, mark)
      PROVE  BeforeIn(Text, r, a) <=> BeforeIn(t, r, b)
  <2> DEFINE n == Len(new)
  <2>1. new \in Seq(Runes) /\ n \in Nat
    BY LenProperties DEF Piece
  <2>2. t = InsAt(Text, off, new)
    BY <1>1, <1>5, DoInsFacts
  <2>3. Len(t) = sz + n
    <3>1. Inserts(Runes, Text, off, new, t)
      BY <1>2, <2>1, <2>2, InsInserts
    <3> QED
      BY <1>2, <3>1 DEF Inserts
  <2>4. b = IF a # off \/ m = mark THEN pins(a, off, n) ELSE a
    BY <1>5 DEF DoIns, markins
  <2> HIDE DEF a, b, t
  <2>5. (a <= off /\ b = a) \/ (off <= a /\ b = a + n)
    BY <1>2, <1>4, <2>4 DEF pins
  <2> HIDE DEF n
  <2>6. b \in 0..Len(t)
    BY <1>2, <1>4, <2>1, <2>3, <2>5
  <2>7. \A j \in 1..sz : j <= a <=> (IF j <= off THEN j ELSE j + n) <= b
    BY <1>2, <1>4, <2>1, <2>5
  <2>8. SameSide(Text, off, new, a, b)
    BY <1>2, <2>7 DEF SameSide, n
  <2> QED
    BY <1>2, <1>3, <1>4, <2>1, <2>2, <2>6, <2>8, SidesKept
<1>6. ASSUME NEW off \in 0..(sz - 1), NEW k \in Nat \ {0}, DoDel(off, k)
      PROVE  BeforeIn(Text, r, a) <=> BeforeIn(t, r, b)
  <2> DEFINE d == Deleted(off, k)
             n == Len(d)
  <2>1. /\ d \in Piece(Runes) /\ off + n <= sz
        /\ off \in 0..Len(t) /\ Text = InsAt(t, off, d)
    BY <1>1, <1>6, DoDelFacts
  <2>2. b = pdel(a, off, off + n)
    BY <1>6 DEF DoDel, markdel
  <2> HIDE DEF d
  <2>3. d \in Seq(Runes) /\ n \in Nat
    BY <2>1, LenProperties DEF Piece
  <2>4. sz = Len(t) + n /\ Len(t) \in Nat
    <3>1. Inserts(Runes, t, off, d, Text)
      BY <1>2, <2>1, <2>3, InsInserts
    <3> QED
      BY <1>2, <3>1, LenProperties DEF Inserts
  <2> HIDE DEF a, b, t, n
  <2>5. b \in 0..Len(t)
    BY <1>2, <1>4, <2>1, <2>2, <2>3, <2>4 DEF pdel
  <2>6. \A j \in 1..Len(t) : j <= b <=> (IF j <= off THEN j ELSE j + n) <= a
    BY <1>2, <1>4, <2>1, <2>2, <2>3, <2>4 DEF pdel
  <2>7. SameSide(t, off, d, b, a)
    BY <2>6 DEF SameSide, n
  <2>8. a \in 0..Len(Text) /\ r \in Range(t)
    BY <1>2, <1>4 DEF t
  <2> QED
    BY <1>2, <1>3, <2>1, <2>3, <2>5, <2>7, <2>8, SidesKept
<1>7. ASSUME UNCHANGED <<data, sz, marks, seek>>
      PROVE  BeforeIn(Text, r, a) <=> BeforeIn(t, r, b)
  BY <1>7 DEF Text
<1> QED
  BY <1>5, <1>6, <1>7 DEF Change

\* No rune goes from one side of a mark to the other while the text is edited,
\* undone and redone (markins and markdel move marks as ins and del move runes).
THEOREM MarksAreKept == Spec => MarksKept
<1>1. ASSUME TxtInv, TxtInv', [Next]_vars
      PROVE  [vers' # vers =>
                \A m \in Names : marks[m] # -1 =>
                    \A r \in Range(Text) \cap Range(Text)' :
                        Before(r, marks[m]) <=> Before(r, marks[m])']_vars
  <2> SUFFICES ASSUME vers' # vers, NEW m \in Names, marks[m] # -1,
                      NEW r \in Range(Text) \cap Range(Text)'
               PROVE  Before(r, marks[m]) <=> Before(r, marks[m])'
    OBVIOUS
  <2>1. Change
    BY <1>1, StepFacts DEF Keeps
  <2>2. BeforeIn(Text, r, marks[m]) <=> BeforeIn(Text', r, marks'[m])
    BY <1>1, <2>1, MarkStep
  <2> QED
    BY <2>2 DEF Before, BeforeIn
<1> QED
  BY <1>1, Invariant, PTL DEF Spec, MarksKept
=============================================================================
