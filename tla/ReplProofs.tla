----------------------------- MODULE ReplProofs ------------------------------
(***************************************************************************)
(* Replicas of any tree: their types, and that the databases never hide a  *)
(* difference, whatever is edited, run and fails.                          *)
(***************************************************************************)
EXTENDS Repl, SequenceTheorems, FiniteSetTheorems, WellFoundedInduction, TLAPS

-----------------------------------------------------------------------------
(* Paths.                                                                  *)

LEMMA AllAreSeqs ==
    /\ <<>> \in All /\ Paths \subseteq All
    /\ \A a \in All : a \in Seq(Nat) /\ Len(a) \in Nat
    /\ \A p \in Paths : Len(p) > 0 /\ p # <<>>
<1>1. Paths \subseteq Seq(Nat) /\ \A p \in Paths : p # <<>>
  BY ReplAssumption DEF ReplAssumption
<1>2. <<>> \in Seq(Nat) /\ Len(<<>>) = 0
  OBVIOUS
<1>3. \A a \in All : a \in Seq(Nat)
  BY <1>1, <1>2 DEF All
<1>4. \A a \in Seq(Nat) : Len(a) \in Nat /\ (Len(a) = 0 => a = <<>>)
  OBVIOUS
<1> QED
  BY <1>1, <1>3, <1>4 DEF All

LEMMA FrontFacts ==
    ASSUME NEW p \in Paths
    PROVE  /\ Front(p) \in All
           /\ Len(Front(p)) = Len(p) - 1
           /\ \A i \in 1..(Len(p) - 1) : Front(p)[i] = p[i]
           /\ Front(p) # p
<1>1. p \in Seq(Nat) /\ Len(p) \in Nat \ {0}
  BY AllAreSeqs
<1>2. Len(Front(p)) = Len(p) - 1 /\ \A i \in 1..(Len(p) - 1) : Front(p)[i] = p[i]
  <2>1. Len(p) - 1 \in Nat /\ Len(p) - 1 <= Len(p)
    BY <1>1
  <2>2. Front(p) = [i \in 1..(Len(p) - 1) |-> p[i]]
    BY <1>1, <2>1 DEF Front
  <2>3. Len([i \in 1..(Len(p) - 1) |-> p[i]]) = Len(p) - 1
    BY <2>1
  <2> QED
    BY <2>2, <2>3
<1>3. ASSUME Len(p) > 1 PROVE Front(p) \in All
  BY <1>3, ReplAssumption DEF ReplAssumption, All
<1>4. ASSUME Len(p) = 1 PROVE Front(p) \in All
  <2>1. Front(p) \in Seq(Nat)
    BY <1>1 DEF Front
  <2>2. Front(p) = <<>>
    BY <1>2, <1>4, <2>1
  <2> QED
    BY <1>1, <1>2, <2>2 DEF All
<1>5. Len(Front(p)) # Len(p)
  BY <1>1, <1>2
<1>6. Len(p) > 1 \/ Len(p) = 1
  <2> DEFINE n == Len(p)
  <2>1. n \in Nat /\ n # 0
    BY <1>1
  <2> HIDE DEF n
  <2>2. n > 1 \/ n = 1
    BY <2>1
  <2> QED
    BY <2>2 DEF n
<1>7. Front(p) \in All
  BY <1>3, <1>4, <1>6
<1> QED
  BY <1>2, <1>5, <1>7

LEMMA PrefixElems ==
    ASSUME NEW a \in Seq(Nat), NEW b \in Seq(Nat)
    PROVE  IsPrefix(a, b) <=> Len(a) <= Len(b) /\ \A i \in 1..Len(a) : a[i] = b[i]
<1>1. CASE ~(Len(a) <= Len(b))
  BY <1>1 DEF IsPrefix
<1>2. CASE Len(a) <= Len(b)
  <2>1. Len(a) \in Nat /\ Len(b) \in Nat
    OBVIOUS
  <2>2. SubSeq(a, 1, Len(a)) = [i \in 1..Len(a) |-> a[i]]
    BY <2>1
  <2>3. SubSeq(b, 1, Len(a)) = [i \in 1..Len(a) |-> b[i]]
    BY <2>1, <1>2
  <2> QED
    BY <1>2, <2>2, <2>3 DEF IsPrefix
<1> QED
  BY <1>1, <1>2

LEMMA PrefixFacts ==
    /\ \A a \in All : IsPrefix(a, a) /\ IsPrefix(<<>>, a) /\ (IsPrefix(a, <<>>) => a = <<>>)
    /\ \A a, b, c \in All : IsPrefix(a, b) /\ IsPrefix(b, c) => IsPrefix(a, c)
    /\ \A a, b \in All : IsStrictPrefix(a, b) => Len(a) < Len(b)
    /\ \A a \in All, p \in Paths : IsPrefix(a, p) <=> a = p \/ IsPrefix(a, Front(p))
    /\ \A p \in Paths : ~IsPrefix(p, Front(p))
<1>1. \A a \in All : IsPrefix(a, a) /\ IsPrefix(<<>>, a) /\ (IsPrefix(a, <<>>) => a = <<>>)
  BY AllAreSeqs, PrefixElems
<1>2. \A a, b, c \in All : IsPrefix(a, b) /\ IsPrefix(b, c) => IsPrefix(a, c)
  BY AllAreSeqs, PrefixElems
<1>3. ASSUME NEW a \in All, NEW b \in All, IsPrefix(a, b), a # b
      PROVE  Len(a) < Len(b)
  <2>1. Len(a) <= Len(b) /\ \A i \in 1..Len(a) : a[i] = b[i]
    BY <1>3, AllAreSeqs, PrefixElems
  <2>2. a \in Seq(Nat) /\ b \in Seq(Nat) /\ Len(a) \in Nat /\ Len(b) \in Nat
    BY AllAreSeqs
  <2>3. ASSUME Len(a) = Len(b) PROVE a = b
    <3>1. DOMAIN a = 1..Len(a) /\ DOMAIN b = 1..Len(b)
      BY <2>2
    <3> QED
      BY <2>1, <2>2, <2>3, <3>1, SeqEqual
  <2> QED
    BY <1>3, <2>1, <2>2, <2>3
<1>4. ASSUME NEW p \in Paths
      PROVE  /\ ~IsPrefix(p, Front(p))
             /\ \A a \in All : IsPrefix(a, p) <=> a = p \/ IsPrefix(a, Front(p))
  <2>1. /\ p \in All /\ p \in Seq(Nat) /\ Len(p) \in Nat \ {0}
        /\ Front(p) \in All /\ Front(p) \in Seq(Nat)
        /\ Len(Front(p)) = Len(p) - 1
        /\ \A i \in 1..(Len(p) - 1) : Front(p)[i] = p[i]
    BY AllAreSeqs, FrontFacts
  <2>2. ~IsPrefix(p, Front(p))
    BY <2>1, PrefixElems
  <2>3. ASSUME NEW a \in All, IsPrefix(a, p), a # p PROVE IsPrefix(a, Front(p))
    <3>1. a \in Seq(Nat) /\ Len(a) \in Nat
      BY AllAreSeqs
    <3>2. \A i \in 1..Len(a) : a[i] = p[i]
      BY <2>1, <2>3, <3>1, PrefixElems
    <3>3. Len(a) < Len(p)
      BY <1>3, <2>1, <2>3
    <3>4. Len(a) <= Len(Front(p)) /\ \A i \in 1..Len(a) : a[i] = Front(p)[i]
      BY <2>1, <3>1, <3>2, <3>3
    <3> QED
      BY <2>1, <3>1, <3>4, PrefixElems
  <2>4. IsPrefix(Front(p), p)
    BY <2>1, PrefixElems
  <2>5. \A a \in All : IsPrefix(a, Front(p)) => IsPrefix(a, p)
    BY <1>2, <2>1, <2>4
  <2> QED
    BY <1>1, <2>1, <2>2, <2>3, <2>5
<1> QED
  BY <1>1, <1>2, <1>3, <1>4 DEF IsStrictPrefix

-----------------------------------------------------------------------------
(* Trees of files.                                                         *)

GoodTree(t) ==
    /\ t \in [All -> File \cup {None}]
    /\ IsDir(t, <<>>)
    /\ \A p \in Paths : t[p] # None => IsDir(t, Front(p))
    /\ \A p \in All : IsDir(t, p) => t[p].v = 0

Timed(t, m) == \A p \in All : t[p] # None => t[p].mt <= m

LEMMA FileFacts ==
    ASSUME NEW t \in [All -> File \cup {None}], NEW p \in All
    PROVE  /\ t[p] # None => t[p] \in File /\ TypeAt(t, p) = t[p].type
           /\ TypeAt(t, p) = "none" <=> t[p] = None
           /\ IsDir(t, p) <=> t[p] # None /\ t[p].type = "d"
           /\ TypeAt(t, p) \in {"none", "-", "d"}
BY DEF TypeAt, IsDir, File

\* Changing the attributes of a file.
LEMMA MetaGood ==
    ASSUME NEW t, GoodTree(t), NEW q \in All, NEW f \in File,
           t[q] # None, f.type = t[q].type, f.v = t[q].v,
           NEW n, n = [t EXCEPT ![q] = f]
    PROVE  GoodTree(n)
<1>1. t \in [All -> File \cup {None}] /\ n \in [All -> File \cup {None}]
  BY DEF GoodTree
<1>2. n[q] = f /\ f # None /\ \A p \in All : p # q => n[p] = t[p]
  BY <1>1, NoneAssumption
<1>3. \A p \in All : TypeAt(n, p) = TypeAt(t, p) /\ (n[p] = None <=> t[p] = None)
  BY <1>2 DEF TypeAt
<1>4. \A p \in All : IsDir(n, p) => n[p].v = 0
  <2> SUFFICES ASSUME NEW p \in All, IsDir(n, p) PROVE n[p].v = 0
    OBVIOUS
  <2>1. IsDir(t, p)
    BY <1>3 DEF IsDir
  <2>2. t[p].v = 0
    BY <2>1 DEF GoodTree
  <2> QED
    BY <1>2, <2>2
<1>5. IsDir(n, <<>>) /\ \A p \in Paths : n[p] # None => IsDir(n, Front(p))
  <2>1. IsDir(t, <<>>) /\ \A p \in Paths : t[p] # None => IsDir(t, Front(p))
    BY DEF GoodTree
  <2> QED
    BY <1>3, <2>1, AllAreSeqs, FrontFacts DEF IsDir
<1> QED
  BY <1>1, <1>4, <1>5 DEF GoodTree

LEMMA TouchGood ==
    ASSUME NEW t, GoodTree(t), NEW p \in Paths, IsDir(t, Front(p)), NEW time \in Nat
    PROVE  /\ GoodTree(Touch(t, p, time))
           /\ \A q \in All : TypeAt(Touch(t, p, time), q) = TypeAt(t, q)
           /\ \A q \in All : q # Front(p) => Touch(t, p, time)[q] = t[q]
           /\ Touch(t, p, time)[Front(p)].mt = time
<1> DEFINE d == Front(p)
           f == [t[d] EXCEPT !.mt = time]
<1>1. d \in All /\ t \in [All -> File \cup {None}]
  BY FrontFacts DEF GoodTree
<1>2. t[d] # None /\ t[d] \in File
  BY <1>1, FileFacts
<1>3. f \in File /\ f.type = t[d].type /\ f.v = t[d].v
  BY <1>2 DEF File
<1>4. Touch(t, p, time) = [t EXCEPT ![d] = f]
  BY DEF Touch
<1>5. GoodTree(Touch(t, p, time))
  BY <1>1, <1>2, <1>3, <1>4, MetaGood
<1>6. f # None /\ f.mt = time
  BY <1>2, <1>3, NoneAssumption DEF File
<1> QED
  BY <1>1, <1>2, <1>3, <1>4, <1>5, <1>6 DEF TypeAt

\* Putting a file.
LEMMA SetGood ==
    ASSUME NEW t, GoodTree(t), NEW p \in Paths, NEW f \in File,
           IsDir(t, Front(p)), TypeAt(t, p) \in {"none", f.type},
           f.type = "d" => f.v = 0, NEW n, n = [t EXCEPT ![p] = f]
    PROVE  GoodTree(n)
<1>1. t \in [All -> File \cup {None}] /\ n \in [All -> File \cup {None}] /\ p \in All
  BY AllAreSeqs DEF GoodTree
<1>2. n[p] = f /\ f # None /\ \A q \in All : q # p => n[q] = t[q]
  BY <1>1, NoneAssumption
<1>3. \A q \in All : IsDir(t, q) => IsDir(n, q)
  <2> SUFFICES ASSUME NEW q \in All, IsDir(t, q) PROVE IsDir(n, q)
    OBVIOUS
  <2>1. CASE q = p
    BY <1>2, <2>1 DEF IsDir, TypeAt
  <2>2. CASE q # p
    BY <1>2, <2>2 DEF IsDir, TypeAt
  <2> QED
    BY <2>1, <2>2
<1>4. ASSUME NEW q \in Paths, n[q] # None PROVE IsDir(n, Front(q))
  <2>1. IsDir(t, Front(q))
    BY <1>1, <1>2, <1>4, AllAreSeqs DEF GoodTree
  <2> QED
    BY <1>3, <2>1, FrontFacts
<1>5. ASSUME NEW q \in All, IsDir(n, q) PROVE n[q].v = 0
  <2>1. CASE q = p
    BY <1>2, <1>5, <2>1 DEF IsDir, TypeAt
  <2>2. CASE q # p
    <3>1. IsDir(t, q)
      BY <1>2, <1>5, <2>2 DEF IsDir, TypeAt
    <3> QED
      BY <1>2, <2>2, <3>1 DEF GoodTree
  <2> QED
    BY <2>1, <2>2
<1>6. IsDir(n, <<>>)
  BY <1>3, AllAreSeqs DEF GoodTree
<1> QED
  BY <1>1, <1>4, <1>5, <1>6 DEF GoodTree

LEMMA PutFileGood ==
    ASSUME NEW t, GoodTree(t), NEW p \in Paths, NEW f \in File, NEW time \in Nat,
           IsDir(t, Front(p)), TypeAt(t, p) \in {"none", f.type},
           f.type = "d" => f.v = 0
    PROVE  /\ GoodTree(PutFile(t, p, f, time))
           /\ PutFile(t, p, f, time)[p] = f
           /\ \A q \in All \ {p} : \/ PutFile(t, p, f, time)[q] = t[q]
                                   \/ /\ q = Front(p) /\ IsDir(PutFile(t, p, f, time), q)
                                      /\ PutFile(t, p, f, time)[q].mt = time
<1> DEFINE u == IF t[p] = None THEN Touch(t, p, time) ELSE t
           n == PutFile(t, p, f, time)
<1>1. p \in All /\ Front(p) \in All /\ Front(p) # p /\ t \in [All -> File \cup {None}]
  BY AllAreSeqs, FrontFacts DEF GoodTree
<1>2. GoodTree(u) /\ (\A q \in All : TypeAt(u, q) = TypeAt(t, q))
  <2>1. CASE t[p] = None
    <3>1. u = Touch(t, p, time)
      BY <2>1
    <3> HIDE DEF u
    <3> QED
      BY <3>1, TouchGood
  <2>2. CASE t[p] # None
    BY <2>2
  <2> QED
    BY <2>1, <2>2
<1>3. IsDir(u, Front(p)) /\ TypeAt(u, p) \in {"none", f.type}
  BY <1>1, <1>2 DEF IsDir
<1>4. n = [u EXCEPT ![p] = f]
  BY DEF PutFile
<1>5. u \in [All -> File \cup {None}]
  BY <1>2 DEF GoodTree
<1>6. GoodTree(n)
  <2> HIDE DEF u
  <2> QED
    BY <1>2, <1>3, <1>4, SetGood
<1>7. n[p] = f /\ \A q \in All : q # p => n[q] = u[q]
  <2> HIDE DEF u
  <2> QED
    BY <1>1, <1>4, <1>5
<1>8. ASSUME NEW q \in All \ {p}, n[q] # t[q]
      PROVE  q = Front(p) /\ IsDir(n, q) /\ n[q].mt = time
  <2>1. u[q] # t[q] /\ n[q] = u[q]
    BY <1>7, <1>8
  <2>2. t[p] = None /\ u = Touch(t, p, time)
    BY <2>1
  <2>3. q = Front(p)
    BY <2>1, <2>2, TouchGood
  <2>5. u[q].mt = time
    BY <2>2, <2>3, TouchGood
  <2>6. TypeAt(n, q) = TypeAt(u, q)
    BY <2>1 DEF TypeAt
  <2> QED
    BY <1>3, <2>1, <2>3, <2>5, <2>6 DEF IsDir
<1> HIDE DEF n
<1> QED
  BY <1>6, <1>7, <1>8 DEF n

\* Removing a file, and all there is in it.
LEMMA RemoveAllGood ==
    ASSUME NEW t, GoodTree(t), NEW p \in Paths, NEW time \in Nat
    PROVE  /\ GoodTree(RemoveAll(t, p, time))
           /\ \A q \in All : LET n == RemoveAll(t, p, time)[q] IN
                \/ n \in {t[q], None}
                \/ IsDir(RemoveAll(t, p, time), q) /\ n.mt = time
<1> DEFINE left == [q \in All |-> IF IsPrefix(p, q) THEN None ELSE t[q]]
           n == RemoveAll(t, p, time)
<1>1. p \in All /\ Front(p) \in All /\ t \in [All -> File \cup {None}]
      /\ left \in [All -> File \cup {None}]
  BY AllAreSeqs, FrontFacts DEF GoodTree
<1>2. CASE t[p] = None
  BY <1>2 DEF RemoveAll
<1>3. CASE t[p] # None
  <2>1. n = Touch(left, p, time)
    BY <1>3 DEF RemoveAll
  <2>2. \A q \in All : ~IsPrefix(p, q) => left[q] = t[q] /\ (IsDir(t, q) <=> IsDir(left, q))
    BY <1>1 DEF IsDir, TypeAt
  <2>3. \A q \in All : left[q] # None => ~IsPrefix(p, q) /\ left[q] = t[q]
    BY <1>1
  <2>4. IsDir(left, <<>>)
    <3>1. IsDir(t, <<>>) /\ <<>> \in All /\ ~IsPrefix(p, <<>>)
      BY AllAreSeqs, PrefixFacts DEF GoodTree
    <3> QED
      BY <2>2, <3>1
  <2>5. ASSUME NEW q \in Paths, left[q] # None PROVE IsDir(left, Front(q))
    <3>1. q \in All /\ Front(q) \in All /\ ~IsPrefix(p, q) /\ t[q] # None
      BY <2>3, <2>5, AllAreSeqs, FrontFacts
    <3>2. ~IsPrefix(p, Front(q)) /\ IsDir(t, Front(q))
      BY <1>1, <3>1, PrefixFacts DEF GoodTree
    <3> QED
      BY <2>2, <3>1, <3>2
  <2>6. ASSUME NEW q \in All, IsDir(left, q) PROVE left[q].v = 0
    <3>1. left[q] # None
      BY <1>1, <2>6, FileFacts
    <3>2. IsDir(t, q) /\ left[q] = t[q]
      BY <2>2, <2>3, <2>6, <3>1
    <3> QED
      BY <3>2 DEF GoodTree
  <2>7. GoodTree(left)
    BY <1>1, <2>4, <2>5, <2>6 DEF GoodTree
  <2>8. IsDir(left, Front(p))
    <3>1. ~IsPrefix(p, Front(p)) /\ IsDir(t, Front(p))
      BY <1>1, <1>3, PrefixFacts DEF GoodTree
    <3> QED
      BY <1>1, <2>2, <3>1
  <2> HIDE DEF left
  <2>9. GoodTree(n) /\ \A q \in All : q # Front(p) => n[q] = left[q]
    BY <2>1, <2>7, <2>8, TouchGood
  <2>10. IsDir(n, Front(p)) /\ n[Front(p)].mt = time
    <3>2. n[Front(p)].mt = time
      BY <2>1, <2>7, <2>8, TouchGood
    <3>3. TypeAt(n, Front(p)) = TypeAt(left, Front(p))
      BY <1>1, <2>1, <2>7, <2>8, TouchGood
    <3> QED
      BY <2>8, <3>2, <3>3 DEF IsDir
  <2> HIDE DEF n
  <2>11. \A q \in All : n[q] \in {t[q], None} \/ (IsDir(n, q) /\ n[q].mt = time)
    BY <2>3, <2>9, <2>10
  <2> QED
    BY <2>9, <2>11 DEF n
<1> QED
  BY <1>2, <1>3

\* What users make of a tree: what they did not leave alone is of that time.
Edited(t, n, time) == \A q \in All : n[q] # None =>
    \/ n[q].mt = time
    \/ t[q] # None /\ n[q].type = t[q].type /\ n[q].v = t[q].v /\ n[q].mt = t[q].mt

LEMMA EditGood ==
    ASSUME NEW s \in Sides, GoodTree(fs[s]), NEW p \in Paths, NEW kind \in Edits,
           NEW time \in Nat, CanEdit(s, p, kind)
    PROVE  GoodTree(Edit(s, p, kind, time)) /\ Edited(fs[s], Edit(s, p, kind, time), time)
<1> DEFINE t == fs[s]
           n == Edit(s, p, kind, time)
           w == [type |-> "-", v |-> time, mt |-> time, mode |-> IF t[p] = None THEN 0 ELSE t[p].mode]
           d == [type |-> "d", v |-> 0, mt |-> time, mode |-> 0]
           m == [t[p] EXCEPT !.mode = 1 - @]
<1>1. kind \in {"write", "mkdir", "rm", "chmod"}
  BY ReplAssumption DEF ReplAssumption
<1>2. p \in All /\ Front(p) \in All /\ t \in [All -> File \cup {None}] /\ GoodTree(t)
  BY AllAreSeqs, FrontFacts DEF GoodTree
<1>3. w \in File /\ w.type = "-" /\ w.mt = time
  <2>1. t[p] = None \/ t[p] \in File
    BY <1>2
  <2> QED
    BY <2>1 DEF File
<1>4. d \in File /\ d.type = "d" /\ d.v = 0 /\ d.mt = time
  BY DEF File
<1>5. ASSUME NEW f \in File, f.mt = time, n = PutFile(t, p, f, time),
             IsDir(t, Front(p)), TypeAt(t, p) \in {"none", f.type}, f.type = "d" => f.v = 0
      PROVE  GoodTree(n) /\ Edited(t, n, time)
  <2> HIDE DEF n, t
  <2>1. /\ GoodTree(n) /\ n[p] = f
        /\ \A q \in All \ {p} : n[q] = t[q] \/ n[q].mt = time
    BY <1>2, <1>5, PutFileGood
  <2> QED
    BY <1>5, <2>1 DEF Edited
<1>6. CASE kind = "write"
  <2>1. n = PutFile(t, p, w, time)
    BY <1>6 DEF Edit
  <2>2. IsDir(t, Front(p)) /\ TypeAt(t, p) \in {"none", "-"}
    BY <1>6 DEF CanEdit, CanPut
  <2> HIDE DEF w, t, n
  <2>3. GoodTree(n) /\ Edited(t, n, time)
    BY <1>3, <1>5, <2>1, <2>2
  <2> QED
    BY <2>3 DEF n, t
<1>7. CASE kind = "mkdir"
  <2>1. n = PutFile(t, p, d, time)
    BY <1>7 DEF Edit
  <2>2. IsDir(t, Front(p)) /\ TypeAt(t, p) \in {"none", "d"}
    BY <1>7 DEF CanEdit, TypeAt
  <2> HIDE DEF d, t, n
  <2>3. GoodTree(n) /\ Edited(t, n, time)
    BY <1>4, <1>5, <2>1, <2>2
  <2> QED
    BY <2>3 DEF n, t
<1>8. CASE kind = "rm"
  <2>1. n = RemoveAll(t, p, time)
    BY <1>8 DEF Edit
  <2> HIDE DEF t, n
  <2>2. GoodTree(n) /\ \A q \in All : n[q] \in {t[q], None} \/ n[q].mt = time
    BY <1>2, <2>1, RemoveAllGood
  <2>3. Edited(t, n, time)
    BY <2>2 DEF Edited
  <2> QED
    BY <2>2, <2>3 DEF n, t
<1>9. CASE kind = "chmod"
  <2>1. t[p] \in File
    BY <1>2, <1>9 DEF CanEdit
  <2>2. n = [t EXCEPT ![p] = m]
    BY <1>2, <1>9 DEF Edit
  <2>3. m \in File /\ m.type = t[p].type /\ m.v = t[p].v /\ m.mt = t[p].mt
    BY <2>1 DEF File
  <2> HIDE DEF m, t, n
  <2>4. GoodTree(n)
    BY <1>2, <2>1, <2>2, <2>3, MetaGood, NoneAssumption
  <2>5. \A q \in All : n[q] = IF q = p THEN m ELSE t[q]
    BY <1>2, <2>2
  <2>6. Edited(t, n, time)
    BY <2>1, <2>3, <2>5, NoneAssumption DEF Edited
  <2> QED
    BY <2>4, <2>6 DEF n, t
<1> QED
  BY <1>1, <1>6, <1>7, <1>8, <1>9

-----------------------------------------------------------------------------
(* Databases.                                                              *)

GoodDB(t) ==
    /\ t \in [All -> Entry \cup {None}]
    /\ Tree(t)
    /\ t[<<>>] # None /\ t[<<>>].type = "d" /\ ~t[<<>>].rm /\ ~t[<<>>].err

LEMMA AddGood ==
    ASSUME NEW t, GoodDB(t), NEW p \in Paths, NEW e \in Entry
    PROVE  GoodDB(Add(t, p, e))
<1> DEFINE n == Add(t, p, e)
           cut == e.type # "d" \/ e.rm \/ e.err
<1>1. t \in [All -> Entry \cup {None}] /\ Tree(t) /\ p \in All /\ <<>> \in All /\ e # None
  BY AllAreSeqs, NoneAssumption DEF GoodDB
<1>2. CASE t[Front(p)] = None
  BY <1>2 DEF Add
<1>3. CASE t[Front(p)] # None
  <2>1. n = [q \in All |-> IF q = p THEN e ELSE IF cut /\ q \in Below(p) THEN None ELSE t[q]]
    BY <1>3 DEF Add
  <2>2. n \in [All -> Entry \cup {None}]
    BY <1>1, <2>1
  <2>3. <<>> # p /\ <<>> \notin Below(p)
    BY <1>1, AllAreSeqs, PrefixFacts DEF Below, IsStrictPrefix
  <2>4. n[<<>>] = t[<<>>]
    BY <1>1, <2>1, <2>3
  <2>5. ASSUME NEW q \in Paths, n[q] # None PROVE n[Front(q)] # None
    <3>1. q \in All /\ Front(q) \in All
      BY AllAreSeqs, FrontFacts
    <3>2. CASE Front(q) = p
      BY <1>1, <2>1, <3>1, <3>2
    <3>3. CASE Front(q) # p
      <4>1. q = p \/ t[q] # None
        BY <2>1, <2>5, <3>1
      <4>2. t[Front(q)] # None
        BY <1>1, <1>3, <4>1 DEF Tree
      <4>3. ~(cut /\ Front(q) \in Below(p))
        <5>1. SUFFICES ASSUME cut, Front(q) \in Below(p) PROVE FALSE
          OBVIOUS
        <5>2. IsPrefix(p, Front(q))
          BY <5>1 DEF Below, IsStrictPrefix
        <5>3. IsPrefix(p, q) /\ q # p
          BY <1>1, <3>1, <5>2, PrefixFacts
        <5>4. q \in Below(p)
          BY <3>1, <5>3 DEF Below, IsStrictPrefix
        <5> QED
          BY <2>1, <2>5, <3>1, <5>1, <5>3, <5>4
      <4> HIDE DEF cut
      <4> QED
        BY <2>1, <3>1, <3>3, <4>2, <4>3
    <3> QED
      BY <3>2, <3>3
  <2> QED
    BY <2>2, <2>4, <2>5 DEF GoodDB, Tree
<1> QED
  BY <1>2, <1>3

-----------------------------------------------------------------------------
(* Changes made.                                                           *)

\* Each file of a tree that was changed has the data of the source.
Copied(t, n, src) == \A q \in All : n[q] # None =>
    n[q] = t[q] \/ n[q].type = "d" \/ n[q].v = DataOf(src, q)

\* The outcome of a change, good if what it was made to was.
GoodResult(r) ==
    /\ r = Result(r.fs, r.ldb, r.rdb)
    /\ GoodTree(r.fs) /\ GoodDB(r.ldb) /\ GoodDB(r.rdb)

LEMMA ResultFields ==
    ASSUME NEW t, NEW l, NEW m
    PROVE  /\ Result(t, l, m).fs = t /\ Result(t, l, m).ldb = l /\ Result(t, l, m).rdb = m
           /\ \A u : [Result(t, l, m) EXCEPT !.fs = u] = Result(u, l, m)
           /\ GoodTree(t) /\ GoodDB(l) /\ GoodDB(m) => GoodResult(Result(t, l, m))
<1>1. /\ Result(t, l, m).fs = t /\ Result(t, l, m).ldb = l /\ Result(t, l, m).rdb = m
      /\ \A u : [Result(t, l, m) EXCEPT !.fs = u] = Result(u, l, m)
  BY DEF Result
<1> HIDE DEF Result
<1> QED
  BY <1>1 DEF GoodResult

LEMMA AddBothGood ==
    ASSUME NEW r, GoodResult(r), NEW p \in Paths, NEW e \in Entry
    PROVE  /\ GoodResult(AddBoth(r, p, e))
           /\ AddBoth(r, p, e).fs = r.fs
           /\ r.ldb = r.rdb => AddBoth(r, p, e).ldb = AddBoth(r, p, e).rdb
<1> DEFINE l == Add(r.ldb, p, e)
           m == IF r.ldb[Front(p)] = None THEN r.rdb ELSE Add(r.rdb, p, e)
<1>1. AddBoth(r, p, e) = Result(r.fs, l, m)
  <2>1. r = Result(r.fs, r.ldb, r.rdb)
    BY DEF GoodResult
  <2>2. ASSUME NEW x, NEW y, NEW z, NEW u, NEW v
        PROVE  [[fs |-> x, ldb |-> y, rdb |-> z] EXCEPT !.ldb = u, !.rdb = v]
               = [fs |-> x, ldb |-> u, rdb |-> v]
    <3>1. [[fs |-> x, ldb |-> y, rdb |-> z] EXCEPT !.ldb = u] = [fs |-> x, ldb |-> u, rdb |-> z]
      OBVIOUS
    <3>2. [[fs |-> x, ldb |-> u, rdb |-> z] EXCEPT !.rdb = v] = [fs |-> x, ldb |-> u, rdb |-> v]
      OBVIOUS
    <3>3. [[fs |-> x, ldb |-> y, rdb |-> z] EXCEPT !.ldb = u, !.rdb = v]
          = [[[fs |-> x, ldb |-> y, rdb |-> z] EXCEPT !.ldb = u] EXCEPT !.rdb = v]
      OBVIOUS
    <3> QED
      BY <3>1, <3>2, <3>3, Zenon
  <2>3. AddBoth(r, p, e) = [r EXCEPT !.ldb = l, !.rdb = m]
    <3> HIDE DEF Add
    <3>1. r = [fs |-> r.fs, ldb |-> r.ldb, rdb |-> r.rdb]
      BY <2>1 DEF Result
    <3> QED
      BY <3>1 DEF AddBoth
  <2> HIDE DEF l, m
  <2>4. r = [fs |-> r.fs, ldb |-> r.ldb, rdb |-> r.rdb]
    BY <2>1 DEF Result
  <2> QED
    BY <2>2, <2>3, <2>4 DEF Result
<1>2. GoodTree(r.fs) /\ GoodDB(r.ldb) /\ GoodDB(r.rdb)
  BY DEF GoodResult
<1>3. GoodDB(l) /\ GoodDB(m)
  BY <1>2, AddGood
<1>4. r.ldb = r.rdb => l = m
  BY DEF Add
<1> HIDE DEF l, m
<1> QED
  BY <1>1, <1>2, <1>3, <1>4, ResultFields

LEMMA EntryOfFile ==
    ASSUME NEW f \in File
    PROVE  EntryOf(f) \in Entry /\ EntryOf(f).type = f.type /\ EntryOf(f).mt = f.mt
           /\ EntryOf(f).mode = f.mode /\ ~EntryOf(f).rm /\ ~EntryOf(f).err
BY DEF EntryOf, File, Entry

LEMMA ChgFacts ==
    ASSUME NEW c \in Chg
    PROVE  /\ c.type \in {"Add", "Data", "Meta", "Del", "DirFile"}
           /\ c.path \in Paths /\ c.path \in All /\ Front(c.path) \in All
           /\ c.d \in Entry /\ c.d.mt \in Nat /\ c.d.mode \in {0, 1}
           /\ [c.d EXCEPT !.rm = TRUE] \in Entry
           /\ c.at \in Sides
<1>1. /\ c.type \in {"Add", "Data", "Meta", "Del", "DirFile"}
      /\ c.path \in Paths /\ c.d \in Entry /\ c.at \in Sides
  BY DEF Chg
<1>2. c.d.mt \in Nat /\ c.d.mode \in {0, 1} /\ [c.d EXCEPT !.rm = TRUE] \in Entry
  BY <1>1 DEF Entry
<1> QED
  BY <1>1, <1>2, AllAreSeqs, FrontFacts

\* What a change makes of a good tree with good databases that are the same.
Fine(r, n, m) ==
    /\ GoodResult(n)
    /\ r.ldb = r.rdb => n.ldb = n.rdb
    /\ Timed(r.fs, m) => Timed(n.fs, m)

LEMMA MetaFine ==
    ASSUME NEW c \in Chg, NEW r, GoodResult(r), NEW m \in Nat, c.d.mt <= m
    PROVE  Fine(r, applyMeta(c, r), m)
<1> DEFINE p == c.path
           f == [[r.fs[p] EXCEPT !.mode = c.d.mode] EXCEPT !.mt = c.d.mt]
           t == [r.fs EXCEPT ![p] = f]
<1>0. p \in Paths /\ p \in All /\ c.d.mt \in Nat /\ c.d.mode \in {0, 1}
  BY ChgFacts
<1>1. CASE r.fs[p] = None
  BY <1>1 DEF applyMeta, Fine
<1>2. CASE r.fs[p] # None
  <2>1. GoodTree(r.fs) /\ r.fs \in [All -> File \cup {None}] /\ r.fs[p] \in File
    BY <1>0, <1>2 DEF GoodResult, GoodTree
  <2>2. f \in File /\ f.type = r.fs[p].type /\ f.v = r.fs[p].v /\ f.mt = c.d.mt
    BY <1>0, <2>1 DEF File
  <2>3. [r.fs EXCEPT ![p].mode = c.d.mode, ![p].mt = c.d.mt] = t
    BY <1>0, <2>1
  <2> DEFINE x == Result(t, r.ldb, r.rdb)
  <2>4. applyMeta(c, r) = AddBoth(x, p, EntryOf(t[p]))
    <3>1. [r EXCEPT !.fs = t] = x
      <4> HIDE DEF t
      <4>1. r = Result(r.fs, r.ldb, r.rdb)
        BY DEF GoodResult
      <4> QED
        BY <4>1, ResultFields
    <3> HIDE DEF t, x
    <3> QED
      BY <1>2, <2>3, <3>1 DEF applyMeta
  <2>5. t[p] = f /\ \A q \in All : q # p => t[q] = r.fs[q]
    BY <1>0, <2>1
  <2> HIDE DEF f
  <2>6. GoodTree(t)
    <3> HIDE DEF t
    <3> QED
      BY <1>0, <1>2, <2>1, <2>2, MetaGood DEF t
  <2>7. Timed(r.fs, m) => Timed(t, m)
    BY <2>2, <2>5 DEF Timed
  <2> HIDE DEF t
  <2>8. GoodResult(x) /\ x.fs = t /\ x.ldb = r.ldb /\ x.rdb = r.rdb
    <3>1. GoodDB(r.ldb) /\ GoodDB(r.rdb)
      BY DEF GoodResult
    <3> QED
      BY <2>6, <3>1, ResultFields
  <2> HIDE DEF x
  <2>9. EntryOf(t[p]) \in Entry
    BY <2>2, <2>5, EntryOfFile
  <2> QED
    BY <1>0, <2>4, <2>7, <2>8, <2>9, AddBothGood DEF Fine
<1> QED
  BY <1>1, <1>2

LEMMA DelFine ==
    ASSUME NEW c \in Chg, NEW r, GoodResult(r), NEW m \in Nat, clock \in Nat, now <= m
    PROVE  Fine(r, applyDel(c, r), m) /\ \A src : Copied(r.fs, applyDel(c, r).fs, src)
<1> DEFINE p == c.path
           e == [c.d EXCEPT !.rm = TRUE]
           t == RemoveAll(r.fs, p, now)
           n == applyDel(c, r)
<1>1. p \in Paths /\ e \in Entry /\ now \in Nat
  BY ChgFacts DEF now
<1>2. GoodTree(r.fs) /\ GoodDB(r.ldb) /\ GoodDB(r.rdb)
  BY DEF GoodResult
<1>3. n = Result(t, Add(r.ldb, p, e), Add(r.rdb, p, e))
  BY DEF applyDel
<1> HIDE DEF p, e, n
<1>4. /\ GoodTree(t)
      /\ \A q \in All : t[q] \in {r.fs[q], None} \/ (IsDir(t, q) /\ t[q].mt = now)
  BY <1>1, <1>2, RemoveAllGood
<1>5. GoodDB(Add(r.ldb, p, e)) /\ GoodDB(Add(r.rdb, p, e))
  BY <1>1, <1>2, AddGood
<1> HIDE DEF t
<1>6. GoodResult(n) /\ n.fs = t /\ n.ldb = Add(r.ldb, p, e) /\ n.rdb = Add(r.rdb, p, e)
  BY <1>3, <1>4, <1>5, ResultFields
<1>7. Timed(r.fs, m) => Timed(t, m)
  BY <1>4 DEF Timed
<1>8. ASSUME NEW src PROVE Copied(r.fs, n.fs, src)
  BY <1>4, <1>6 DEF Copied, IsDir, TypeAt
<1> QED
  BY <1>6, <1>7, <1>8 DEF Fine, n

LEMMA PutDataFine ==
    ASSUME NEW c \in Chg, NEW r, GoodResult(r), NEW v \in Nat, NEW m \in Nat,
           clock \in Nat, now <= m, c.d.mt <= m
    PROVE  /\ Fine(r, PutData(c, r, v), m)
           /\ PutData(c, r, v).ldb = r.ldb /\ PutData(c, r, v).rdb = r.rdb
           /\ \A src : v = DataOf(src, c.path) => Copied(r.fs, PutData(c, r, v).fs, src)
<1> DEFINE p == c.path
           f == [type |-> "-", v |-> v, mt |-> c.d.mt, mode |-> c.d.mode]
           t == PutFile(r.fs, p, f, now)
           n == PutData(c, r, v)
<1>0. now \in Nat
  BY DEF now
<1>1. p \in Paths /\ now \in Nat
  BY <1>0, ChgFacts
<1>2. f \in File /\ f.type = "-" /\ f.mt <= m /\ f.v = v
  BY ChgFacts DEF File
<1>3. CASE ~CanPut(r.fs, p, "-")
  BY <1>3 DEF PutData, Fine, Copied
<1>4. CASE CanPut(r.fs, p, "-")
  <2>1. n = Result(t, r.ldb, r.rdb)
    <3>1. n = [r EXCEPT !.fs = t]
      BY <1>4 DEF PutData
    <3>2. r = Result(r.fs, r.ldb, r.rdb)
      BY DEF GoodResult
    <3> HIDE DEF n, t
    <3> QED
      BY <3>1, <3>2, ResultFields
  <2>2. IsDir(r.fs, Front(p)) /\ TypeAt(r.fs, p) \in {"none", "-"}
    BY <1>4 DEF CanPut
  <2>3. GoodTree(r.fs) /\ GoodDB(r.ldb) /\ GoodDB(r.rdb)
    BY DEF GoodResult
  <2> HIDE DEF f, p
  <2>4. /\ GoodTree(t) /\ t[p] = f
        /\ \A q \in All \ {p} : t[q] = r.fs[q] \/ (IsDir(t, q) /\ t[q].mt = now)
    BY <1>1, <1>2, <2>2, <2>3, PutFileGood
  <2> HIDE DEF t, n
  <2>5. GoodResult(n) /\ n.fs = t /\ n.ldb = r.ldb /\ n.rdb = r.rdb
    BY <2>1, <2>3, <2>4, ResultFields
  <2>6. Timed(r.fs, m) => Timed(t, m)
    BY <1>2, <2>4 DEF Timed
  <2>7. ASSUME NEW src, v = DataOf(src, p) PROVE Copied(r.fs, t, src)
    BY <1>2, <2>4, <2>7 DEF Copied, IsDir, TypeAt
  <2> QED
    BY <2>5, <2>6, <2>7 DEF Fine, n, p
<1> QED
  BY <1>3, <1>4

LEMMA DataFine ==
    ASSUME NEW c \in Chg, NEW r, GoodResult(r), NEW src, GoodTree(src), NEW m \in Nat,
           clock \in Nat, now <= m, c.d.mt <= m
    PROVE  Fine(r, applyData(c, r, src), m) /\ Copied(r.fs, applyData(c, r, src).fs, src)
<1> DEFINE n == PutData(c, r, DataOf(src, c.path))
<1>1. DataOf(src, c.path) \in Nat
  <2>1. src \in [All -> File \cup {None}] /\ c.path \in All
    BY ChgFacts DEF GoodTree
  <2> QED
    BY <2>1 DEF DataOf, TypeAt, File
<1>2. Fine(r, n, m) /\ Copied(r.fs, n.fs, src) /\ n.ldb = r.ldb /\ n.rdb = r.rdb
  BY <1>1, PutDataFine
<1>3. applyData(c, r, src) \in {n, AddBoth(n, c.path, c.d)}
  BY DEF applyData
<1> HIDE DEF n
<1>4. GoodResult(n) /\ c.path \in Paths /\ c.d \in Entry
  BY <1>2, ChgFacts DEF Fine
<1>5. /\ GoodResult(AddBoth(n, c.path, c.d)) /\ AddBoth(n, c.path, c.d).fs = n.fs
      /\ n.ldb = n.rdb => AddBoth(n, c.path, c.d).ldb = AddBoth(n, c.path, c.d).rdb
  BY <1>4, AddBothGood
<1> QED
  BY <1>2, <1>3, <1>5 DEF Fine

LEMMA AddFine ==
    ASSUME NEW c \in Chg, NEW r, GoodResult(r), NEW src, GoodTree(src), NEW bad,
           NEW m \in Nat, clock \in Nat, now <= m, Timed(src, m)
    PROVE  LET n == applyAdd(c, r, src, bad)
           IN  Fine(r, n, m) /\ (bad = {} => Copied(r.fs, n.fs, src))
<1> DEFINE p == c.path
           in == Front(p)
           found == {q \in All : IsPrefix(p, q) /\ src[q] # None}
           ok == {q \in found : IsDir(r.fs, in) /\
                   \A a \in found : IsPrefix(a, q) => TypeAt(r.fs, a) \in {"none", src[a].type}}
           new == {q \in ok : r.fs[q] = None}
           touched == {Front(q) : q \in new}
           put == [q \in All |-> IF q \in ok THEN [src[q] EXCEPT !.v = IF q \in bad THEN 0 ELSE @]
                                 ELSE r.fs[q]]
           t == [q \in All |-> IF q \in touched THEN [put[q] EXCEPT !.mt = now] ELSE put[q]]
           replaced(q) == \E a \in found : /\ IsPrefix(a, q)
                                           /\ src[a].type # "d" \/ a \notin ok
           noted(x) ==
               [q \in All |-> IF q \in found THEN [EntryOf(src[q]) EXCEPT !.err = q \notin ok]
                              ELSE IF replaced(q) THEN None ELSE x[q]]
           ldb == IF r.ldb[in] = None THEN r.ldb ELSE noted(r.ldb)
           rdb == IF r.ldb[in] = None \/ r.rdb[in] = None THEN r.rdb ELSE noted(r.rdb)
           n == applyAdd(c, r, src, bad)
<1>1. n = Result(t, ldb, rdb)
  BY DEF applyAdd
<1>0. now \in Nat
  BY DEF now
<1>2. /\ p \in Paths /\ p \in All /\ in \in All /\ now \in Nat /\ <<>> \in All
      /\ GoodTree(r.fs) /\ GoodDB(r.ldb) /\ GoodDB(r.rdb)
      /\ src \in [All -> File \cup {None}] /\ r.fs \in [All -> File \cup {None}]
  BY <1>0, ChgFacts, AllAreSeqs DEF GoodResult, GoodTree
<1> USE DEF p, in
<1> HIDE DEF p, in
<1>3. ~IsPrefix(p, in) /\ ~IsPrefix(p, <<>>) /\ in \notin found /\ <<>> \notin found
  BY <1>2, AllAreSeqs, PrefixFacts DEF p, in
<1>4. found \subseteq All /\ \A q \in found : IsPrefix(p, q) /\ src[q] \in File /\ src[q] # None
  BY <1>2
<1>5. \A q \in All : IsPrefix(p, q) /\ src[q] # None => q \in found
  OBVIOUS
\* What is found in a directory that is found.
<1>6. ASSUME NEW q \in found, q # p
      PROVE  q \in Paths /\ Front(q) \in found /\ IsDir(src, Front(q)) /\ IsPrefix(Front(q), q)
  <2>1. q \in Paths
    BY <1>3, <1>6 DEF All
  <2>2. Front(q) \in All /\ IsPrefix(Front(q), q)
    BY <2>1, FrontFacts, PrefixFacts
  <2>3. IsPrefix(p, Front(q))
    BY <1>2, <1>4, <1>6, <2>1, PrefixFacts
  <2>4. IsDir(src, Front(q))
    BY <1>4, <2>1 DEF GoodTree
  <2> QED
    BY <1>2, <1>5, <2>1, <2>2, <2>3, <2>4, FileFacts
<1>7. ok \subseteq found /\ \A q \in ok : IsDir(r.fs, in)
      /\ \A a \in found : IsPrefix(a, q) => TypeAt(r.fs, a) \in {"none", src[a].type}
  OBVIOUS
<1>8. ASSUME NEW q \in found, IsDir(r.fs, in),
             \A a \in found : IsPrefix(a, q) => TypeAt(r.fs, a) \in {"none", src[a].type}
      PROVE  q \in ok
  BY <1>8
<1>9. ASSUME NEW q \in ok, q # p PROVE Front(q) \in ok
  <2>1. q \in found /\ q \in Paths /\ q \in All /\ Front(q) \in found /\ IsPrefix(Front(q), q)
    BY <1>4, <1>6, <1>7, <1>9
  <2>2. \A a \in found : IsPrefix(a, Front(q)) => IsPrefix(a, q)
    BY <1>4, <2>1, PrefixFacts
  <2> HIDE DEF found, ok
  <2> QED
    BY <1>7, <1>8, <2>1, <2>2
<1>10. /\ put \in [All -> File \cup {None}]
       /\ \A q \in ok : put[q] # None /\ put[q].type = src[q].type /\ put[q].mt = src[q].mt
                        /\ put[q].v \in {0, src[q].v} /\ (q \notin bad => put[q].v = src[q].v)
       /\ \A q \in All \ ok : put[q] = r.fs[q]
  <2> DEFINE f(q) == [src[q] EXCEPT !.v = IF q \in bad THEN 0 ELSE @]
  <2>1. \A q \in ok : f(q) \in File /\ f(q).type = src[q].type /\ f(q).mt = src[q].mt
                      /\ f(q).v \in {0, src[q].v} /\ (q \notin bad => f(q).v = src[q].v)
    <3> SUFFICES ASSUME NEW q \in ok
                 PROVE  f(q) \in File /\ f(q).type = src[q].type /\ f(q).mt = src[q].mt
                        /\ f(q).v \in {0, src[q].v} /\ (q \notin bad => f(q).v = src[q].v)
      OBVIOUS
    <3>1. src[q] \in File
      BY <1>4, <1>7
    <3> QED
      BY <3>1 DEF File
  <2>2. put = [q \in All |-> IF q \in ok THEN f(q) ELSE r.fs[q]]
    OBVIOUS
  <2>3. ok \subseteq All
    BY <1>4, <1>7
  <2> HIDE DEF f, put, ok, found
  <2> QED
    BY <1>2, <2>1, <2>2, <2>3, NoneAssumption
<1> HIDE DEF put
\* A file that is put, and its directory.
<1>11. ASSUME NEW q \in ok
       PROVE  q \in Paths /\ Front(q) \in All /\ IsDir(put, Front(q))
  <2>1. CASE q = p
    <3>1. in \notin ok /\ IsDir(r.fs, in)
      BY <1>3, <1>7, <1>11
    <3>2. put[in] = r.fs[in]
      BY <1>2, <1>10, <3>1
    <3> HIDE DEF ok, found
    <3> QED
      BY <1>2, <2>1, <3>1, <3>2 DEF IsDir, TypeAt, in
  <2>2. CASE q # p
    <3>1. q \in Paths /\ Front(q) \in ok /\ IsDir(src, Front(q)) /\ Front(q) \in All
      BY <1>4, <1>6, <1>7, <1>9, <1>11, <2>2
    <3>2. put[Front(q)] # None /\ put[Front(q)].type = src[Front(q)].type
      BY <1>10, <3>1
    <3>3. src[Front(q)].type = "d"
      BY <1>2, <3>1, FileFacts
    <3> QED
      BY <1>10, <3>1, <3>2, <3>3, FileFacts
  <2> QED
    BY <2>1, <2>2
<1>12. GoodTree(put)
  <2>1. ASSUME NEW q \in All, IsDir(r.fs, q) PROVE IsDir(put, q)
    <3>1. CASE q \notin ok
      BY <1>10, <2>1, <3>1 DEF IsDir, TypeAt
    <3>2. CASE q \in ok
      <4>1. IsPrefix(q, q) /\ q \in found
        BY <1>7, <2>1, <3>2, PrefixFacts
      <4>2. TypeAt(r.fs, q) \in {"none", src[q].type}
        BY <1>7, <3>2, <4>1
      <4>3. src[q].type = "d"
        BY <2>1, <4>2 DEF IsDir
      <4> QED
        BY <1>10, <2>1, <3>2, <4>3, FileFacts
    <3> QED
      BY <3>1, <3>2
  <2>2. IsDir(put, <<>>)
    BY <1>2, <2>1 DEF GoodTree
  <2>3. ASSUME NEW q \in Paths, put[q] # None PROVE IsDir(put, Front(q))
    <3>1. CASE q \in ok
      BY <1>11, <3>1
    <3>2. CASE q \notin ok
      <4>1. r.fs[q] # None /\ Front(q) \in All
        BY <1>10, <2>3, <3>2, AllAreSeqs, FrontFacts
      <4>2. IsDir(r.fs, Front(q))
        BY <1>2, <4>1 DEF GoodTree
      <4> QED
        BY <2>1, <4>1, <4>2
    <3> QED
      BY <3>1, <3>2
  <2>4. ASSUME NEW q \in All, IsDir(put, q) PROVE put[q].v = 0
    <3>1. CASE q \in ok
      <4>1. put[q].type = "d" /\ src[q].type = "d" /\ src[q] # None
        BY <1>4, <1>7, <1>10, <2>4, <3>1, FileFacts
      <4>2. src[q].v = 0
        BY <1>2, <2>4, <4>1, FileFacts DEF GoodTree
      <4> QED
        BY <1>10, <3>1, <4>2
    <3>2. CASE q \notin ok
      <4>1. IsDir(r.fs, q) /\ put[q] = r.fs[q]
        BY <1>10, <2>4, <3>2 DEF IsDir, TypeAt
      <4> QED
        BY <1>2, <4>1 DEF GoodTree
    <3> QED
      BY <3>1, <3>2
  <2> QED
    BY <1>10, <2>2, <2>3, <2>4 DEF GoodTree
<1>13. \A q \in touched : q \in All /\ IsDir(put, q) /\ put[q] \in File
  <2> SUFFICES ASSUME NEW a \in new
               PROVE  Front(a) \in All /\ IsDir(put, Front(a)) /\ put[Front(a)] \in File
    OBVIOUS
  <2>1. a \in ok
    OBVIOUS
  <2> QED
    BY <1>10, <1>11, <2>1, FileFacts
<1> HIDE DEF new, touched, ok, found
<1>14. /\ t \in [All -> File \cup {None}]
       /\ \A q \in All : q \notin touched => t[q] = put[q]
       /\ \A q \in touched : t[q] # None /\ t[q].type = put[q].type /\ t[q].v = put[q].v
                             /\ t[q].mt = now
  <2> DEFINE f(q) == [put[q] EXCEPT !.mt = now]
  <2>1. \A q \in touched : f(q) \in File /\ f(q).type = put[q].type /\ f(q).v = put[q].v
                           /\ f(q).mt = now
    <3> SUFFICES ASSUME NEW q \in touched
                 PROVE  f(q) \in File /\ f(q).type = put[q].type /\ f(q).v = put[q].v
                        /\ f(q).mt = now
      OBVIOUS
    <3>1. put[q] \in File
      BY <1>13
    <3> QED
      BY <1>2, <3>1 DEF File
  <2>2. t = [q \in All |-> IF q \in touched THEN f(q) ELSE put[q]]
    OBVIOUS
  <2> HIDE DEF f, t
  <2> QED
    BY <1>10, <1>13, <2>1, <2>2, NoneAssumption
<1> HIDE DEF t
<1>15. \A q \in All : IsDir(t, q) <=> IsDir(put, q)
  BY <1>13, <1>14 DEF IsDir, TypeAt
<1>16. GoodTree(t)
  <2>1. IsDir(t, <<>>)
    BY <1>2, <1>12, <1>15 DEF GoodTree
  <2>2. ASSUME NEW q \in Paths, t[q] # None PROVE IsDir(t, Front(q))
    <3>1. q \in All /\ Front(q) \in All
      BY AllAreSeqs, FrontFacts
    <3>2. put[q] # None
      BY <1>13, <1>14, <2>2, <3>1 DEF IsDir, TypeAt
    <3> QED
      BY <1>12, <1>15, <3>1, <3>2 DEF GoodTree
  <2>3. ASSUME NEW q \in All, IsDir(t, q) PROVE t[q].v = 0
    BY <1>12, <1>14, <1>15, <2>3 DEF GoodTree
  <2> QED
    BY <1>14, <2>1, <2>2, <2>3 DEF GoodTree
<1>17. ASSUME Timed(r.fs, m) PROVE Timed(t, m)
  <2>1. \A q \in All : put[q] # None => put[q].mt <= m
    BY <1>4, <1>7, <1>10, <1>17 DEF Timed
  <2>2. \A q \in All : t[q] # None => put[q] # None \/ q \in touched
    BY <1>14
  <2> QED
    BY <1>14, <2>1, <2>2 DEF Timed
<1>18. ASSUME bad = {} PROVE Copied(r.fs, t, src)
  <2> SUFFICES ASSUME NEW q \in All, t[q] # None
               PROVE  t[q] = r.fs[q] \/ t[q].type = "d" \/ t[q].v = DataOf(src, q)
    BY DEF Copied
  <2>1. CASE q \in touched
    BY <1>13, <1>14, <2>1 DEF IsDir, TypeAt
  <2>2. CASE q \notin touched /\ q \notin ok
    BY <1>10, <1>14, <2>2
  <2>3. CASE q \notin touched /\ q \in ok
    <3>1. t[q].v = src[q].v /\ t[q].type = src[q].type /\ src[q] \in File /\ src[q] # None
      BY <1>4, <1>7, <1>10, <1>14, <1>18, <2>3
    <3>2. src[q].type \in {"-", "d"} /\ TypeAt(src, q) = src[q].type
      BY <1>2, <3>1, FileFacts DEF File
    <3> QED
      BY <3>1, <3>2 DEF DataOf
  <2> QED
    BY <2>1, <2>2, <2>3
<1>19. ASSUME NEW x, GoodDB(x), x[in] # None PROVE GoodDB(noted(x))
  <2> DEFINE e(q) == [EntryOf(src[q]) EXCEPT !.err = q \notin ok]
             y == noted(x)
  <2>1. \A q \in found : e(q) \in Entry /\ e(q) # None
    <3> SUFFICES ASSUME NEW q \in found PROVE e(q) \in Entry /\ e(q) # None
      OBVIOUS
    <3>1. EntryOf(src[q]) \in Entry
      BY <1>4, EntryOfFile
    <3>2. e(q) \in Entry
      BY <3>1 DEF Entry
    <3> QED
      BY <3>2, NoneAssumption
  <2>2. y = [q \in All |-> IF q \in found THEN e(q) ELSE IF replaced(q) THEN None ELSE x[q]]
    OBVIOUS
  <2>3. x \in [All -> Entry \cup {None}] /\ Tree(x)
    BY <1>19 DEF GoodDB
  <2>4. \A q \in Paths : replaced(Front(q)) => replaced(q)
    <3> SUFFICES ASSUME NEW q \in Paths, NEW a \in found, IsPrefix(a, Front(q))
                 PROVE  IsPrefix(a, q)
      OBVIOUS
    <3> QED
      BY <1>4, AllAreSeqs, PrefixFacts
  <2>5. ~replaced(in) /\ ~replaced(<<>>)
    <3> SUFFICES ASSUME NEW a \in found PROVE ~IsPrefix(a, in) /\ ~IsPrefix(a, <<>>)
      OBVIOUS
    <3>1. IsPrefix(p, a) /\ a \in All
      BY <1>4
    <3> QED
      BY <1>2, <1>3, <3>1, PrefixFacts
  <2> HIDE DEF e, y, noted, replaced
  <2>6. y \in [All -> Entry \cup {None}]
    BY <1>4, <2>1, <2>2, <2>3
  <2>7. y[<<>>] = x[<<>>] /\ y[in] = x[in]
    BY <1>2, <1>3, <2>2, <2>5
  <2>8. ASSUME NEW q \in Paths, y[q] # None PROVE y[Front(q)] # None
    <3>1. q \in All /\ Front(q) \in All
      BY AllAreSeqs, FrontFacts
    <3>2. CASE Front(q) \in found
      BY <2>1, <2>2, <3>1, <3>2
    <3>3. CASE q = p
      BY <1>19, <2>7, <3>3 DEF in
    <3>4. CASE Front(q) \notin found /\ q # p
      <4>1. q \notin found
        BY <1>6, <3>4
      <4>2. ~replaced(q) /\ x[q] # None
        BY <2>2, <2>8, <3>1, <4>1
      <4>3. ~replaced(Front(q)) /\ x[Front(q)] # None
        BY <2>3, <2>4, <3>1, <4>2 DEF Tree
      <4> QED
        BY <2>2, <3>1, <3>4, <4>3
    <3> QED
      BY <3>2, <3>3, <3>4
  <2>9. GoodDB(y)
    BY <1>19, <2>6, <2>7, <2>8 DEF GoodDB, Tree
  <2> QED
    BY <2>9 DEF y
<1> HIDE DEF noted
<1>20. GoodDB(ldb) /\ GoodDB(rdb) /\ (r.ldb = r.rdb => ldb = rdb)
  BY <1>2, <1>19
<1> HIDE DEF ldb, rdb, n
<1>21. GoodResult(n) /\ n.fs = t /\ n.ldb = ldb /\ n.rdb = rdb
  BY <1>1, <1>16, <1>20, ResultFields
<1>22. Fine(r, n, m) /\ (bad = {} => Copied(r.fs, n.fs, src))
  BY <1>17, <1>18, <1>20, <1>21 DEF Fine
<1> QED
  BY <1>22 DEF n

LEMMA ApplyFine ==
    ASSUME NEW c \in Chg, NEW r, GoodResult(r), NEW src, GoodTree(src), NEW bad, NEW m \in Nat,
           clock \in Nat, now <= m, c.type # "Del" => c.d.mt <= m, Timed(src, m)
    PROVE  LET n == Apply(c, r, src, bad)
           IN  Fine(r, n, m) /\ (bad = {} /\ c.type # "Meta" => Copied(r.fs, n.fs, src))
<1> DEFINE n == Apply(c, r, src, bad)
<1> SUFFICES Fine(r, n, m) /\ (bad = {} /\ c.type # "Meta" => Copied(r.fs, n.fs, src))
  OBVIOUS
<1>1. c.type \in {"Add", "Data", "Meta", "Del", "DirFile"}
  BY ChgFacts
<1>2. CASE c.type = "Meta"
  <2>1. n = applyMeta(c, r)
    BY <1>2 DEF Apply
  <2> QED
    BY <1>2, <2>1, MetaFine
<1>3. CASE c.type = "Data"
  <2>1. n = applyData(c, r, src)
    BY <1>3 DEF Apply
  <2> QED
    BY <1>3, <2>1, DataFine
<1>4. CASE c.type = "Add"
  <2>1. n = applyAdd(c, r, src, bad)
    BY <1>4 DEF Apply
  <2> HIDE DEF n
  <2> QED
    BY <2>1, AddFine
<1>5. CASE c.type = "Del"
  <2>1. n = applyDel(c, r)
    BY <1>5 DEF Apply
  <2> HIDE DEF n
  <2> QED
    BY <2>1, DelFine
<1>6. CASE c.type = "DirFile"
  <2> DEFINE u == applyDel(c, r)
  <2>1. n = applyAdd(c, u, src, bad)
    BY <1>6 DEF Apply
  <2>2. Fine(r, u, m) /\ Copied(r.fs, u.fs, src)
    BY DelFine
  <2> HIDE DEF u, n
  <2>3. GoodResult(u)
    BY <2>2 DEF Fine
  <2>4. Fine(u, n, m) /\ (bad = {} => Copied(u.fs, n.fs, src))
    BY <2>1, <2>3, AddFine
  <2>5. Fine(r, n, m)
    BY <2>2, <2>4 DEF Fine
  <2>6. Copied(r.fs, u.fs, src) /\ Copied(u.fs, n.fs, src) => Copied(r.fs, n.fs, src)
    BY DEF Copied
  <2> QED
    BY <2>2, <2>4, <2>5, <2>6
<1> QED
  BY <1>1, <1>2, <1>3, <1>4, <1>5, <1>6

-----------------------------------------------------------------------------
(* Changes found.                                                          *)

LEMMA ChgTypeFacts ==
    ASSUME NEW d0 \in Entry \cup {None}, NEW d1 \in Entry \cup {None}
    PROVE  /\ ChgType(d0, d1) \in {"Add", "Data", "Meta", "Del", "DirFile", "same", "ignored"}
           /\ ChgType(d0, d1) = "Del" => d0 # None
           /\ ChgType(d0, d1) \notin {"Del", "ignored"} => d1 # None
           /\ ChgType(d0, d1) = "ignored" /\ d1 # None => d0 # None /\ d0.err
           /\ ChgType(d0, d1) \in {"same", "Meta"} =>
                /\ d0 # None /\ ~d0.rm /\ ~d0.err /\ d0.type = d1.type
                /\ d1.type = "-" => d0.mt = d1.mt
           /\ ChgType(d0, d1) = "same" => d0.mode = d1.mode
           /\ d0 # None /\ ~d0.rm /\ ~d0.err => ChgType(d0, d1) \notin {"Add", "ignored"}
BY NoneAssumption DEF ChgType, Entry

LEMMA ScanFacts ==
    ASSUME NEW s \in Sides, fs[s] \in [All -> File \cup {None}]
    PROVE  /\ Scan(s) \in [All -> Entry \cup {None}]
           /\ \A p \in All : /\ Scan(s)[p] = None <=> fs[s][p] = None
                             /\ IsDir(Scan(s), p) <=> IsDir(fs[s], p)
           /\ \A p \in All : fs[s][p] # None =>
                /\ fs[s][p] \in File
                /\ Scan(s)[p].type = fs[s][p].type /\ Scan(s)[p].mt = fs[s][p].mt
                /\ Scan(s)[p].mode = fs[s][p].mode
                /\ ~Scan(s)[p].rm /\ ~Scan(s)[p].err
<1> DEFINE t == fs[s]
<1>1. t \in [All -> File \cup {None}]
  OBVIOUS
<1>2. \A p \in All : t[p] # None => t[p] \in File /\ EntryOf(t[p]) \in Entry
  BY <1>1, EntryOfFile
<1>3. Scan(s) = [p \in All |-> IF t[p] = None THEN None ELSE EntryOf(t[p])]
  BY DEF Scan
<1> HIDE DEF t
<1>4. Scan(s) \in [All -> Entry \cup {None}]
  BY <1>2, <1>3
<1>5. \A p \in All : t[p] = None => Scan(s)[p] = None
  BY <1>3
<1>6. \A p \in All : t[p] # None =>
        /\ Scan(s)[p] = EntryOf(t[p]) /\ Scan(s)[p] # None
        /\ t[p] \in File /\ Scan(s)[p].type = t[p].type /\ Scan(s)[p].mt = t[p].mt
        /\ Scan(s)[p].mode = t[p].mode /\ ~Scan(s)[p].rm /\ ~Scan(s)[p].err
  BY <1>2, <1>3, NoneAssumption, EntryOfFile
<1>7. \A p \in All : IsDir(Scan(s), p) <=> IsDir(t, p)
  BY <1>5, <1>6 DEF IsDir, TypeAt
<1> QED
  BY <1>4, <1>5, <1>6, <1>7 DEF t

\* What changed is below directories that did not, other than in attributes.
LEMMA ChangedFacts ==
    ASSUME NEW old, NEW new
    PROVE  /\ changed(old, new) \subseteq Paths
           /\ \A p \in Paths : p \in changed(old, new) <=>
                /\ \A a \in All : IsStrictPrefix(a, p) =>
                    ChgType(old[a], new[a]) \in {"same", "Meta"} /\ IsDir(new, a)
                /\ ChgType(old[p], new[p]) \notin {"same", "ignored"}
<1>1. \A p \in All : types(old, new)[p] = ChgType(old[p], new[p])
  BY DEF types
<1> QED
  BY <1>1, AllAreSeqs DEF changed

\* The change with which a path is found.
Found(c, old, new) ==
    /\ c.type # "Del" => c.path \in All /\ new[c.path] # None /\ c.d = new[c.path]

LEMMA ChangesGood ==
    ASSUME NEW old \in [All -> Entry \cup {None}], NEW s \in Sides, NEW at \in Sides,
           GoodTree(fs[s]), clock \in Nat, NEW q \in changes(old, Scan(s), at)
    PROVE  q \in Seq(Chg) /\ \A k \in 1..Len(q) : Found(q[k], old, Scan(s))
<1> DEFINE new == Scan(s)
           type == types(old, new)
           metat(p) == IF p = <<>> THEN now + 1 ELSE new[Front(p)].mt
           time(p) == CASE type[p] = "Del"  -> metat(Front(p))
                        [] type[p] = "Meta" -> metat(p)
                        [] OTHER -> new[p].mt
           chg(p) == [type |-> type[p], time |-> time(p), path |-> p,
                      d |-> IF type[p] = "Del" THEN old[p] ELSE new[p], at |-> at]
           all == changed(old, new)
<1>1. PICK f \in [1..Cardinality(all) -> all] : q = [i \in DOMAIN f |-> chg(f[i])]
  BY DEF changes
<1>2. /\ fs[s] \in [All -> File \cup {None}] /\ new \in [All -> Entry \cup {None}]
      /\ \A p \in All : IsDir(new, p) <=> IsDir(fs[s], p)
      /\ \A p \in All : new[p] # None <=> fs[s][p] # None
      /\ now \in Nat
  <2>1. fs[s] \in [All -> File \cup {None}]
    BY DEF GoodTree
  <2>2. now \in Nat
    BY DEF now
  <2> QED
    BY <2>1, <2>2, ScanFacts
<1> HIDE DEF new
<1>3. ASSUME NEW p \in All, IsDir(new, p) PROVE new[p] \in Entry /\ new[p].mt \in Nat
  BY <1>2, <1>3 DEF IsDir, TypeAt, Entry
<1>4. Cardinality(all) \in Nat
  <2>1. IsFiniteSet(Paths) /\ all \subseteq Paths
    BY ReplAssumption, ChangedFacts DEF ReplAssumption
  <2> HIDE DEF all
  <2> QED
    BY <2>1, FS_Subset, FS_CardinalityType
<1>5. ASSUME NEW p \in all PROVE chg(p) \in Chg /\ Found(chg(p), old, new)
  <2>1. /\ p \in Paths /\ p \in All /\ Front(p) \in All /\ IsStrictPrefix(Front(p), p)
        /\ \A a \in All : IsStrictPrefix(a, p) => IsDir(new, a)
        /\ ChgType(old[p], new[p]) \notin {"same", "ignored"}
    BY ChangedFacts, AllAreSeqs, FrontFacts, PrefixFacts DEF IsStrictPrefix
  <2>2. type[p] = ChgType(old[p], new[p])
    BY <2>1 DEF types
  <2>3. old[p] \in Entry \cup {None} /\ new[p] \in Entry \cup {None}
    BY <1>2, <2>1
  <2>4. /\ type[p] \in {"Add", "Data", "Meta", "Del", "DirFile"}
        /\ type[p] = "Del" => old[p] \in Entry
        /\ type[p] # "Del" => new[p] \in Entry /\ new[p] # None
    BY <2>1, <2>2, <2>3, ChgTypeFacts, NoneAssumption
  <2> HIDE DEF type, all
  <2>5. metat(p) \in Nat
    BY <1>3, <2>1, AllAreSeqs
  <2>6. metat(Front(p)) \in Nat
    <3>1. CASE Front(p) = <<>>
      BY <1>2, <3>1
    <3>2. CASE Front(p) # <<>>
      <4>1. Front(p) \in Paths /\ fs[s][Front(p)] # None
        BY <1>2, <2>1, <3>2, FileFacts DEF All
      <4>2. IsDir(fs[s], Front(Front(p))) /\ Front(Front(p)) \in All
        BY <4>1, FrontFacts DEF GoodTree
      <4> QED
        BY <1>2, <1>3, <3>2, <4>2
    <3> QED
      BY <3>1, <3>2
  <2>7. time(p) \in Nat
    <3>1. CASE type[p] = "Del"
      BY <2>6, <3>1
    <3>2. CASE type[p] = "Meta"
      BY <2>5, <3>2
    <3>3. CASE type[p] \notin {"Del", "Meta"}
      BY <2>4, <3>3 DEF Entry
    <3> QED
      BY <3>1, <3>2, <3>3
  <2> HIDE DEF time
  <2>8. chg(p) \in Chg
    BY <2>1, <2>4, <2>7 DEF Chg
  <2>9. Found(chg(p), old, new)
    BY <2>1, <2>4 DEF Found
  <2> QED
    BY <2>8, <2>9
<1> HIDE DEF chg, all
<1>6. DOMAIN f = 1..Cardinality(all) /\ \A i \in 1..Cardinality(all) : f[i] \in all
  BY <1>1
<1>7. q = [i \in 1..Cardinality(all) |-> chg(f[i])]
  BY <1>1, <1>6
<1>8. q \in Seq(Chg) /\ Len(q) = Cardinality(all)
  BY <1>4, <1>5, <1>6, <1>7
<1>9. \A k \in 1..Len(q) : Found(q[k], old, new)
  BY <1>5, <1>6, <1>7, <1>8
<1> QED
  BY <1>8, <1>9 DEF new

-----------------------------------------------------------------------------
(* The types: replicas are trees of files, none of a later time than now,  *)
(* nor are the files that changes set the attributes of.                   *)

InTime(c, m) == c.type # "Del" => c.d.mt <= m
Timely ==
    /\ \A s \in Sides : Timed(fs[s], now)
    /\ \A i \in 1..2 : \A k \in 1..Len(todo[i]) : InTime(todo[i][k], now)
TypeInv ==
    /\ fs \in [Sides -> [All -> File \cup {None}]]
    /\ {saved, db} \subseteq [Sides -> [All -> Entry \cup {None}]]
    /\ \A s \in Sides : GoodTree(fs[s]) /\ GoodDB(saved[s]) /\ GoodDB(db[s])
    /\ cmd \in {"idle", "sync", "save", "save2"} \cup Commands
    /\ todo \in Seq(Chg) \X Seq(Chg)
    /\ clock \in Nat
    /\ used \in [{"edits", "cmds", "faults"} -> Nat]
    /\ over \subseteq Paths
    /\ Timely

\* The changes found, as commands look for them.
LEMMA FindGood ==
    ASSUME TypeInv, NEW c \in {"sync"} \cup Commands, NEW x \in Find(c)
    PROVE  /\ x \in Seq(Chg) \X Seq(Chg)
           /\ \A i \in 1..2 : \A k \in 1..Len(x[i]) : InTime(x[i][k], now)
<1>1. c \in {"sync", "pull", "push", "blindpull", "blindpush", "pullall", "pushall"}
  BY ReplAssumption DEF ReplAssumption
<1>2. /\ \A s \in Sides : Timed(fs[s], now) /\ GoodTree(fs[s]) /\ fs[s] \in [All -> File \cup {None}]
      /\ \A s \in Sides : saved[s] \in [All -> Entry \cup {None}]
      /\ clock \in Nat
  BY DEF TypeInv, Timely, GoodTree, GoodDB
<1>3. \A s \in Sides : Scan(s) \in [All -> Entry \cup {None}]
  BY <1>2, ScanFacts
<1>4. ASSUME NEW old \in [All -> Entry \cup {None}], NEW s \in Sides, NEW at \in Sides,
             NEW q \in changes(old, Scan(s), at)
      PROVE  q \in Seq(Chg) /\ \A k \in 1..Len(q) : InTime(q[k], now)
  <2>1. q \in Seq(Chg) /\ \A k \in 1..Len(q) : Found(q[k], old, Scan(s))
    BY <1>2, ChangesGood
  <2>2. ASSUME NEW k \in 1..Len(q) PROVE InTime(q[k], now)
    <3>1. Found(q[k], old, Scan(s))
      BY <2>1
    <3> QED
      BY <1>2, <3>1, ScanFacts DEF Found, InTime, Timed
  <2> QED
    BY <2>1, <2>2
<1> DEFINE Ok == {q \in Seq(Chg) : \A k \in 1..Len(q) : InTime(q[k], now)}
<1>5. PullChanges \subseteq Ok /\ PushChanges \subseteq Ok
  BY <1>2, <1>4 DEF PullChanges, PushChanges, Sides
<1>6. /\ changes(Scan("local"), Scan("remote"), "remote") \subseteq Ok
      /\ changes(Scan("remote"), Scan("local"), "local") \subseteq Ok
  BY <1>3, <1>4 DEF Sides
<1>7. <<>> \in Ok
  OBVIOUS
<1> HIDE DEF Ok
<1>8. Find(c) \subseteq Ok \X Ok
  <2>1. CASE c \in {"sync", "pull", "push"}
    BY <1>5, <2>1 DEF Find
  <2>2. CASE c = "blindpull"
    BY <1>5, <1>7, <2>2 DEF Find
  <2>3. CASE c = "blindpush"
    BY <1>5, <1>7, <2>3 DEF Find
  <2>4. CASE c = "pullall"
    BY <1>6, <1>7, <2>4 DEF Find
  <2>5. CASE c = "pushall"
    BY <1>6, <1>7, <2>5 DEF Find
  <2> QED
    BY <1>1, <2>1, <2>2, <2>3, <2>4, <2>5
<1>9. x[1] \in Ok /\ x[2] \in Ok /\ x = <<x[1], x[2]>>
  BY <1>8
<1> QED
  BY <1>9 DEF Ok

\* The next change is one of those there are, and so are those that are left.
LEMMA MergeGood ==
    ASSUME todo \in Seq(Chg) \X Seq(Chg), ~Empty
    PROVE  /\ resolve \in Chg /\ merge \in Seq(Chg) \X Seq(Chg)
           /\ \E i \in 1..2 : \E k \in 1..Len(todo[i]) : resolve = todo[i][k]
           /\ \A i \in 1..2 : \A k \in 1..Len(merge[i]) :
                \E j \in 1..Len(todo[i]) : merge[i][k] = todo[i][j]
<1> DEFINE a == todo[1]
           b == todo[2]
<1>1. a \in Seq(Chg) /\ b \in Seq(Chg) /\ todo = <<a, b>>
  OBVIOUS
<1>2. a # <<>> \/ b # <<>>
  BY <1>1 DEF Empty
<1>3. Heads \subseteq {1, 2} /\ (1 \in Heads => a # <<>>) /\ (2 \in Heads => b # <<>>)
      /\ (b = <<>> => Heads = {1}) /\ (a = <<>> => Heads = {2})
  <2>1. CASE b = <<>>
    BY <1>2, <2>1 DEF Heads
  <2>2. CASE a = <<>> /\ b # <<>>
    BY <2>2 DEF Heads
  <2>3. CASE a # <<>> /\ b # <<>>
    BY <2>3 DEF Heads
  <2> QED
    BY <2>1, <2>2, <2>3
<1>4. \/ a # <<>> /\ resolve = a[1]
      \/ b # <<>> /\ resolve = b[1]
  <2>1. CASE b = <<>>
    BY <1>2, <1>3, <2>1 DEF resolve
  <2>2. CASE a = <<>>
    BY <1>2, <1>3, <2>2 DEF resolve
  <2>3. CASE a # <<>> /\ b # <<>>
    BY <2>3 DEF resolve
  <2> QED
    BY <2>1, <2>2, <2>3
<1> DEFINE left(i) == IF i \in Heads THEN Tail(todo[i]) ELSE todo[i]
<1>5. merge[1] = left(1) /\ merge[2] = left(2) /\ merge = <<left(1), left(2)>>
  BY DEF merge
<1>6. ASSUME NEW i \in 1..2
      PROVE  /\ left(i) \in Seq(Chg)
             /\ \A k \in 1..Len(left(i)) : \E j \in 1..Len(todo[i]) : left(i)[k] = todo[i][j]
  <2>1. todo[i] \in Seq(Chg)
    BY <1>1
  <2>2. CASE i \notin Heads
    BY <2>1, <2>2
  <2>3. CASE i \in Heads
    <3>1. todo[i] # <<>> /\ left(i) = Tail(todo[i])
      BY <1>3, <2>3
    <3>2. /\ Tail(todo[i]) \in Seq(Chg) /\ Len(Tail(todo[i])) = Len(todo[i]) - 1
          /\ \A k \in 1..Len(Tail(todo[i])) : Tail(todo[i])[k] = todo[i][k + 1]
      BY <2>1, <3>1, HeadTailProperties
    <3>3. \A k \in 1..(Len(todo[i]) - 1) : k + 1 \in 1..Len(todo[i])
      BY <2>1
    <3> QED
      BY <3>1, <3>2, <3>3
  <2> QED
    BY <2>2, <2>3
<1> HIDE DEF left
<1>7. merge \in Seq(Chg) \X Seq(Chg)
  BY <1>5, <1>6
<1>8. resolve \in Chg /\ \E i \in 1..2 : \E k \in 1..Len(todo[i]) : resolve = todo[i][k]
  BY <1>1, <1>4
<1>9. \A i \in 1..2 : \A k \in 1..Len(merge[i]) :
        \E j \in 1..Len(todo[i]) : merge[i][k] = todo[i][j]
  BY <1>5, <1>6
<1> QED
  BY <1>7, <1>8, <1>9

LEMMA NothingToDo == <<<<>>, <<>>>> \in Seq(Chg) \X Seq(Chg)
<1>1. <<>> \in Seq(Chg)
  OBVIOUS
<1> DEFINE S == Seq(Chg)
<1>2. <<>> \in S
  BY <1>1
<1> HIDE DEF S
<1>3. <<<<>>, <<>>>> \in S \X S
  BY <1>2
<1> QED
  BY <1>3 DEF S

LEMMA InitGood == Init => TypeInv
<1> SUFFICES ASSUME Init PROVE TypeInv
  OBVIOUS
<1> DEFINE root == [type |-> "d", v |-> 0, mt |-> 0, mode |-> 0]
           file(p) == [type |-> Initial[p], v |-> IF Initial[p] = "-" THEN 1 ELSE 0,
                       mt |-> 0, mode |-> 0]
           t == [p \in All |-> IF p = <<>> THEN root
                               ELSE IF p \in DOMAIN Initial THEN file(p) ELSE None]
<1>1. /\ fs = [s \in Sides |-> t] /\ saved = [s \in Sides |-> Scan(s)] /\ db = saved
      /\ cmd = "idle" /\ todo = <<<<>>, <<>>>> /\ clock = 0 /\ over = {}
      /\ used = [x \in {"edits", "cmds", "faults"} |-> 0]
  BY DEF Init
<1>2. root \in File /\ root.mt = 0 /\ root.v = 0 /\ root.type = "d"
  BY DEF File
<1>3. \A p \in DOMAIN Initial :
        /\ file(p) \in File /\ file(p).mt = 0 /\ (file(p).type = "d" => file(p).v = 0)
        /\ file(p).type = Initial[p]
  <2> SUFFICES ASSUME NEW p \in DOMAIN Initial
               PROVE  /\ file(p) \in File /\ file(p).mt = 0
                      /\ file(p).type = "d" => file(p).v = 0
                      /\ file(p).type = Initial[p]
    OBVIOUS
  <2>1. Initial[p] \in {"-", "d"}
    BY ReplAssumption DEF ReplAssumption, Range
  <2> QED
    BY <2>1 DEF File
<1> HIDE DEF root, file
<1>4. /\ t \in [All -> File \cup {None}]
      /\ t[<<>>] = root
      /\ \A p \in Paths : t[p] = IF p \in DOMAIN Initial THEN file(p) ELSE None
  BY <1>2, <1>3, AllAreSeqs
<1> HIDE DEF t
<1>5. IsDir(t, <<>>)
  BY <1>2, <1>4, NoneAssumption DEF IsDir, TypeAt
<1>6. ASSUME NEW p \in Paths, t[p] # None PROVE IsDir(t, Front(p))
  <2>1. p \in DOMAIN Initial /\ Front(p) \in All /\ Len(Front(p)) = Len(p) - 1 /\ Len(p) \in Nat \ {0}
    BY <1>4, <1>6, FrontFacts, AllAreSeqs
  <2>2. CASE Len(p) > 1
    <3>1. Front(p) \in DOMAIN Initial /\ Initial[Front(p)] = "d" /\ Front(p) \in Paths
      BY <2>1, <2>2, ReplAssumption DEF ReplAssumption
    <3> QED
      BY <1>3, <1>4, <3>1, NoneAssumption DEF IsDir, TypeAt
  <2>3. CASE Len(p) = 1
    <3>1. Front(p) = <<>>
      BY <2>1, <2>3, AllAreSeqs DEF All
    <3> QED
      BY <1>5, <3>1
  <2> QED
    BY <2>1, <2>2, <2>3
<1>7. \A p \in All : t[p] # None => t[p].mt = 0 /\ (t[p].type = "d" => t[p].v = 0)
  BY <1>2, <1>3, <1>4 DEF All
<1>8. GoodTree(t)
  BY <1>4, <1>5, <1>6, <1>7, FileFacts DEF GoodTree
<1>9. ASSUME NEW s \in Sides
      PROVE  GoodTree(fs[s]) /\ GoodDB(saved[s]) /\ GoodDB(db[s]) /\ Timed(fs[s], now)
  <2>1. fs[s] = t /\ saved[s] = Scan(s) /\ db[s] = Scan(s)
    BY <1>1
  <2>2. Scan(s) \in [All -> Entry \cup {None}]
    BY <1>4, <2>1, ScanFacts
  <2>3. Tree(Scan(s))
    <3> SUFFICES ASSUME NEW p \in Paths, Scan(s)[p] # None PROVE Scan(s)[Front(p)] # None
      BY DEF Tree
    <3>0. p \in All /\ Front(p) \in All /\ fs[s] \in [All -> File \cup {None}]
      BY <1>4, <2>1, AllAreSeqs, FrontFacts
    <3>1. t[Front(p)] # None /\ Front(p) \in All
      <4>1. t[p] # None
        BY <2>1, <3>0, ScanFacts
      <4> QED
        BY <1>4, <1>6, <3>0, <4>1, FileFacts
    <3> QED
      BY <1>4, <2>1, <3>1, ScanFacts
  <2>4. Scan(s)[<<>>] # None /\ Scan(s)[<<>>].type = "d" /\ ~Scan(s)[<<>>].rm /\ ~Scan(s)[<<>>].err
    BY <1>2, <1>4, <1>5, <2>1, AllAreSeqs, ScanFacts, FileFacts
  <2>5. GoodDB(Scan(s))
    BY <2>2, <2>3, <2>4 DEF GoodDB
  <2>6. Timed(t, now)
    BY <1>1, <1>7 DEF Timed, now
  <2> QED
    BY <1>8, <2>1, <2>5, <2>6
<1>10. /\ todo \in Seq(Chg) \X Seq(Chg) /\ clock \in Nat /\ over \subseteq Paths
       /\ used \in [{"edits", "cmds", "faults"} -> Nat]
  BY <1>1, NothingToDo
<1>11. /\ fs \in [Sides -> [All -> File \cup {None}]]
       /\ {saved, db} \subseteq [Sides -> [All -> Entry \cup {None}]]
  BY <1>1, <1>4, <1>9 DEF GoodDB
<1>12. Timely
  BY <1>1, <1>9 DEF Timely
<1> QED
  BY <1>1, <1>9, <1>10, <1>11, <1>12 DEF TypeInv

LEMMA TypeInvOK == TypeInv => TypeOK
<1> SUFFICES ASSUME TypeInv PROVE TypeOK
  OBVIOUS
<1>1. ASSUME NEW t, GoodTree(t)
      PROVE  Tree(t) /\ \A p \in Paths : t[p] # None => t[Front(p)].type = "d"
  <2>1. t \in [All -> File \cup {None}]
    BY <1>1 DEF GoodTree
  <2> QED
    BY <1>1, <2>1, FrontFacts, FileFacts DEF GoodTree, Tree
<1>2. \A t : GoodDB(t) => Tree(t)
  BY DEF GoodDB
<1> QED
  BY <1>1, <1>2 DEF TypeInv, TypeOK

-----------------------------------------------------------------------------
(* Steps keep the types.                                                   *)

LEMMA OtherFacts ==
    \A s \in Sides : /\ Other(s) \in Sides /\ Other(s) # s /\ Other(Other(s)) = s
                     /\ \A x \in Sides : x = s \/ x = Other(s)
<1>1. Other("local") = "remote" /\ Other("remote") = "local"
  BY DEF Other, Sides
<1> QED
  BY <1>1 DEF Sides

LEMMA UseGood ==
    ASSUME used \in [{"edits", "cmds", "faults"} -> Nat],
           NEW x \in {"edits", "cmds", "faults"}, Use(x)
    PROVE  used' \in [{"edits", "cmds", "faults"} -> Nat]
<1> DEFINE D == {"edits", "cmds", "faults"}
<1>1. used \in [D -> Nat] /\ x \in D /\ used' = [used EXCEPT ![x] = used[x] + 1]
  BY DEF Use
<1> HIDE DEF D
<1>2. used[x] + 1 \in Nat
  BY <1>1
<1>3. used' \in [D -> Nat]
  BY <1>1, <1>2
<1> QED
  BY <1>3 DEF D

LEMMA EditStep ==
    ASSUME TypeInv, NEW s \in Sides, NEW p \in Paths, NEW kind \in Edits,
           UserEdits(s, p, kind)
    PROVE  /\ TypeInv'
           /\ GoodTree(fs'[s]) /\ Edited(fs[s], fs'[s], clock')
           /\ \A x \in Sides : x # s => fs'[x] = fs[x]
           /\ clock' = clock + 2 /\ clock \in Nat
<1> DEFINE n == Edit(s, p, kind, clock')
<1>1. /\ clock \in Nat /\ clock' = clock + 2 /\ clock' \in Nat /\ CanEdit(s, p, kind)
      /\ fs \in [Sides -> [All -> File \cup {None}]] /\ GoodTree(fs[s])
      /\ fs' = [fs EXCEPT ![s] = n]
      /\ UNCHANGED <<saved, db, cmd, todo, over>>
  BY DEF TypeInv, UserEdits
<1>2. GoodTree(n) /\ Edited(fs[s], n, clock')
  BY <1>1, EditGood
<1> HIDE DEF n
<1>3. n \in [All -> File \cup {None}]
  BY <1>2 DEF GoodTree
<1>4. /\ fs' \in [Sides -> [All -> File \cup {None}]]
      /\ fs'[s] = n /\ \A x \in Sides : x # s => fs'[x] = fs[x]
  BY <1>1, <1>3
<1>5. Timely'
  <2>1. now \in Nat /\ now' = now + 2 /\ clock' <= now'
    BY <1>1 DEF now
  <2>2. (\A x \in Sides : Timed(fs[x], now))
        /\ \A i \in 1..2 : \A k \in 1..Len(todo[i]) : InTime(todo[i][k], now)
    BY DEF TypeInv, Timely
  <2>3. \A x \in Sides, q \in All : fs[x][q] # None => fs[x][q].mt \in Nat
    BY <1>1 DEF File
  <2>4. ASSUME NEW x \in Sides PROVE Timed(fs'[x], now')
    <3>1. CASE x = s
      <4> SUFFICES ASSUME NEW q \in All, n[q] # None PROVE n[q].mt <= now'
        BY <1>4, <3>1 DEF Timed
      <4>1. n[q].mt = clock' \/ (fs[s][q] # None /\ n[q].mt = fs[s][q].mt)
        BY <1>2 DEF Edited
      <4>2. fs[s][q] # None => fs[s][q].mt <= now /\ fs[s][q].mt \in Nat
        BY <2>2, <2>3 DEF Timed
      <4> QED
        BY <1>1, <2>1, <4>1, <4>2
    <3>2. CASE x # s
      BY <1>4, <2>1, <2>2, <2>3, <3>2 DEF Timed
    <3> QED
      BY <3>1, <3>2
  <2>5. ASSUME NEW i \in 1..2, NEW k \in 1..Len(todo[i]) PROVE InTime(todo[i][k], now')
    <3>1. todo[i][k] \in Chg
      BY DEF TypeInv
    <3>2. todo[i][k].d.mt \in Nat /\ InTime(todo[i][k], now)
      BY <2>2, <3>1, ChgFacts
    <3> QED
      BY <2>1, <3>2 DEF InTime
  <2> QED
    BY <1>1, <2>4, <2>5 DEF Timely
<1>6. \A x \in Sides : GoodTree(fs'[x]) /\ GoodDB(saved'[x]) /\ GoodDB(db'[x])
  BY <1>1, <1>2, <1>4 DEF TypeInv
<1>7. used' \in [{"edits", "cmds", "faults"} -> Nat]
  BY UseGood DEF TypeInv, UserEdits
<1>8. TypeInv'
  BY <1>1, <1>4, <1>5, <1>6, <1>7 DEF TypeInv
<1> QED
  BY <1>1, <1>2, <1>4, <1>8

LEMMA RunStep ==
    ASSUME TypeInv, NEW c \in {"sync"} \cup Commands, Run(c),
           used' \in [{"edits", "cmds", "faults"} -> Nat]
    PROVE  TypeInv'
<1>1. /\ cmd' = c /\ todo' \in Find(c) /\ db' = saved
      /\ UNCHANGED <<fs, saved, clock, over>>
  BY DEF Run
<1>2. /\ todo' \in Seq(Chg) \X Seq(Chg)
      /\ \A i \in 1..2 : \A k \in 1..Len(todo'[i]) : InTime(todo'[i][k], now)
  BY <1>1, FindGood
<1>3. Timely'
  BY <1>1, <1>2 DEF Timely, TypeInv, now
<1> QED
  BY <1>1, <1>2, <1>3 DEF TypeInv

\* What is there before a change, and any outcome of making it.
LEMMA BeforeGood ==
    ASSUME TypeInv, NEW c \in Chg
    PROVE  /\ GoodResult(Before(c)) /\ GoodTree(fs[c.at]) /\ Target(c) \in Sides
           /\ Before(c).fs = fs[Target(c)] /\ Timed(Before(c).fs, now) /\ Timed(fs[c.at], now)
           /\ Before(c).ldb = db[Target(c)] /\ Before(c).rdb = db[c.at]
           /\ c.at \in Sides /\ Target(c) # c.at /\ \A x \in Sides : x = c.at \/ x = Target(c)
           /\ clock \in Nat /\ now \in Nat
<1>1. c.at \in Sides /\ Target(c) \in Sides /\ Target(c) # c.at
      /\ \A x \in Sides : x = c.at \/ x = Target(c)
  BY ChgFacts, OtherFacts DEF Target
<1>2. \A s \in Sides : GoodTree(fs[s]) /\ GoodDB(db[s]) /\ Timed(fs[s], now)
  BY DEF TypeInv, Timely
<1>3. clock \in Nat /\ now \in Nat
  BY DEF TypeInv, now
<1> QED
  BY <1>1, <1>2, <1>3, ResultFields DEF Before

LEMMA OutcomeFine ==
    ASSUME TypeInv, NEW c \in Chg, InTime(c, now), NEW f \in Faults \ {"crash", "torn"}, NEW bad,
           c.type \in Failing(f)
    PROVE  /\ Fine(Before(c), Outcome(f, c, bad), now)
           /\ f \in {"none", "lost"} /\ c.type # "Meta" =>
                Copied(fs[Target(c)], Outcome(f, c, bad).fs, fs[c.at])
<1> DEFINE r == Before(c)
           n == Outcome(f, c, bad)
           a == Apply(c, r, fs[c.at], {})
<1>1. /\ GoodResult(r) /\ GoodTree(fs[c.at]) /\ Timed(fs[c.at], now)
      /\ clock \in Nat /\ now \in Nat /\ r.fs = fs[Target(c)]
  BY BeforeGood
<1>2. f \in {"none", "lost", "get", "getall", "add"}
  BY ReplAssumption DEF ReplAssumption
<1>3. c.type # "Del" => c.d.mt <= now
  BY DEF InTime
<1>4. CASE f = "none"
  <2>1. n = r
    BY <1>4 DEF Outcome
  <2> HIDE DEF n, r
  <2> QED
    BY <1>1, <2>1 DEF Fine, Copied, r, n
<1>5. CASE f = "lost"
  <2>1. n = [r EXCEPT !.fs = a.fs]
    BY <1>5 DEF Outcome
  <2>2. Fine(r, a, now) /\ (c.type # "Meta" => Copied(r.fs, a.fs, fs[c.at]))
    <3> HIDE DEF r
    <3> QED
      BY <1>1, <1>3, ApplyFine
  <2>3. r = Result(r.fs, r.ldb, r.rdb) /\ GoodDB(r.ldb) /\ GoodDB(r.rdb)
    BY <1>1 DEF GoodResult
  <2> HIDE DEF n, r, a
  <2>4. n = Result(a.fs, r.ldb, r.rdb)
    BY <2>1, <2>3, ResultFields
  <2>5. GoodTree(a.fs)
    BY <2>2 DEF Fine, GoodResult
  <2>6. GoodResult(n) /\ n.fs = a.fs /\ n.ldb = r.ldb /\ n.rdb = r.rdb
    BY <2>3, <2>4, <2>5, ResultFields
  <2>7. Fine(r, n, now) /\ (c.type # "Meta" => Copied(fs[Target(c)], n.fs, fs[c.at]))
    BY <1>1, <2>2, <2>6 DEF Fine
  <2> QED
    BY <2>7 DEF r, n
<1>6. CASE f \in {"get", "getall"}
  <2>1. n = PutData(c, r, 0) /\ c.type = "Data"
    BY <1>6 DEF Outcome, Failing
  <2> HIDE DEF n, r
  <2>2. Fine(r, n, now)
    BY <1>1, <1>3, <2>1, PutDataFine
  <2> QED
    BY <1>6, <2>2 DEF n, r
<1>7. CASE f = "add"
  <2>1. n = Apply(c, r, fs[c.at], bad)
    BY <1>7 DEF Outcome
  <2> HIDE DEF n, r
  <2>2. Fine(r, n, now)
    BY <1>1, <1>3, <2>1, ApplyFine
  <2> QED
    BY <1>7, <2>2 DEF n, r
<1> QED
  BY <1>2, <1>4, <1>5, <1>6, <1>7

LEMMA MadeStep ==
    ASSUME TypeInv, ~Empty, NEW r, Fine(Before(resolve), r, now), Made(resolve, r),
           used' \in [{"edits", "cmds", "faults"} -> Nat]
    PROVE  /\ TypeInv'
           /\ fs'[Target(resolve)] = r.fs /\ fs'[resolve.at] = fs[resolve.at]
<1> DEFINE c == resolve
<1>1. /\ todo \in Seq(Chg) \X Seq(Chg) /\ fs \in [Sides -> [All -> File \cup {None}]]
      /\ cmd \in {"idle", "sync", "save", "save2"} \cup Commands /\ over \subseteq Paths
      /\ clock \in Nat /\ \A s \in Sides : GoodTree(fs[s]) /\ GoodDB(saved[s])
      /\ saved \in [Sides -> [All -> Entry \cup {None}]] /\ Timely
  BY DEF TypeInv
<1>2. c \in Chg /\ merge \in Seq(Chg) \X Seq(Chg)
      /\ \A i \in 1..2 : \A k \in 1..Len(merge[i]) :
            \E j \in 1..Len(todo[i]) : merge[i][k] = todo[i][j]
  BY <1>1, MergeGood
<1>3. /\ fs' = [fs EXCEPT ![Target(c)] = r.fs]
      /\ db' = [s \in Sides |-> IF s = c.at THEN r.rdb ELSE r.ldb]
      /\ todo' = merge /\ cmd' \in {"save", cmd}
      /\ over' = Over(c, r) /\ UNCHANGED <<saved, clock>>
  BY DEF Made
<1> HIDE DEF c
<1>4. /\ Target(c) \in Sides /\ c.at \in Sides /\ Target(c) # c.at
      /\ \A x \in Sides : x = c.at \/ x = Target(c)
      /\ Timed(Before(c).fs, now)
  BY <1>2, BeforeGood
<1>5. GoodResult(r) /\ Timed(r.fs, now)
  BY <1>4 DEF Fine, c
<1>6. GoodTree(r.fs) /\ GoodDB(r.ldb) /\ GoodDB(r.rdb)
  BY <1>5 DEF GoodResult
<1>7. r.fs \in [All -> File \cup {None}] /\ {r.ldb, r.rdb} \subseteq [All -> Entry \cup {None}]
  BY <1>6 DEF GoodTree, GoodDB
<1>8. /\ fs' \in [Sides -> [All -> File \cup {None}]]
      /\ fs'[Target(c)] = r.fs /\ \A x \in Sides : x # Target(c) => fs'[x] = fs[x]
  BY <1>1, <1>3, <1>4, <1>7
<1>9. db' \in [Sides -> [All -> Entry \cup {None}]] /\ \A x \in Sides : GoodDB(db'[x])
  BY <1>3, <1>6, <1>7
<1>10. Over(c, r) \subseteq Paths
  BY DEF Over
<1>11. Timely'
  <2>1. now' = now
    BY <1>3 DEF now
  <2>2. \A x \in Sides : Timed(fs'[x], now)
    BY <1>1, <1>5, <1>8 DEF Timely
  <2>3. \A i \in 1..2 : \A k \in 1..Len(merge[i]) : InTime(merge[i][k], now)
    BY <1>1, <1>2 DEF Timely
  <2> QED
    BY <1>3, <2>1, <2>2, <2>3 DEF Timely
<1>12. \A x \in Sides : GoodTree(fs'[x]) /\ GoodDB(saved'[x])
  BY <1>1, <1>3, <1>6, <1>8
<1>13. TypeInv'
  BY <1>1, <1>2, <1>3, <1>8, <1>9, <1>10, <1>11, <1>12 DEF TypeInv
<1> QED
  BY <1>4, <1>8, <1>13 DEF c

LEMMA NextKeepsTypes == TypeInv /\ [Next]_vars => TypeInv'
<1> SUFFICES ASSUME TypeInv, [Next]_vars PROVE TypeInv'
  OBVIOUS
<1>1. /\ todo \in Seq(Chg) \X Seq(Chg) /\ used \in [{"edits", "cmds", "faults"} -> Nat]
      /\ db \in [Sides -> [All -> Entry \cup {None}]]
      /\ saved \in [Sides -> [All -> Entry \cup {None}]]
      /\ Sides = {"local", "remote"}
  BY DEF TypeInv, Sides
<1>2. ASSUME NEW s \in Editors, NEW p \in Paths, NEW kind \in Edits, UserEdits(s, p, kind)
      PROVE  TypeInv'
  <2>1. s \in Sides
    BY <1>1, ReplAssumption DEF ReplAssumption
  <2> QED
    BY <1>2, <2>1, EditStep
<1>3. CASE Sync
  <2>1. Run("sync") /\ used' \in [{"edits", "cmds", "faults"} -> Nat]
    BY <1>1, <1>3 DEF Sync
  <2> QED
    BY <2>1, RunStep
<1>4. ASSUME NEW c \in Commands, OtherCommand(c) PROVE TypeInv'
  <2>1. Run(c) /\ used' \in [{"edits", "cmds", "faults"} -> Nat]
    BY <1>1, <1>4, UseGood DEF OtherCommand
  <2> QED
    BY <2>1, RunStep
<1>5. CASE ApplyAll
  <2>1. PICK r : /\ r = IF resolve.at \in From(cmd)
                        THEN Apply(resolve, Before(resolve), fs[resolve.at], {}) ELSE Before(resolve)
                 /\ Made(resolve, r)
    BY <1>5 DEF ApplyAll
  <2>2. ~Empty /\ used' \in [{"edits", "cmds", "faults"} -> Nat]
    BY <1>1, <1>5 DEF ApplyAll
  <2>3. resolve \in Chg /\ InTime(resolve, now)
    BY <1>1, <2>2, MergeGood DEF TypeInv, Timely
  <2>4. /\ GoodResult(Before(resolve)) /\ GoodTree(fs[resolve.at]) /\ Timed(fs[resolve.at], now)
        /\ clock \in Nat /\ now \in Nat
    BY <2>3, BeforeGood
  <2>5. Fine(Before(resolve), Before(resolve), now)
    BY <2>4 DEF Fine
  <2>6. resolve.type # "Del" => resolve.d.mt <= now
    BY <2>3 DEF InTime
  <2>7. Fine(Before(resolve), Apply(resolve, Before(resolve), fs[resolve.at], {}), now)
    BY <2>3, <2>4, <2>6, ApplyFine
  <2>8. Fine(Before(resolve), r, now)
    BY <2>1, <2>5, <2>7
  <2> QED
    BY <2>1, <2>2, <2>8, MadeStep
<1>6. CASE Save
  <2>1. CASE cmd = "save" /\ cmd' = "save2" /\ saved' = [saved EXCEPT !["local"] = db["local"]]
             /\ UNCHANGED <<fs, db, todo, clock, used, over>>
    <3>1. saved'["local"] = db["local"] /\ saved'["remote"] = saved["remote"]
          /\ saved' \in [Sides -> [All -> Entry \cup {None}]]
      BY <1>1, <2>1
    <3> QED
      BY <1>1, <2>1, <3>1 DEF TypeInv, Timely, now
  <2>2. CASE cmd = "save2" /\ cmd' = "idle" /\ saved' = db
             /\ UNCHANGED <<fs, db, todo, clock, used, over>>
    BY <2>2 DEF TypeInv, Timely, now
  <2> QED
    BY <1>6, <2>1, <2>2 DEF Save
<1>7. CASE Crash
  <2>1. /\ cmd' = "idle" /\ todo' = <<<<>>, <<>>>> /\ db' = saved
        /\ UNCHANGED <<fs, saved, clock, over>>
    BY <1>7 DEF Crash
  <2>2. used' \in [{"edits", "cmds", "faults"} -> Nat]
    BY <1>1, <1>7, UseGood DEF Crash, Fault
  <2>3. todo' \in Seq(Chg) \X Seq(Chg)
        /\ \A i \in 1..2 : \A k \in 1..Len(todo'[i]) : InTime(todo'[i][k], now)
    BY <2>1, NothingToDo
  <2>4. Timely'
    BY <2>1, <2>3 DEF TypeInv, Timely, now
  <2> QED
    BY <2>1, <2>2, <2>3, <2>4 DEF TypeInv
<1>8. ASSUME NEW f \in Faults \ {"crash", "torn"}, ApplyFails(f) PROVE TypeInv'
  <2>1. PICK p \in Paths : Made(resolve, Outcome(f, resolve, {p}))
    BY <1>8 DEF ApplyFails
  <2>2. ~Empty /\ resolve.type \in Failing(f)
        /\ used' \in [{"edits", "cmds", "faults"} -> Nat]
    BY <1>1, <1>8, UseGood DEF ApplyFails, Applying, Fault
  <2>3. resolve \in Chg /\ InTime(resolve, now)
    BY <1>1, <2>2, MergeGood DEF TypeInv, Timely
  <2>4. Fine(Before(resolve), Outcome(f, resolve, {p}), now)
    BY <2>2, <2>3, OutcomeFine
  <2> QED
    BY <2>1, <2>2, <2>4, MadeStep
<1>9. CASE UNCHANGED vars
  BY <1>9 DEF vars, TypeInv, Timely, now
<1> QED
  BY <1>2, <1>3, <1>4, <1>5, <1>6, <1>7, <1>8, <1>9 DEF Next

\* Whatever is edited, run and fails, replicas and databases are trees of
\* files, and what is to be done are changes.
THEOREM TypeCorrect == Spec => []TypeOK
<1>1. Spec => []TypeInv
  BY InitGood, NextKeepsTypes, PTL DEF Spec
<1> QED
  BY <1>1, TypeInvOK, PTL

-----------------------------------------------------------------------------
(* Nothing to sync: the databases say the same of both replicas, and files *)
(* of the same time have the same data.                                    *)

Known ==
    /\ db["local"] = db["remote"]
    /\ cmd \in {"save", "save2"} => Empty
    /\ cmd # "save2" => saved["local"] = saved["remote"]
Agreed(t, u, p) ==
    TypeAt(t, p) = "-" /\ TypeAt(u, p) = "-" /\ t[p].mt = u[p].mt => t[p].v = u[p].v
Agree == \A s \in Sides : \A p \in Paths \ over : Agreed(fs[s], fs[Other(s)], p)
QuietInv == TypeInv /\ Known /\ Agree

LEMMA Symmetric == \A t, u, p : Agreed(t, u, p) => Agreed(u, t, p)
BY DEF Agreed

LEMMA InitQuiet == Init => QuietInv
<1> SUFFICES ASSUME Init PROVE QuietInv
  OBVIOUS
<1>1. TypeInv
  BY InitGood
<1>2. Sides = {"local", "remote"} /\ cmd = "idle" /\ db = saved /\ saved = [s \in Sides |-> Scan(s)]
  BY DEF Init, Sides
<1>3. fs["local"] = fs["remote"]
  BY DEF Init, Sides
<1>4. Scan("local") = Scan("remote")
  BY <1>3 DEF Scan
<1>5. Known
  BY <1>2, <1>4 DEF Known
<1>6. \A s \in Sides : fs[s] = fs[Other(s)]
  BY <1>2, <1>3, OtherFacts
<1>7. Agree
  BY <1>6 DEF Agree, Agreed
<1> QED
  BY <1>1, <1>5, <1>7 DEF QuietInv

\* What users write is of a time that no other file has.
LEMMA EditQuiet ==
    ASSUME QuietInv, NEW s \in Sides, NEW p \in Paths, NEW kind \in Edits, UserEdits(s, p, kind)
    PROVE  QuietInv'
<1>1. /\ TypeInv' /\ GoodTree(fs'[s]) /\ Edited(fs[s], fs'[s], clock')
      /\ \A x \in Sides : x # s => fs'[x] = fs[x]
      /\ clock' = clock + 2 /\ clock \in Nat
  BY EditStep DEF QuietInv
<1>2. UNCHANGED <<saved, db, cmd, todo, over>>
  BY DEF UserEdits
<1>3. Known'
  BY <1>2 DEF QuietInv, Known, Empty
<1> DEFINE t == fs[s]
           n == fs'[s]
           u == fs[Other(s)]
<1>4. /\ Other(s) \in Sides /\ fs'[Other(s)] = u /\ Other(Other(s)) = s
      /\ \A x \in Sides : x = s \/ x = Other(s)
  BY <1>1, OtherFacts
<1>5. Timed(u, now) /\ u \in [All -> File \cup {None}] /\ t \in [All -> File \cup {None}]
      /\ n \in [All -> File \cup {None}]
  BY <1>1, <1>4 DEF QuietInv, TypeInv, Timely, GoodTree
<1> HIDE DEF t, n, u
<1>6. ASSUME NEW q \in Paths \ over PROVE Agreed(n, u, q)
  <2> SUFFICES ASSUME TypeAt(n, q) = "-", TypeAt(u, q) = "-", n[q].mt = u[q].mt
               PROVE  n[q].v = u[q].v
    BY DEF Agreed
  <2>1. q \in All
    BY AllAreSeqs
  <2>2. n[q] # None /\ u[q] # None /\ u[q] \in File /\ n[q].type = "-"
    BY <1>5, <2>1, FileFacts
  <2>3. u[q].mt <= clock + 1 /\ u[q].mt \in Nat
    BY <1>5, <2>1, <2>2 DEF Timed, now, File
  <2>4. n[q].mt # clock'
    BY <1>1, <2>3
  <2>5. t[q] # None /\ t[q].type = "-" /\ n[q].v = t[q].v /\ n[q].mt = t[q].mt
    BY <1>1, <2>1, <2>2, <2>4 DEF Edited, t, n
  <2>6. TypeAt(t, q) = "-"
    BY <1>5, <2>1, <2>5, FileFacts
  <2>7. Agreed(t, u, q)
    BY DEF QuietInv, Agree, t, u
  <2> QED
    BY <2>5, <2>6, <2>7 DEF Agreed
<1>7. ASSUME NEW x \in Sides, NEW q \in Paths \ over' PROVE Agreed(fs'[x], fs'[Other(x)], q)
  <2>1. Agreed(n, u, q) /\ Agreed(u, n, q)
    BY <1>2, <1>6, Symmetric
  <2>2. CASE x = s
    BY <1>4, <2>1, <2>2 DEF n
  <2>3. CASE x = Other(s)
    BY <1>4, <2>1, <2>3 DEF n
  <2> QED
    BY <1>4, <2>2, <2>3
<1>8. Agree'
  BY <1>7 DEF Agree
<1> QED
  BY <1>1, <1>3, <1>8 DEF QuietInv

\* A change that was made leaves data of the source, or is told of in over.
LEMMA MadeQuiet ==
    ASSUME QuietInv, ~Empty, NEW r, Fine(Before(resolve), r, now), Made(resolve, r),
           r = Before(resolve) \/ resolve.type = "Meta"
           \/ Copied(fs[Target(resolve)], r.fs, fs[resolve.at]),
           used' \in [{"edits", "cmds", "faults"} -> Nat]
    PROVE  QuietInv'
<1> DEFINE c == resolve
           t == fs[Target(resolve)]
           n == r.fs
           u == fs[resolve.at]
<1>1. TypeInv' /\ fs'[Target(c)] = n /\ fs'[c.at] = u
  BY MadeStep DEF QuietInv
<1>2. c \in Chg
  BY MergeGood DEF QuietInv, TypeInv
<1> HIDE DEF c
<1>3. /\ Target(c) \in Sides /\ c.at \in Sides /\ Target(c) # c.at
      /\ \A x \in Sides : x = c.at \/ x = Target(c)
      /\ Before(c).fs = t /\ Before(c).ldb = db[Target(c)] /\ Before(c).rdb = db[c.at]
  BY <1>2, BeforeGood DEF QuietInv, c
<1>4. Other(Target(c)) = c.at /\ Other(c.at) = Target(c)
  BY <1>3, OtherFacts
<1>5. r.ldb = r.rdb
  <2>1. Before(c).ldb = Before(c).rdb
    BY <1>3 DEF QuietInv, Known, Sides
  <2> QED
    BY <2>1 DEF Fine, c
<1>6. Known'
  <2>1. /\ db' = [s \in Sides |-> IF s = c.at THEN r.rdb ELSE r.ldb]
        /\ cmd \notin {"save", "save2"} /\ saved' = saved /\ todo' = merge
        /\ cmd' = IF merge = <<<<>>, <<>>>> THEN "save" ELSE cmd
    BY DEF Made, c, QuietInv, Known
  <2>2. db'["local"] = db'["remote"]
    BY <1>5, <2>1 DEF Sides
  <2> QED
    BY <2>1, <2>2 DEF QuietInv, Known, Empty
<1>7. u \in [All -> File \cup {None}] /\ n \in [All -> File \cup {None}]
  <2>1. GoodTree(fs[c.at]) /\ GoodResult(r)
    BY <1>2, BeforeGood DEF QuietInv, Fine, c
  <2> QED
    BY <2>1 DEF GoodResult, GoodTree, c
<1>8. \A q \in Paths \ over : Agreed(t, u, q)
  BY <1>3, <1>4 DEF QuietInv, Agree, c
<1>9. over' = {q \in Paths :
            IF n[q] = t[q] THEN q \in over
            ELSE c.type = "Meta" /\ TypeAt(n, q) = "-" /\ n[q].v # DataOf(u, q)}
  BY DEF Made, Over, c
<1>10. n = t \/ c.type = "Meta" \/ Copied(t, n, u)
  BY <1>3 DEF c
<1> HIDE DEF t, n, u
<1>11. ASSUME NEW q \in Paths \ over' PROVE Agreed(n, u, q)
  <2> SUFFICES ASSUME TypeAt(n, q) = "-", TypeAt(u, q) = "-"
               PROVE  n[q].v = u[q].v \/ Agreed(n, u, q)
    BY DEF Agreed
  <2>1. q \in All /\ n[q] # None /\ n[q].type # "d" /\ DataOf(u, q) = u[q].v
    BY <1>7, AllAreSeqs, FileFacts DEF DataOf
  <2>2. CASE n[q] = t[q]
    <3>1. Agreed(t, u, q)
      BY <1>8, <1>9, <2>2
    <3> QED
      BY <2>2, <3>1 DEF Agreed, TypeAt
  <2>3. CASE n[q] # t[q] /\ c.type = "Meta"
    BY <1>9, <2>1, <2>3
  <2>4. CASE n[q] # t[q] /\ Copied(t, n, u)
    BY <2>1, <2>4 DEF Copied
  <2> QED
    BY <1>10, <2>2, <2>3, <2>4
<1>12. ASSUME NEW x \in Sides, NEW q \in Paths \ over' PROVE Agreed(fs'[x], fs'[Other(x)], q)
  <2>1. Agreed(n, u, q) /\ Agreed(u, n, q)
    BY <1>11, Symmetric
  <2> QED
    BY <1>1, <1>3, <1>4, <2>1
<1>13. Agree'
  BY <1>12 DEF Agree
<1> QED
  BY <1>1, <1>6, <1>13 DEF QuietInv

LEMMA NextKeepsQuiet ==
    ASSUME Faults \subseteq {"none", "lost", "crash"}
    PROVE  QuietInv /\ [Next]_vars => QuietInv'
<1> SUFFICES ASSUME QuietInv, [Next]_vars PROVE QuietInv'
  OBVIOUS
<1>1. /\ TypeInv /\ TypeInv' /\ Known /\ Agree
      /\ todo \in Seq(Chg) \X Seq(Chg) /\ used \in [{"edits", "cmds", "faults"} -> Nat]
      /\ saved \in [Sides -> [All -> Entry \cup {None}]]
      /\ Sides = {"local", "remote"}
  BY NextKeepsTypes DEF QuietInv, TypeInv, Sides
<1>2. ASSUME NEW s \in Editors, NEW p \in Paths, NEW kind \in Edits, UserEdits(s, p, kind)
      PROVE  QuietInv'
  <2>1. s \in Sides
    BY <1>1, ReplAssumption DEF ReplAssumption
  <2> QED
    BY <1>2, <2>1, EditQuiet
<1>3. ASSUME UNCHANGED <<fs, over>>, Known' PROVE QuietInv'
  BY <1>1, <1>3 DEF QuietInv, Agree
<1>4. ASSUME NEW c \in {"sync"} \cup Commands, Run(c) PROVE QuietInv'
  <2>1. cmd = "idle" /\ cmd' = c /\ db' = saved /\ UNCHANGED <<fs, saved, over>>
        /\ c \notin {"save", "save2"}
    BY <1>4, ReplAssumption DEF ReplAssumption, Run
  <2> QED
    BY <1>1, <1>3, <2>1 DEF Known
<1>5. CASE ApplyAll
  <2>1. PICK r : /\ r = IF resolve.at \in From(cmd)
                        THEN Apply(resolve, Before(resolve), fs[resolve.at], {}) ELSE Before(resolve)
                 /\ Made(resolve, r)
    BY <1>5 DEF ApplyAll
  <2>2. ~Empty /\ used' \in [{"edits", "cmds", "faults"} -> Nat]
    BY <1>1, <1>5 DEF ApplyAll
  <2>3. resolve \in Chg /\ InTime(resolve, now)
    BY <1>1, <2>2, MergeGood DEF TypeInv, Timely
  <2>4. /\ GoodResult(Before(resolve)) /\ GoodTree(fs[resolve.at]) /\ Timed(fs[resolve.at], now)
        /\ clock \in Nat /\ now \in Nat /\ Before(resolve).fs = fs[Target(resolve)]
    BY <1>1, <2>3, BeforeGood
  <2>5. Fine(Before(resolve), Before(resolve), now)
    BY <2>4 DEF Fine
  <2>6. resolve.type # "Del" => resolve.d.mt <= now
    BY <2>3 DEF InTime
  <2> DEFINE a == Apply(resolve, Before(resolve), fs[resolve.at], {})
  <2>7. /\ Fine(Before(resolve), a, now)
        /\ resolve.type # "Meta" => Copied(fs[Target(resolve)], a.fs, fs[resolve.at])
    BY <2>3, <2>4, <2>6, ApplyFine
  <2>8. r = Before(resolve) \/ r = a
    BY <2>1
  <2> HIDE DEF a
  <2>9. /\ Fine(Before(resolve), r, now)
        /\ \/ r = Before(resolve) \/ resolve.type = "Meta"
           \/ Copied(fs[Target(resolve)], r.fs, fs[resolve.at])
    BY <2>5, <2>7, <2>8
  <2> QED
    BY <2>1, <2>2, <2>9, MadeQuiet
<1>6. CASE Save
  <2>1. CASE cmd = "save"
    <3>1. cmd' = "save2" /\ UNCHANGED <<fs, db, todo, over>>
      BY <1>6, <2>1 DEF Save
    <3> QED
      BY <1>1, <1>3, <2>1, <3>1 DEF Known, Empty
  <2>2. CASE cmd # "save"
    <3>1. cmd' = "idle" /\ saved' = db /\ UNCHANGED <<fs, db, todo, over>>
      BY <1>6, <2>2 DEF Save
    <3> QED
      BY <1>1, <1>3, <3>1 DEF Known
  <2> QED
    BY <2>1, <2>2
<1>7. CASE Crash
  <2>1. /\ cmd' = "idle" /\ db' = saved /\ UNCHANGED <<fs, saved, over>>
        /\ (IF cmd = "save2" THEN "torn" ELSE "crash") \in Faults
    BY <1>7 DEF Crash, Fault
  <2>2. cmd # "save2"
    BY <2>1
  <2> QED
    BY <1>1, <1>3, <2>1, <2>2 DEF Known
<1>8. ASSUME NEW f \in Faults \ {"crash", "torn"}, ApplyFails(f) PROVE QuietInv'
  <2>1. PICK p \in Paths : Made(resolve, Outcome(f, resolve, {p}))
    BY <1>8 DEF ApplyFails
  <2>2. ~Empty /\ resolve.type \in Failing(f) /\ f \in {"none", "lost"}
        /\ used' \in [{"edits", "cmds", "faults"} -> Nat]
    BY <1>1, <1>8, UseGood DEF ApplyFails, Applying, Fault
  <2>3. resolve \in Chg /\ InTime(resolve, now)
    BY <1>1, <2>2, MergeGood DEF TypeInv, Timely
  <2> DEFINE r == Outcome(f, resolve, {p})
  <2>4. /\ Fine(Before(resolve), r, now)
        /\ resolve.type # "Meta" => Copied(fs[Target(resolve)], r.fs, fs[resolve.at])
    BY <1>1, <2>2, <2>3, OutcomeFine
  <2> HIDE DEF r
  <2> QED
    BY <2>1, <2>2, <2>4, MadeQuiet DEF r
<1>9. CASE UNCHANGED vars
  BY <1>1, <1>3, <1>9 DEF vars, Known, Empty
<1> QED
  BY <1>2, <1>4, <1>5, <1>6, <1>7, <1>8, <1>9 DEF Next, Sync, OtherCommand

\* Of some paths there is one that is below none of the others.
Longer == OpToRel(<, Nat)

LEMMA Uppermost ==
    ASSUME NEW B \in SUBSET All, B # {}
    PROVE  \E a \in B : \A b \in B : ~IsStrictPrefix(b, a)
<1> DEFINE T == {Len(b) : b \in B}
<1>1. T \in SUBSET Nat /\ T # {}
  BY AllAreSeqs
<1>2. IsWellFoundedOn(Longer, Nat)
  BY NatLessThanWellFounded DEF Longer
<1>3. PICK x \in T : \A y \in T : ~(<<y, x>> \in Longer)
  BY <1>1, <1>2, WFMin
<1>4. PICK a \in B : x = Len(a)
  BY <1>3
<1>5. ASSUME NEW b \in B, IsStrictPrefix(b, a) PROVE FALSE
  <2>1. Len(b) \in T /\ Len(b) \in Nat /\ Len(a) \in Nat /\ Len(b) < Len(a)
    BY <1>5, AllAreSeqs, PrefixFacts
  <2>2. <<Len(b), x>> \in Longer
    BY <1>4, <2>1 DEF Longer, OpToRel
  <2> QED
    BY <1>3, <2>1, <2>2
<1> QED
  BY <1>5

\* A file is in a directory that is in a directory, up to the root.
LEMMA AboveAreDirs ==
    ASSUME NEW t, GoodTree(t)
    PROVE  \A p, a \in All : t[p] # None /\ IsStrictPrefix(a, p) => IsDir(t, a)
<1> DEFINE B == {p \in All : t[p] # None /\ \E a \in All : IsStrictPrefix(a, p) /\ ~IsDir(t, a)}
<1> SUFFICES ASSUME B # {} PROVE FALSE
  OBVIOUS
<1>1. PICK p \in B : \A q \in B : ~IsStrictPrefix(q, p)
  BY Uppermost
<1>2. PICK a \in All : IsStrictPrefix(a, p) /\ ~IsDir(t, a)
  BY <1>1
<1>3. p \in All /\ t[p] # None
  BY <1>1
<1>4. p \in Paths
  BY <1>2, <1>3, PrefixFacts DEF All, IsStrictPrefix
<1>5. Front(p) \in All /\ IsDir(t, Front(p)) /\ t \in [All -> File \cup {None}]
      /\ IsStrictPrefix(Front(p), p)
  BY <1>3, <1>4, FrontFacts, PrefixFacts DEF GoodTree, IsStrictPrefix
<1>6. IsStrictPrefix(a, Front(p))
  BY <1>2, <1>4, <1>5, PrefixFacts DEF IsStrictPrefix
<1>7. t[Front(p)] # None
  BY <1>5, FileFacts
<1>8. Front(p) \in B
  BY <1>2, <1>5, <1>6, <1>7
<1> QED
  BY <1>1, <1>5, <1>8

TypeOf(s, p) == ChgType(saved[s][p], Scan(s)[p])

\* With nothing to sync, a path on which all is known is as it was.
LEMMA WalkedAreSame ==
    ASSUME NEW s \in Sides, changed(saved[s], Scan(s)) = {}, NEW p \in All,
           TypeOf(s, <<>>) \in {"same", "Meta"},
           \A a \in All : IsPrefix(a, p) => TypeOf(s, a) # "ignored",
           \A a \in All : IsStrictPrefix(a, p) /\ TypeOf(s, a) \in {"same", "Meta"}
                => IsDir(Scan(s), a)
    PROVE  /\ \A a \in All : IsPrefix(a, p) => TypeOf(s, a) \in {"same", "Meta"}
           /\ p \in Paths => TypeOf(s, p) = "same"
<1>1. ASSUME NEW a \in Paths, IsPrefix(a, p),
             \A b \in All : IsStrictPrefix(b, a) => TypeOf(s, b) \in {"same", "Meta"}
      PROVE  TypeOf(s, a) = "same"
  <2>1. a \in All
    BY AllAreSeqs
  <2>2. ASSUME NEW b \in All, IsStrictPrefix(b, a) PROVE IsDir(Scan(s), b)
    <3>1. IsPrefix(b, a) /\ Len(b) < Len(a)
      BY <2>1, <2>2, PrefixFacts DEF IsStrictPrefix
    <3>2. IsPrefix(b, p)
      BY <1>1, <2>1, <3>1, PrefixFacts
    <3>3. b # p
      <4> SUFFICES ASSUME b = p PROVE FALSE
        OBVIOUS
      <4>1. a = p \/ Len(a) < Len(p)
        BY <1>1, <2>1, PrefixFacts DEF IsStrictPrefix
      <4> QED
        BY <2>1, <3>1, <4>1, AllAreSeqs
    <3> QED
      BY <1>1, <2>2, <3>2, <3>3 DEF IsStrictPrefix
  <2>3. a \notin changed(saved[s], Scan(s))
    OBVIOUS
  <2>4. TypeOf(s, a) \in {"same", "ignored"}
    BY <1>1, <2>2, <2>3, ChangedFacts DEF TypeOf
  <2> QED
    BY <1>1, <2>1, <2>4
<1> DEFINE B == {a \in All : IsPrefix(a, p) /\ TypeOf(s, a) \notin {"same", "Meta"}}
<1>2. ASSUME B # {} PROVE FALSE
  <2>1. PICK a \in B : \A b \in B : ~IsStrictPrefix(b, a)
    BY <1>2, Uppermost
  <2>2. a \in Paths /\ IsPrefix(a, p)
    BY <2>1 DEF All
  <2>3. ASSUME NEW b \in All, IsStrictPrefix(b, a) PROVE TypeOf(s, b) \in {"same", "Meta"}
    <3>1. IsPrefix(b, p)
      BY <2>2, <2>3, AllAreSeqs, PrefixFacts DEF IsStrictPrefix
    <3> QED
      BY <2>1, <2>3, <3>1
  <2> QED
    BY <1>1, <2>1, <2>2, <2>3
<1>3. \A a \in All : IsPrefix(a, p) => TypeOf(s, a) \in {"same", "Meta"}
  BY <1>2
<1>4. ASSUME p \in Paths PROVE TypeOf(s, p) = "same"
  BY <1>1, <1>3, <1>4, PrefixFacts DEF IsStrictPrefix
<1> QED
  BY <1>3, <1>4

LEMMA QuietInvSame == QuietInv => QuietIsSame
<1> SUFFICES ASSUME QuietInv, Quiet, NEW p \in Paths, ~Ignored(p), p \notin over PROVE Same(p)
  BY DEF QuietIsSame
<1>1. /\ \A s \in Sides : /\ GoodTree(fs[s]) /\ GoodDB(saved[s])
                           /\ fs[s] \in [All -> File \cup {None}]
                           /\ saved[s] \in [All -> Entry \cup {None}]
                           /\ Scan(s) \in [All -> Entry \cup {None}]
                           /\ changed(saved[s], Scan(s)) = {}
      /\ p \in All /\ <<>> \in All
  <2>1. \A s \in Sides : GoodTree(fs[s]) /\ fs[s] \in [All -> File \cup {None}]
    BY DEF QuietInv, TypeInv
  <2> QED
    BY <2>1, AllAreSeqs, ScanFacts DEF QuietInv, TypeInv, GoodDB, Quiet
<1>2. \A s \in Sides : saved[s] = saved[Other(s)]
  <2>1. saved["local"] = saved["remote"]
    BY DEF QuietInv, Known, Quiet
  <2> QED
    BY <2>1, OtherFacts DEF Sides
<1>3. ASSUME NEW s \in Sides PROVE TypeOf(s, <<>>) \in {"same", "Meta"}
  <2> DEFINE d0 == saved[s][<<>>]
             d1 == Scan(s)[<<>>]
  <2>1. d0 # None /\ d0.type = "d" /\ ~d0.rm /\ ~d0.err
    BY <1>1 DEF GoodDB
  <2>2. fs[s][<<>>] # None /\ fs[s][<<>>].type = "d"
    BY <1>1, FileFacts DEF GoodTree
  <2>3. d1 # None /\ d1.type = "d"
    BY <1>1, <2>2, ScanFacts
  <2> HIDE DEF d0, d1
  <2>4. ChgType(d0, d1) \in {"same", "Meta"}
    BY <2>1, <2>3 DEF ChgType
  <2> QED
    BY <2>4 DEF TypeOf, d0, d1
<1>4. ASSUME NEW s \in Sides, fs[s][p] # None PROVE Same(p)
  <2> DEFINE o == Other(s)
  <2>1. o \in Sides /\ saved[o] = saved[s]
    BY <1>2, OtherFacts
  <2>2. ASSUME NEW a \in All, IsPrefix(a, p)
        PROVE  TypeOf(s, a) # "ignored" /\ (a # p => IsDir(Scan(s), a))
    <3>1. a # p => IsDir(fs[s], a)
      BY <1>1, <1>4, <2>2, AboveAreDirs DEF IsStrictPrefix
    <3>2. fs[s][a] # None
      BY <1>1, <1>4, <3>1, FileFacts
    <3>3. Scan(s)[a] # None /\ (a # p => IsDir(Scan(s), a))
      BY <1>1, <3>1, <3>2, ScanFacts
    <3>4. saved[s][a] # None => ~saved[s][a].err
      BY <2>2 DEF Ignored
    <3>5. saved[s][a] \in Entry \cup {None} /\ Scan(s)[a] \in Entry \cup {None}
      BY <1>1
    <3> QED
      BY <3>3, <3>4, <3>5, ChgTypeFacts DEF TypeOf
  <2>3. /\ \A a \in All : IsPrefix(a, p) => TypeOf(s, a) \in {"same", "Meta"}
        /\ TypeOf(s, p) = "same"
    BY <1>1, <1>3, <2>2, WalkedAreSame DEF IsStrictPrefix
  <2>4. ASSUME NEW a \in All, IsPrefix(a, p)
        PROVE  /\ TypeOf(o, a) # "ignored"
               /\ a # p /\ TypeOf(o, a) \in {"same", "Meta"} => IsDir(Scan(o), a)
    <3>1. TypeOf(s, a) \in {"same", "Meta"} /\ (a # p => IsDir(Scan(s), a))
      BY <2>2, <2>3, <2>4
    <3>2. /\ saved[o][a] \in Entry \cup {None} /\ Scan(o)[a] \in Entry \cup {None}
          /\ Scan(s)[a] \in Entry \cup {None}
      BY <1>1, <2>1
    <3>3. /\ saved[o][a] # None /\ ~saved[o][a].rm /\ ~saved[o][a].err
          /\ saved[o][a].type = Scan(s)[a].type
      BY <2>1, <3>1, <3>2, ChgTypeFacts DEF TypeOf
    <3>4. TypeOf(o, a) # "ignored"
      BY <3>2, <3>3, ChgTypeFacts DEF TypeOf
    <3>5. ASSUME a # p, TypeOf(o, a) \in {"same", "Meta"} PROVE IsDir(Scan(o), a)
      <4>1. saved[o][a].type = Scan(o)[a].type /\ Scan(o)[a] # None
        BY <3>2, <3>5, ChgTypeFacts DEF TypeOf
      <4>2. Scan(s)[a].type = "d"
        BY <3>1, <3>5 DEF IsDir, TypeAt
      <4> QED
        BY <3>3, <4>1, <4>2 DEF IsDir, TypeAt
    <3> QED
      BY <3>4, <3>5
  <2>5. TypeOf(o, p) = "same"
    BY <1>1, <1>3, <2>1, <2>4, WalkedAreSame DEF IsStrictPrefix
  <2>6. /\ saved[o][p] \in Entry \cup {None} /\ Scan(o)[p] \in Entry \cup {None}
        /\ Scan(s)[p] \in Entry \cup {None}
    BY <1>1, <2>1
  <2>7. /\ Scan(o)[p] # None /\ Scan(o)[p].type = Scan(s)[p].type
        /\ Scan(o)[p].mode = Scan(s)[p].mode
        /\ Scan(s)[p].type = "-" => Scan(o)[p].mt = Scan(s)[p].mt
    BY <2>1, <2>3, <2>5, <2>6, ChgTypeFacts DEF TypeOf
  <2> DEFINE x == fs[s][p]
             y == fs[o][p]
  <2>8. /\ x \in File /\ y \in File /\ x # None /\ y # None
        /\ x.type = y.type /\ x.mode = y.mode /\ (x.type = "-" => x.mt = y.mt)
    BY <1>1, <1>4, <2>1, <2>7, ScanFacts
  <2>9. x.v = y.v
    <3>1. CASE x.type = "-"
      <4>1. Agreed(fs[s], fs[o], p)
        BY DEF QuietInv, Agree
      <4>2. TypeAt(fs[s], p) = "-" /\ TypeAt(fs[o], p) = "-"
        BY <2>8, <3>1 DEF TypeAt
      <4> QED
        BY <2>8, <3>1, <4>1, <4>2 DEF Agreed
    <3>2. CASE x.type = "d"
      <4>1. IsDir(fs[s], p) /\ IsDir(fs[o], p)
        BY <2>8, <3>2 DEF IsDir, TypeAt
      <4>2. x.v = 0 /\ y.v = 0
        BY <1>1, <2>1, <4>1 DEF GoodTree
      <4> QED
        BY <4>2
    <3>3. x.type \in {"-", "d"}
      BY <2>8 DEF File
    <3> QED
      BY <3>1, <3>2, <3>3
  <2>10. {fs["local"][p], fs["remote"][p]} = {x, y}
    BY OtherFacts DEF Sides
  <2> HIDE DEF x, y
  <2> QED
    BY <2>8, <2>9, <2>10 DEF Same
<1>5. CASE fs["local"][p] = None /\ fs["remote"][p] = None
  BY <1>5 DEF Same
<1> QED
  BY <1>4, <1>5 DEF Sides

\* When there is nothing to sync the replicas are the same, but for the paths
\* told of: whatever is edited, with commands that crash, or changes that are
\* not made or not known to be, the databases never hide a difference.
THEOREM QuietMeansSame ==
    ASSUME Faults \subseteq {"none", "lost", "crash"}
    PROVE  Spec => []QuietIsSame
<1>1. Init => QuietInv
  BY InitQuiet
<1>2. QuietInv /\ [Next]_vars => QuietInv'
  BY NextKeepsQuiet
<1>3. QuietInv => QuietIsSame
  BY QuietInvSame
<1> QED
  BY <1>1, <1>2, <1>3, PTL DEF Spec
=============================================================================
