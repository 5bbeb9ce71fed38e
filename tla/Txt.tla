-------------------------------- MODULE Txt ---------------------------------
(***************************************************************************)
(* txt: a text kept in pieces, with marks, undo and redo (NewEditing), and *)
(* a cached position for Getc.  Every operation locks the text: it is one  *)
(* step.  Runes are all different, so that they can be followed.  Nothing  *)
(* is inserted or deleted that has no runes, which may leave empty pieces. *)
(***************************************************************************)
EXTENDS Integers, SequencesExt

CONSTANTS
    Names,      \* names of marks
    PieceMax,   \* pieces of this size or more are not added to at the end (512)
    EditMax,    \* nor edits (1024)
    MaxIns,     \* bound: runes inserted at once
    MaxDel,     \* bound: runes deleted at once
    MaxRunes,   \* bound: runes inserted, in all
    MaxVers     \* bound: changes made to the text

ASSUME TxtAssumption ==
    {PieceMax, EditMax, MaxIns, MaxDel, MaxRunes, MaxVers} \subseteq Nat

VARIABLES
    data,       \* the pieces
    sz,         \* number of runes
    edits,      \* the edits made, and those undone
    nedits,     \* edits applied in edits
    marks,      \* offsets, -1 if there is no such mark
    seek,       \* where Getc was
    contd,      \* the next edit is part of the last one
    vers,       \* changes made
    nrunes      \* runes inserted so far

vars == <<data, sz, edits, nedits, marks, seek, contd, vers, nrunes>>

Edit == [op: {"ins", "del"}, off: Nat, data: Seq(Nat), contd: BOOLEAN]
Text == FlattenSeq(data)

\* Every variable keeps to its type; no piece is empty, sz is the size of
\* the text, and marks are in it.
TypeOK ==
    /\ data \in Seq(Seq(1..MaxRunes) \ {<<>>})
    /\ sz = Len(Text)
    /\ edits \in Seq(Edit)
    /\ nedits \in 0..Len(edits)
    /\ marks \in [Names -> -1..sz]
    /\ seek \in [off: Nat \cup {-2}, i: Nat, n: Nat]
    /\ contd \in BOOLEAN
    /\ {vers, nrunes} \subseteq Nat

Init ==
    /\ data = <<>> /\ sz = 0
    /\ edits = <<>> /\ nedits = 0
    /\ marks = [m \in Names |-> -1]
    /\ seek = [off |-> -2, i |-> 1, n |-> 1]
    /\ contd = FALSE
    /\ vers = 0 /\ nrunes = 0

-----------------------------------------------------------------------------
(* Pieces.                                                                 *)

Start(d, i) == Len(FlattenSeq(SubSeq(d, 1, i - 1)))

\* At the end the last piece is extended, if small; elsewhere a piece that off
\* is in, or at the end of, is split and extended.
ins(d, size, new, off) ==
    IF off = size
    THEN IF d # <<>> /\ Len(Last(d)) < PieceMax
         THEN Append(Front(d), Last(d) \o new) ELSE Append(d, new)
    ELSE LET i == CHOOSE i \in 1..Len(d) :
                    /\ off - Start(d, i) <= Len(d[i])
                    /\ \A j \in 1..(i - 1) : off - Start(d, j) > Len(d[j])
             k == off - Start(d, i)
             rest == SubSeq(d[i], k + 1, Len(d[i]))
         IN  SubSeq(d, 1, i - 1) \o <<SubSeq(d[i], 1, k) \o new>>
                \o (IF rest = <<>> THEN <<>> ELSE <<rest>>) \o SubSeq(d, i + 1, Len(d))

\* Runes off+1 to off+n are dropped, and so are the pieces that have no more.
Cut(d, off, n) ==
    [i \in 1..Len(d) |->
        LET first == Start(d, i)
            at(x) == IF x < first THEN 0 ELSE IF x > first + Len(d[i]) THEN Len(d[i]) ELSE x - first
        IN  SubSeq(d[i], 1, at(off)) \o SubSeq(d[i], at(off + n) + 1, Len(d[i]))]
delKeeps(d, off, n) == Cut(d, off, n)
del(d, off, n) ==
    LET cut == Cut(d, off, n)
        kept[i \in 0..Len(cut)] ==
            IF i = 0 THEN <<>>
            ELSE IF cut[i] = <<>> THEN kept[i - 1] ELSE Append(kept[i - 1], cut[i])
    IN  kept[Len(cut)]
Deleted(off, n) == SubSeq(Text, off + 1, IF off + n < sz THEN off + n ELSE sz)

\* The runes of a text, once an edit is made.
InsAt(s, off, new) == SubSeq(s, 1, off) \o new \o SubSeq(s, off + 1, Len(s))
DelAt(s, off, n) == SubSeq(s, 1, off) \o SubSeq(s, off + n + 1, Len(s))

-----------------------------------------------------------------------------
(* Marks, edits, and what every change does.                               *)

pins(old, p, n) == IF old < p THEN old ELSE old + n
pdelPast(old, p0, p1) == IF old < p1 THEN old ELSE old - (p1 - p0)
pdel(old, p0, p1) == IF old < p0 THEN old ELSE IF old < p1 THEN p0 ELSE old - (p1 - p0)

\* A mark where the text is inserted stays before it, but for that of MarkIns.
markins(p0, n, mark) ==
    [m \in Names |-> IF marks[m] # p0 \/ m = mark THEN pins(marks[m], p0, n) ELSE marks[m]]
markdel(p0, p1) == [m \in Names |-> pdel(marks[m], p0, p1)]

\* Edits undone are dropped; an edit that goes on where the last one ended is
\* added to it, unless it is too long.
Joins(e, op, off) == e.op = op /\ e.off + Len(e.data) = off /\ Len(e.data) < EditMax
addEditKept(op, off, new, same) ==
    IF nedits > 0 /\ Joins(edits[nedits], op, off)
    THEN [edits EXCEPT ![nedits].data = @ \o new]
    ELSE Append(SubSeq(edits, 1, nedits), [op |-> op, off |-> off, data |-> new, contd |-> same])
addEdit(op, off, new, same) ==
    LET done == SubSeq(edits, 1, nedits) IN
    IF nedits > 0 /\ Joins(edits[nedits], op, off)
    THEN [done EXCEPT ![nedits].data = @ \o new]
    ELSE Append(done, [op |-> op, off |-> off, data |-> new, contd |-> same])

Changed == vers < MaxVers /\ vers' = vers + 1
invalidateNot == seek
invalidate == [seek EXCEPT !.off = -2]

\* The text is changed, but neither edits nor contd are.
DoIns(new, off, mark) ==
    /\ data' = ins(data, sz, new, off)
    /\ sz' = sz + Len(new)
    /\ marks' = markins(off, Len(new), mark)
    /\ seek' = invalidate
DoDel(off, n) ==
    /\ data' = del(data, off, n)
    /\ sz' = sz - Len(Deleted(off, n))
    /\ marks' = markdel(off, off + Len(Deleted(off, n)))
    /\ seek' = invalidate

Noted(op, off, new) ==
    /\ edits' = addEdit(op, off, new, contd)
    /\ nedits' = Len(edits')
    /\ contd' = FALSE

-----------------------------------------------------------------------------
(* Operations.                                                             *)

New(n) == [i \in 1..n |-> nrunes + i]
CanIns(n) == nrunes + n <= MaxRunes /\ nrunes' = nrunes + n

Ins(n, off) ==
    /\ off <= sz
    /\ Changed /\ CanIns(n)
    /\ DoIns(New(n), off, "none")
    /\ Noted("ins", off, New(n))
\* A text can't have holes.
InsFails(off) ==
    /\ off > sz
    /\ contd' = FALSE /\ seek' = invalidate
    /\ UNCHANGED <<data, sz, edits, nedits, marks, vers, nrunes>>

MarkIns(m, n) ==
    /\ marks[m] # -1
    /\ Changed /\ CanIns(n)
    /\ DoIns(New(n), marks[m], m)
    /\ Noted("ins", marks[m], New(n))

Del(off, n) ==
    /\ Changed
    /\ DoDel(off, n)
    /\ Noted("del", off, Deleted(off, n))
    /\ UNCHANGED nrunes

\* The n runes before the mark, or those there are.
MarkedFrom(m, n) == IF n > marks[m] THEN 0 ELSE marks[m] - n
MarkDel(m, n) ==
    /\ marks[m] > 0
    /\ Del(MarkedFrom(m, n), marks[m] - MarkedFrom(m, n))

DelAll ==
    /\ Changed
    /\ UNCHANGED nrunes
    /\ IF sz = 0 THEN contd' = FALSE /\ UNCHANGED <<data, sz, edits, nedits, marks, seek>>
       ELSE DoDel(0, sz) /\ Noted("del", 0, Text)

Undo ==
    /\ nedits > 0
    /\ Changed
    /\ LET e == edits[nedits] IN
       IF e.op = "ins" THEN DoDel(e.off, Len(e.data)) ELSE DoIns(e.data, e.off, "none")
    /\ nedits' = nedits - 1
    /\ UNCHANGED <<edits, contd, nrunes>>

Redo ==
    /\ nedits < Len(edits)
    /\ Changed
    /\ LET e == edits[nedits + 1] IN
       IF e.op = "ins" THEN DoIns(e.data, e.off, "none") ELSE DoDel(e.off, Len(e.data))
    /\ nedits' = nedits + 1
    /\ UNCHANGED <<edits, contd, nrunes>>

DropEdits ==
    /\ edits' = <<>> /\ nedits' = 0 /\ contd' = FALSE
    /\ UNCHANGED <<data, sz, marks, seek, vers, nrunes>>

ContdEdit(on) ==
    /\ contd' = on
    /\ UNCHANGED <<data, sz, edits, nedits, marks, seek, vers, nrunes>>

SetMark(m, off) ==
    /\ marks' = [marks EXCEPT ![m] = off]
    /\ UNCHANGED <<data, sz, edits, nedits, seek, contd, vers, nrunes>>

\* Getc, when it can step from where it was, or has to look for off.
Back == IF seek.n > 1 THEN [off |-> seek.off - 1, i |-> seek.i, n |-> seek.n - 1]
        ELSE IF seek.i > 1
        THEN [off |-> seek.off - 1, i |-> seek.i - 1, n |-> Len(data[seek.i - 1])]
        ELSE seek
Forth == IF seek.n < Len(data[seek.i])
         THEN [off |-> seek.off + 1, i |-> seek.i, n |-> seek.n + 1]
         ELSE IF seek.i < Len(data) THEN [off |-> seek.off + 1, i |-> seek.i + 1, n |-> 1]
         ELSE seek
Look(off) ==
    LET i == CHOOSE i \in 1..Len(data) :
                /\ off - Start(data, i) < Len(data[i])
                /\ \A j \in 1..(i - 1) : off - Start(data, j) >= Len(data[j])
    IN  [off |-> off, i |-> i, n |-> off - Start(data, i) + 1]
Getc(off) ==
    /\ seek' = IF off = seek.off THEN seek
               ELSE IF off = seek.off - 1 THEN Back
               ELSE IF off = seek.off + 1 THEN Forth
               ELSE IF off >= sz THEN invalidate
               ELSE Look(off)
    /\ UNCHANGED <<data, sz, edits, nedits, marks, contd, vers, nrunes>>

\* Users do not delete just as far from the last deletion as its size: it would
\* be taken for part of it, though the runes between them are still there.
Skips(off) == nedits > 0 /\ Joins(edits[nedits], "del", off)

Next ==
    \/ \E n \in 1..MaxIns :
        \/ \E off \in 0..sz : Ins(n, off)
        \/ \E m \in Names : MarkIns(m, n)
    \/ \E n \in 1..MaxDel :
        \/ \E off \in 0..(sz - 1) : ~Skips(off) /\ Del(off, n)
        \/ \E m \in Names : ~Skips(MarkedFrom(m, n)) /\ MarkDel(m, n)
    \/ InsFails(sz + 1)
    \/ DelAll \/ Undo \/ Redo \/ DropEdits
    \/ \E on \in BOOLEAN : ContdEdit(on)
    \/ \E m \in Names, off \in -1..sz : SetMark(m, off)
    \/ \E off \in 0..sz : Getc(off)

Spec == Init /\ [][Next]_vars

-----------------------------------------------------------------------------
(* Properties.                                                             *)

\* The versions of the text that the edits tell of: what it was before those
\* made, and what it will be after those undone.
Done(s, e) ==
    IF e.op = "ins" THEN InsAt(s, e.off, e.data) ELSE DelAt(s, e.off, Len(e.data))
Undone(s, e) ==
    IF e.op = "ins" THEN DelAt(s, e.off, Len(e.data)) ELSE InsAt(s, e.off, e.data)
Version[k \in 0..Len(edits)] ==
    IF k = nedits THEN Text
    ELSE IF k < nedits THEN Undone(Version[k + 1], edits[k + 1])
    ELSE Done(Version[k - 1], edits[k])

Undoing == INSTANCE Undoable WITH
    hist <- [k \in 1..(Len(edits) + 1) |-> Version[k - 1]], cur <- nedits + 1

\* Ins, Del and their kin, on pieces, are edits of the text, and those noted
\* are such that Undo and Redo take it through the versions it had.
IsUndoable == Undoing!USpec

\* Where Getc was is where the cached piece and position are, so that the rune
\* it returns is that of its offset, whatever was edited since.
SeekOk ==
    seek.off # -2 =>
        /\ seek.i \in 1..Len(data) /\ seek.n \in 1..Len(data[seek.i])
        /\ seek.off = Start(data, seek.i) + seek.n - 1

\* A mark is kept between the runes it was between: no rune goes from one side
\* of it to the other while the text is edited, undone and redone.
Before(r, off) == \E i \in 1..off : Text[i] = r
MarksKept ==
    [][vers' # vers =>
        \A m \in Names : marks[m] # -1 =>
            \A r \in Range(Text) \cap Range(Text)' :
                Before(r, marks[m]) <=> Before(r, marks[m])']_vars
=============================================================================
