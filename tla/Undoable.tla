------------------------------ MODULE Undoable ------------------------------
(***************************************************************************)
(* What a text with undo promises: it goes through versions, each made by  *)
(* inserting or deleting runes in the one before; Undo goes back to the    *)
(* version before, exactly, and Redo forward again.  An edit after an undo *)
(* drops the versions undone.  An edit may be taken for part of the last   *)
(* one, and then they are undone at once.                                  *)
(***************************************************************************)
EXTENDS Naturals, Sequences

VARIABLES
    hist,      \* the versions
    cur        \* the one that is the text

uvars == <<hist, cur>>

UInit == hist = <<<<>>>> /\ cur = 1

\* t is s with something inserted at off.
Inserted(s, t, off) ==
    /\ Len(s) <= Len(t) /\ off <= Len(s)
    /\ SubSeq(t, 1, off) = SubSeq(s, 1, off)
    /\ SubSeq(t, Len(t) - Len(s) + off + 1, Len(t)) = SubSeq(s, off + 1, Len(s))

\* A new version, or the last one again when the edit is taken for part of it;
\* h is hist.
Edit(h, hnew) ==
    /\ cur' \in {cur, cur + 1} \ {1}
    /\ Len(hnew) = cur'
    /\ SubSeq(hnew, 1, cur' - 1) = SubSeq(h, 1, cur' - 1)
    /\ \E off \in 0..(Len(h[cur]) + Len(hnew[cur'])) :
        Inserted(h[cur], hnew[cur'], off) \/ Inserted(hnew[cur'], h[cur], off)

Undo(h, hnew) == cur > 1 /\ cur' = cur - 1 /\ hnew = h
Redo(h, hnew) == cur < Len(h) /\ cur' = cur + 1 /\ hnew = h
Forget(h, hnew) == hnew = <<h[cur]>> /\ cur' = 1

UNext == \E h \in {hist}, hnew \in {hist'} :
    Undo(h, hnew) \/ Redo(h, hnew) \/ Forget(h, hnew) \/ Edit(h, hnew)
USpec == UInit /\ [][UNext]_uvars
=============================================================================
