------------------------------ MODULE LsubChan ------------------------------
(***************************************************************************)
(* Channels of the lsub Go compiler, as the clive sources use them: a      *)
(* channel can be closed by either end and with an error, a send tells     *)
(* whether it was done ("ok := c <- m"), a receive from a closed channel   *)
(* still drains its buffer, and closing twice or sending after a close is  *)
(* harmless.  The compiler is not part of the repository.                  *)
(***************************************************************************)
EXTENDS Naturals, Sequences

\* A channel of values in S; bad records whether cerror(c) is not nil.
Chan(S) == [buf: Seq(S), open: BOOLEAN, bad: BOOLEAN]

NewChan == [buf |-> <<>>, open |-> TRUE, bad |-> FALSE]

\* close(c, err): the first close decides the error.
CloseChan(c, bad) ==
    IF c.open THEN [buf |-> c.buf, open |-> FALSE, bad |-> bad] ELSE c

\* c <- m on an open channel with room.
Push(c, m) == [c EXCEPT !.buf = Append(c.buf, m)]

\* <-c on a channel with something buffered.
Pop(c) == [c EXCEPT !.buf = Tail(c.buf)]

\* Would <-c report that there is nothing else to come?
Drained(c) == ~c.open /\ c.buf = <<>>
=============================================================================
