------------------------------- MODULE Stream -------------------------------
(***************************************************************************)
(* What one direction of a Mux connection promises to its two users: what  *)
(* the reader gets is what the writer sent, in the order it was sent, each *)
(* value once and none missing, but for those that can't be encoded; and a *)
(* reader that is told of the end, with no error, has got all of it.       *)
(* A stream may be cut at any time, but then the reader is told.           *)
(***************************************************************************)
EXTENDS Naturals, Sequences

CONSTANTS
    MaxSent,   \* how many values are sent at most
    Lost       \* the positions of the values that can't be encoded

VARIABLES
    sent,      \* how many values were sent: the k-th value is k
    writer,    \* the channel of the writer: open, or closed with or without error
    got,       \* the values the reader has got
    reader     \* the channel of the reader, likewise

svars == <<sent, writer, got, reader>>

SInit ==
    /\ sent = 0
    /\ writer = "open"
    /\ got = <<>>
    /\ reader = "open"

LastGot == IF got = <<>> THEN 0 ELSE got[Len(got)]

\* Values in a..b that must reach the reader.
Due(a, b) == (a..b) \ Lost

Send ==
    /\ writer = "open"
    /\ sent < MaxSent
    /\ sent' = sent + 1
    /\ UNCHANGED <<writer, got, reader>>

\* close(c) or close(c, err), by the writer or by the Mux.
CloseWriter ==
    /\ writer = "open"
    /\ writer' \in {"ended", "cut"}
    /\ UNCHANGED <<sent, got, reader>>

Deliver ==
    /\ reader = "open"
    /\ \E k \in Due(LastGot + 1, sent) :
        /\ Due(LastGot + 1, k) = {k}
        /\ got' = Append(got, k)
    /\ UNCHANGED <<sent, writer, reader>>

End ==
    /\ reader = "open"
    /\ writer = "ended"
    /\ Due(LastGot + 1, sent) = {}
    /\ reader' = "ended"
    /\ UNCHANGED <<sent, writer, got>>

\* The reader is told of an error, or does not care about the rest.
Cut ==
    /\ reader # "cut"
    /\ reader' = "cut"
    /\ UNCHANGED <<sent, writer, got>>

SNext == Send \/ CloseWriter \/ Deliver \/ End \/ Cut

SSpec == SInit /\ [][SNext]_svars
=============================================================================
