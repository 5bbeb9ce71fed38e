--------------------------- MODULE LsubChanProofs ---------------------------
(***************************************************************************)
(* What the operations of LsubChan give and leave alone, for the proofs    *)
(* about the modules that use channels.                                    *)
(***************************************************************************)
EXTENDS LsubChan, TLAPS

\* Operations of LsubChan give channels, and do to the buffer what they say.
LEMMA ChanFacts ==
    ASSUME NEW S, NEW c \in Chan(S)
    PROVE  /\ c.buf \in Seq(S) /\ c.open \in BOOLEAN /\ c.bad \in BOOLEAN
           /\ \A b \in BOOLEAN : CloseChan(c, b) \in Chan(S)
           /\ \A b : CloseChan(c, b).buf = c.buf
           /\ \A m \in S : Push(c, m) \in Chan(S)
           /\ \A m : Push(c, m).buf = Append(c.buf, m)
           /\ c.buf # <<>> => Head(c.buf) \in S /\ Pop(c) \in Chan(S)
           /\ Pop(c).buf = Tail(c.buf)
           /\ NewChan \in Chan(S)
<1>1. c.buf \in Seq(S) /\ c.open \in BOOLEAN /\ c.bad \in BOOLEAN
  BY DEF Chan
<1>2. \A b \in BOOLEAN : CloseChan(c, b) \in Chan(S)
  BY DEF Chan, CloseChan
<1>3. \A b : CloseChan(c, b).buf = c.buf
  BY DEF CloseChan
<1>4. \A m \in S : Push(c, m) \in Chan(S)
  BY DEF Chan, Push
<1>5. \A m : Push(c, m).buf = Append(c.buf, m)
  BY DEF Chan, Push
<1>6. c.buf # <<>> => Head(c.buf) \in S /\ Pop(c) \in Chan(S)
  BY DEF Chan, Pop
<1>7. Pop(c).buf = Tail(c.buf)
  BY DEF Chan, Pop
<1>8. NewChan \in Chan(S)
  BY DEF Chan, NewChan
<1> QED
  BY <1>1, <1>2, <1>3, <1>4, <1>5, <1>6, <1>7, <1>8
=============================================================================
