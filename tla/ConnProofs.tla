----------------------------- MODULE ConnProofs ------------------------------
(***************************************************************************)
(* Conn, for every device, nbuf and number of values: its types; a side is *)
(* told of a hangup last; and each direction implements Stream if values   *)
(* do not fail to encode.                                                  *)
(***************************************************************************)
EXTENDS Conn, LsubChanProofs, Integers, TLAPS

\* Each side has one other side.
LEMMA SidesFacts ==
    \A s \in Sides : Other(s) \in Sides /\ Other(s) # s /\ Other(Other(s)) = s
BY DEF Sides, Other

\* What TypeOK says of one side.
LEMMA SideTypes ==
    ASSUME TypeOK, NEW s \in Sides
    PROVE  /\ wire[s] \in Seq(Nat) /\ wend[s] \in {"no", "eof", "err"}
           /\ rend[s] \in BOOLEAN /\ hup[s] \in BOOLEAN
           /\ inq[s] \in Chan(Nat) /\ outq[s] \in Chan(Nat)
           /\ wr[s] \in WriterState /\ rd[s] \in ReaderState /\ usr[s] \in UserState
           /\ Len(inq[s].buf) <= NBuf /\ Len(outq[s].buf) <= NBuf
BY DEF TypeOK

\* New channels, and all that NewConn starts, are of their types.
LEMMA InitType == Init => TypeOK
<1> SUFFICES ASSUME Init PROVE TypeOK
  OBVIOUS
<1>1. NewChan \in Chan(Nat) /\ Len(NewChan.buf) = 0
  BY DEF NewChan, Chan
<1>2. NBuf \in Nat
  BY ConnAssumption DEF ConnAssumption
<1> QED
  BY <1>1, <1>2 DEF Init, TypeOK, WriterState, ReaderState, UserState

\* Taking a message off a channel leaves fewer of them, and adding one to a
\* channel with room does not exceed it.
LEMMA ChanRoom ==
    ASSUME NEW c \in Chan(Nat), Len(c.buf) <= NBuf
    PROVE  /\ c.buf # <<>> => Len(Pop(c).buf) <= NBuf
           /\ \A m \in Nat : Room(c) => Len(Push(c, m).buf) <= NBuf
<1>1. c.buf \in Seq(Nat) /\ NBuf \in Nat
  BY ConnAssumption DEF ConnAssumption, Chan
<1>2. c.buf # <<>> => Len(Tail(c.buf)) = Len(c.buf) - 1
  BY <1>1
<1>3. \A m \in Nat : Len(Append(c.buf, m)) = Len(c.buf) + 1
  BY <1>1
<1>4. Pop(c).buf = Tail(c.buf) /\ \A m : Push(c, m).buf = Append(c.buf, m)
  BY DEF Pop, Push, Chan
<1>5. Len(c.buf) \in Nat
  BY <1>1
<1> QED
  BY <1>1, <1>2, <1>3, <1>4, <1>5 DEF Room

\* A write puts the message in the device, or hands it to the reader of a pipe.
LEMMA PutType ==
    ASSUME TypeOK, NEW s \in Sides, NEW m \in Nat, Put(s, m)
    PROVE  wire' \in [Sides -> Seq(Nat)] /\ rd' \in [Sides -> ReaderState]
<1>1. CASE dev # "pipe"
  <2>1. Append(wire[s], m) \in Seq(Nat)
    BY SideTypes
  <2> QED
    BY <1>1, <2>1 DEF TypeOK, Put
<1>2. CASE dev = "pipe"
  <2>1. Other(s) \in Sides /\ rd[Other(s)] \in ReaderState
    BY SidesFacts, SideTypes
  <2>2. [rd[Other(s)] EXCEPT !.pc = "send", !.msg = m] \in ReaderState
    BY <2>1 DEF ReaderState
  <2>3. rd' = [rd EXCEPT ![Other(s)] = [rd[Other(s)] EXCEPT !.pc = "send", !.msg = m]]
    BY <1>2, <2>1 DEF Put, TypeOK
  <2> QED
    BY <1>2, <2>1, <2>2, <2>3 DEF TypeOK, Put
<1> QED
  BY <1>1, <1>2

\* What WriteMsgs and its end do keeps the types.
LEMMA WriterType ==
    ASSUME TypeOK, NEW s \in Sides, Writer(s)
    PROVE  TypeOK'
<1> DEFINE o == outq[s]
           w == wr[s]
<1>0. o \in Chan(Nat) /\ o.bad \in BOOLEAN /\ w \in WriterState /\ Len(o.buf) <= NBuf
  BY SideTypes, ChanFacts
<1>1. CASE WriterRecv(s)
  <2>1. CASE o.buf # <<>> /\ outq' = [outq EXCEPT ![s] = Pop(o)]
                /\ wr' = [wr EXCEPT ![s].pc = "write", ![s].msg = Head(o.buf)]
    <3>1. Pop(o) \in Chan(Nat) /\ Len(Pop(o).buf) <= NBuf /\ Head(o.buf) \in Nat
      BY <1>0, <2>1, ChanFacts, ChanRoom
    <3>2. [w EXCEPT !.pc = "write", !.msg = Head(o.buf)] \in WriterState
      BY <1>0, <3>1 DEF WriterState
    <3>3. wr' = [wr EXCEPT ![s] = [w EXCEPT !.pc = "write", !.msg = Head(o.buf)]]
      BY <2>1 DEF TypeOK
    <3> QED
      BY <1>1, <2>1, <3>1, <3>2, <3>3 DEF TypeOK, WriterRecv, device
  <2>2. CASE UNCHANGED outq /\ wr' = [wr EXCEPT ![s].bad = o.bad,
                              ![s].pc = IF o.bad THEN "error" ELSE "end"]
    <3>1. [w EXCEPT !.bad = o.bad, !.pc = IF o.bad THEN "error" ELSE "end"] \in WriterState
      BY <1>0 DEF WriterState
    <3>2. wr' = [wr EXCEPT ![s] = [w EXCEPT !.bad = o.bad, !.pc = IF o.bad THEN "error" ELSE "end"]]
      BY <2>2 DEF TypeOK
    <3> QED
      BY <1>1, <2>2, <3>1, <3>2 DEF TypeOK, WriterRecv, device
  <2> QED
    BY <1>1, <2>1, <2>2 DEF WriterRecv
<1>2. CASE WriterWrite(s)
  <2>1. w.msg \in Nat
    BY <1>0 DEF WriterState
  <2>2. wire' \in [Sides -> Seq(Nat)] /\ rd' \in [Sides -> ReaderState]
    BY <1>2, <2>1, PutType DEF WriterWrite, TypeOK
  <2>3. \A p \in {"recv", "end"}, b \in BOOLEAN :
            /\ [w EXCEPT !.pc = p, !.msg = 0] \in WriterState
            /\ [w EXCEPT !.pc = p, !.msg = 0, !.bad = b] \in WriterState
    BY <1>0 DEF WriterState
  <2>4. \/ wr' = [wr EXCEPT ![s] = [w EXCEPT !.pc = "recv", !.msg = 0]]
        \/ wr' = [wr EXCEPT ![s] = [w EXCEPT !.pc = "end", !.msg = 0, !.bad = TRUE]]
    BY <1>2 DEF WriterWrite, TypeOK
  <2>5. wr' \in [Sides -> WriterState]
    BY <2>3, <2>4 DEF TypeOK
  <2> QED
    BY <1>2, <2>2, <2>5 DEF TypeOK, WriterWrite
<1>3. CASE WriterError(s)
  <2>1. wire' \in [Sides -> Seq(Nat)] /\ rd' \in [Sides -> ReaderState]
    BY <1>3, PutType DEF WriterError, SendError, TypeOK
  <2>2. [w EXCEPT !.pc = "end"] \in WriterState
    BY <1>0 DEF WriterState
  <2>3. wr' = [wr EXCEPT ![s] = [w EXCEPT !.pc = "end"]]
    BY <1>3 DEF WriterError, TypeOK
  <2> QED
    BY <1>3, <2>1, <2>2, <2>3 DEF TypeOK, WriterError
<1>4. CASE WriterEnd(s)
  <2>1. wend' \in [Sides -> {"no", "eof", "err"}] /\ rend' \in [Sides -> BOOLEAN]
    BY <1>4 DEF WriterEnd, ShutWrite, EndOf, TypeOK
  <2>2. [w EXCEPT !.pc = "done"] \in WriterState /\ w.bad \in BOOLEAN
    BY <1>0 DEF WriterState
  <2>3. wr' = [wr EXCEPT ![s] = [w EXCEPT !.pc = "done"]]
    BY <1>4 DEF WriterEnd, TypeOK
  <2>4. PICK b \in BOOLEAN : outq' = [outq EXCEPT ![s] = CloseChan(o, b)]
    BY <1>4, <2>2 DEF WriterEnd, WriteFails
  <2>5. CloseChan(o, b) \in Chan(Nat) /\ CloseChan(o, b).buf = o.buf
    BY <1>0, ChanFacts
  <2>6. /\ outq' \in [Sides -> Chan(Nat)]
        /\ \A x \in Sides : Len(outq'[x].buf) <= NBuf
    BY <1>0, <2>4, <2>5 DEF TypeOK
  <2>7. wr' \in [Sides -> WriterState]
    BY <2>2, <2>3 DEF TypeOK
  <2> QED
    BY <1>4, <2>1, <2>6, <2>7 DEF TypeOK, WriterEnd
<1> QED
  BY <1>1, <1>2, <1>3, <1>4 DEF Writer

\* What ReadMsgs and its end do keeps the types.
LEMMA ReaderType ==
    ASSUME TypeOK, NEW s \in Sides, Reader(s)
    PROVE  TypeOK'
<1> DEFINE c == inq[s]
           r == rd[s]
           q == wire[Other(s)]
<1>0. /\ c \in Chan(Nat) /\ c.bad \in BOOLEAN /\ Len(c.buf) <= NBuf
      /\ r \in ReaderState /\ r.msg \in Nat /\ r.bad \in BOOLEAN
      /\ Other(s) \in Sides /\ q \in Seq(Nat)
  BY SideTypes, ChanFacts, SidesFacts DEF ReaderState
<1>1. CASE ReaderRead(s)
  <2>1. CASE /\ q # <<>> /\ wire' = [wire EXCEPT ![Other(s)] = Tail(@)]
             /\ rd' = [rd EXCEPT ![s].pc = "send", ![s].msg = Head(q)]
    <3>1. Tail(q) \in Seq(Nat) /\ Head(q) \in Nat
      BY <1>0, <2>1
    <3>2. [r EXCEPT !.pc = "send", !.msg = Head(q)] \in ReaderState
      BY <1>0, <3>1 DEF ReaderState
    <3>3. rd' = [rd EXCEPT ![s] = [r EXCEPT !.pc = "send", !.msg = Head(q)]]
      BY <2>1 DEF TypeOK
    <3> QED
      BY <1>0, <1>1, <2>1, <3>1, <3>2, <3>3 DEF TypeOK, ReaderRead
  <2>2. CASE /\ UNCHANGED wire
             /\ \/ rd' = [rd EXCEPT ![s].pc = "end"]
                \/ rd' = [rd EXCEPT ![s].pc = "end", ![s].bad = TRUE]
    <3>1. /\ [r EXCEPT !.pc = "end"] \in ReaderState
          /\ [r EXCEPT !.pc = "end", !.bad = TRUE] \in ReaderState
      BY <1>0 DEF ReaderState
    <3>2. \/ rd' = [rd EXCEPT ![s] = [r EXCEPT !.pc = "end"]]
          \/ rd' = [rd EXCEPT ![s] = [r EXCEPT !.pc = "end", !.bad = TRUE]]
      BY <2>2 DEF TypeOK
    <3> QED
      BY <1>1, <2>2, <3>1, <3>2 DEF TypeOK, ReaderRead
  <2> QED
    BY <1>1, <2>1, <2>2 DEF ReaderRead
<1>2. CASE ReaderSend(s)
  <2>1. CASE /\ Room(c) /\ inq' = [inq EXCEPT ![s] = Push(c, r.msg)]
             /\ rd' = [rd EXCEPT ![s].pc = "read", ![s].msg = 0]
    <3>1. Push(c, r.msg) \in Chan(Nat) /\ Len(Push(c, r.msg).buf) <= NBuf
      BY <1>0, <2>1, ChanFacts, ChanRoom
    <3>2. [r EXCEPT !.pc = "read", !.msg = 0] \in ReaderState
      BY <1>0 DEF ReaderState
    <3>3. rd' = [rd EXCEPT ![s] = [r EXCEPT !.pc = "read", !.msg = 0]]
      BY <2>1 DEF TypeOK
    <3> QED
      BY <1>2, <2>1, <3>1, <3>2, <3>3 DEF TypeOK, ReaderSend, device
  <2>2. CASE /\ UNCHANGED inq
             /\ rd' = [rd EXCEPT ![s].pc = "end", ![s].msg = 0, ![s].bad = c.bad]
    <3>1. [r EXCEPT !.pc = "end", !.msg = 0, !.bad = c.bad] \in ReaderState
      BY <1>0 DEF ReaderState
    <3>2. rd' = [rd EXCEPT ![s] = [r EXCEPT !.pc = "end", !.msg = 0, !.bad = c.bad]]
      BY <2>2 DEF TypeOK
    <3> QED
      BY <1>2, <2>2, <3>1, <3>2 DEF TypeOK, ReaderSend, device
  <2> QED
    BY <1>2, <2>1, <2>2 DEF ReaderSend
<1>3. CASE ReaderEnd(s)
  <2>1. wend' \in [Sides -> {"no", "eof", "err"}] /\ rend' \in [Sides -> BOOLEAN]
    BY <1>3 DEF ReaderEnd, ShutRead, EndOf, TypeOK
  <2>2. [r EXCEPT !.pc = "done"] \in ReaderState
    BY <1>0 DEF ReaderState
  <2>3. rd' = [rd EXCEPT ![s] = [r EXCEPT !.pc = "done"]]
    BY <1>3 DEF ReaderEnd, TypeOK
  <2>4. CloseChan(c, r.bad) \in Chan(Nat) /\ CloseChan(c, r.bad).buf = c.buf
    BY <1>0, ChanFacts
  <2>5. inq' = [inq EXCEPT ![s] = CloseChan(c, r.bad)]
    BY <1>3 DEF ReaderEnd
  <2>6. /\ inq' \in [Sides -> Chan(Nat)]
        /\ \A x \in Sides : Len(inq'[x].buf) <= NBuf
    BY <1>0, <2>4, <2>5 DEF TypeOK
  <2>7. rd' \in [Sides -> ReaderState]
    BY <2>2, <2>3 DEF TypeOK
  <2> QED
    BY <1>3, <2>1, <2>6, <2>7 DEF TypeOK, ReaderEnd
<1> QED
  BY <1>1, <1>2, <1>3 DEF Reader

\* What users do keeps the types.
LEMMA UserType ==
    ASSUME TypeOK, NEW s \in Sides, User(s)
    PROVE  TypeOK'
<1> DEFINE c == inq[s]
           o == outq[s]
           u == usr[s]
<1>0. /\ c \in Chan(Nat) /\ o \in Chan(Nat) /\ u \in UserState
      /\ Len(c.buf) <= NBuf /\ Len(o.buf) <= NBuf
      /\ u.sent \in Nat /\ u.seen \in Seq(Nat)
  BY SideTypes DEF UserState
<1>1. CASE UserSend(s)
  <2>1. Push(o, u.sent + 1) \in Chan(Nat) /\ Len(Push(o, u.sent + 1).buf) <= NBuf
    BY <1>0, <1>1, ChanFacts, ChanRoom DEF UserSend
  <2>2. [u EXCEPT !.sent = u.sent + 1] \in UserState
    BY <1>0 DEF UserState
  <2>3. usr' = [usr EXCEPT ![s] = [u EXCEPT !.sent = u.sent + 1]]
    BY <1>1 DEF UserSend, TypeOK
  <2> QED
    BY <1>1, <2>1, <2>2, <2>3 DEF TypeOK, UserSend, device
<1>2. ASSUME NEW b \in BOOLEAN, UserClose(s, b) PROVE TypeOK'
  <2>1. CloseChan(o, b) \in Chan(Nat) /\ CloseChan(o, b).buf = o.buf
    BY <1>0, ChanFacts
  <2> QED
    BY <1>0, <1>2, <2>1 DEF TypeOK, UserClose, device
<1>3. CASE UserRecv(s)
  <2>1. Pop(c) \in Chan(Nat) /\ Len(Pop(c).buf) <= NBuf /\ Head(c.buf) \in Nat
    BY <1>0, <1>3, ChanFacts, ChanRoom DEF UserRecv
  <2>2. /\ [u EXCEPT !.end = "cut"] \in UserState
        /\ [u EXCEPT !.seen = Append(u.seen, Head(c.buf))] \in UserState
    <3>1. Append(u.seen, Head(c.buf)) \in Seq(Nat)
      BY <1>0, <2>1
    <3>2. \A q \in Seq(Nat) : [u EXCEPT !.seen = q] \in UserState
      BY <1>0 DEF UserState
    <3>3. [u EXCEPT !.end = "cut"] \in UserState
      BY <1>0 DEF UserState
    <3> QED
      BY <3>1, <3>2, <3>3
  <2>3. \/ usr' = [usr EXCEPT ![s] = [u EXCEPT !.end = "cut"]]
        \/ usr' = [usr EXCEPT ![s] = [u EXCEPT !.seen = Append(u.seen, Head(c.buf))]]
    BY <1>3 DEF UserRecv, TypeOK
  <2> QED
    BY <1>3, <2>1, <2>2, <2>3 DEF TypeOK, UserRecv, device
<1>4. CASE UserEOF(s)
  <2>1. \A e \in {"cut", "ended"} : [u EXCEPT !.end = e] \in UserState
    BY <1>0 DEF UserState
  <2>2. \E e \in {"cut", "ended"} : usr' = [usr EXCEPT ![s] = [u EXCEPT !.end = e]]
    BY <1>4 DEF UserEOF, TypeOK
  <2> QED
    BY <1>4, <2>1, <2>2 DEF TypeOK, UserEOF, device
<1>5. CASE UserQuit(s)
  <2>1. CloseChan(c, TRUE) \in Chan(Nat) /\ CloseChan(c, TRUE).buf = c.buf
    BY <1>0, ChanFacts
  <2>2. [u EXCEPT !.end = "cut"] \in UserState
    BY <1>0 DEF UserState
  <2>3. usr' = [usr EXCEPT ![s] = [u EXCEPT !.end = "cut"]]
    BY <1>5 DEF UserQuit, TypeOK
  <2> QED
    BY <1>0, <1>5, <2>1, <2>2, <2>3 DEF TypeOK, UserQuit, device
<1> QED
  BY <1>1, <1>2, <1>3, <1>4, <1>5 DEF User

\* Every step keeps the types.
LEMMA NextType == TypeOK /\ [Next]_vars => TypeOK'
<1> SUFFICES ASSUME TypeOK, [Next]_vars PROVE TypeOK'
  OBVIOUS
<1>1. CASE Break
  BY <1>1 DEF Break, TypeOK
<1>2. ASSUME NEW s \in Sides, Wait(s) PROVE TypeOK'
  BY <1>2 DEF Wait, TypeOK, device
<1>3. CASE UNCHANGED vars
  BY <1>3 DEF vars, device, TypeOK
<1> QED
  BY <1>1, <1>2, <1>3, WriterType, ReaderType, UserType DEF Next

\* The variables of both Conns keep to their types, and channels to the room
\* NewConn gives them, for every nbuf, number of values and device.
THEOREM TypeCorrect == Spec => []TypeOK
<1>1. Init => TypeOK
  BY InitType
<1>2. TypeOK /\ [Next]_vars => TypeOK'
  BY NextType
<1> QED
  BY <1>1, <1>2, PTL DEF Spec

-----------------------------------------------------------------------------
(* hup.                                                                    *)

\* What each goroutine leaves closed when it is done, and who closes hup.
HupInv ==
    \A s \in Sides :
        /\ wr[s].pc = "done" => wend[s] # "no" /\ ~outq[s].open
        /\ rd[s].pc = "done" => rend[s]
        /\ hup[s] => wr[s].pc = "done" /\ rd[s].pc = "done"

\* Goroutines that are done stay so, and nobody opens what they closed.
LEMMA HupKept ==
    ASSUME TypeOK, HupInv, [Next]_vars
    PROVE  HupInv'
<1> SUFFICES ASSUME NEW x \in Sides
             PROVE  (/\ wr[x].pc = "done" => wend[x] # "no" /\ ~outq[x].open
                     /\ rd[x].pc = "done" => rend[x]
                     /\ hup[x] => wr[x].pc = "done" /\ rd[x].pc = "done")'
  BY DEF HupInv
<1>1. /\ wr[x] \in WriterState /\ rd[x] \in ReaderState /\ outq[x] \in Chan(Nat)
      /\ rend[x] \in BOOLEAN /\ wend[x] \in {"no", "eof", "err"}
      /\ wr[x].pc = "done" => wend[x] # "no" /\ ~outq[x].open
      /\ rd[x].pc = "done" => rend[x]
      /\ hup[x] => wr[x].pc = "done" /\ rd[x].pc = "done"
  BY SideTypes DEF HupInv
<1>2. CASE Break \/ UNCHANGED vars
  BY <1>1, <1>2 DEF Break, vars, device
<1> DEFINE Done ==
             /\ wr'[x] = wr[x] \/ wr[x].pc # "done"
             /\ wr'[x] = wr[x] \/ wr'[x].pc # "done" \/ (wend'[x] # "no" /\ ~outq'[x].open)
             /\ ~outq[x].open => ~outq'[x].open
             /\ wend[x] # "no" => wend'[x] # "no"
             /\ rend[x] => rend'[x]
             /\ rd'[x] = rd[x] \/ rd[x].pc # "done"
             /\ rd'[x] = rd[x] \/ rd'[x].pc # "done" \/ rend'[x]
             /\ hup'[x] => hup[x] \/ (wr[x].pc = "done" /\ rd[x].pc = "done")
<1>3. ASSUME NEW s \in Sides, NEW m, Put(s, m)
      PROVE  rd'[x] = rd[x] \/ (rd[x].pc = "read" /\ rd'[x].pc = "send")
  BY <1>1, <1>3 DEF Put, TypeOK, ReaderState
<1>4. ASSUME NEW s \in Sides, WriterRecv(s) \/ WriterWrite(s) \/ WriterError(s) PROVE Done
  <2>1. wr'[x] = wr[x] \/ (wr[x].pc # "done" /\ wr'[x].pc # "done")
    BY <1>1, <1>4 DEF WriterRecv, WriterWrite, WriterError, TypeOK, WriterState
  <2>2. rd'[x] = rd[x] \/ (rd[x].pc = "read" /\ rd'[x].pc = "send")
    BY <1>3, <1>4 DEF WriterRecv, WriterWrite, WriterError, SendError, device
  <2>3. outq'[x].open = outq[x].open
    <3>1. UNCHANGED outq \/ outq' = [outq EXCEPT ![s] = Pop(@)]
      BY <1>4 DEF WriterRecv, WriterWrite, WriterError
    <3>2. outq'[x] = outq[x] \/ outq'[x] = Pop(outq[x])
      BY <3>1 DEF TypeOK
    <3>3. Pop(outq[x]).open = outq[x].open
      BY <1>1 DEF Pop, Chan
    <3> QED
      BY <3>2, <3>3
  <2> QED
    BY <1>4, <2>1, <2>2, <2>3 DEF WriterRecv, WriterWrite, WriterError, device
<1>5. ASSUME NEW s \in Sides, WriterEnd(s) PROVE Done
  <2>1. PICK b : outq' = [outq EXCEPT ![s] = CloseChan(@, b)]
    BY <1>5 DEF WriterEnd
  <2>2. s = x => ~outq'[x].open
    BY <1>1, <2>1 DEF CloseChan, TypeOK
  <2>3. s = x => wend'[x] # "no" /\ wr[x].pc # "done"
    BY <1>1, <1>5 DEF WriterEnd, ShutWrite, EndOf, TypeOK
  <2>4. s # x => outq'[x] = outq[x] /\ wend'[x] = wend[x] /\ wr'[x] = wr[x]
    BY <1>5, <2>1 DEF WriterEnd, ShutWrite, TypeOK
  <2>5. (rend[x] => rend'[x]) /\ rd'[x] = rd[x] /\ hup'[x] = hup[x]
    BY <1>1, <1>5 DEF WriterEnd, ShutWrite, TypeOK
  <2> QED
    BY <2>2, <2>3, <2>4, <2>5
<1>6. ASSUME NEW s \in Sides, ReaderRead(s) \/ ReaderSend(s) PROVE Done
  <2>1. rd'[x] = rd[x] \/ (rd[x].pc # "done" /\ rd'[x].pc # "done")
    BY <1>1, <1>6 DEF ReaderRead, ReaderSend, TypeOK, ReaderState
  <2> QED
    BY <1>6, <2>1 DEF ReaderRead, ReaderSend, device
<1>7. ASSUME NEW s \in Sides, ReaderEnd(s) PROVE Done
  <2>1. s = x => rend'[x] /\ rd[x].pc # "done"
    BY <1>1, <1>7 DEF ReaderEnd, ShutRead, TypeOK
  <2>2. s # x => rd'[x] = rd[x]
    BY <1>7 DEF ReaderEnd, TypeOK
  <2>3. (wend[x] # "no" => wend'[x] # "no") /\ (rend[x] => rend'[x])
    BY <1>1, <1>7 DEF ReaderEnd, ShutRead, EndOf, TypeOK
  <2> QED
    BY <1>7, <2>1, <2>2, <2>3 DEF ReaderEnd
<1>8. ASSUME NEW s \in Sides, Wait(s) PROVE Done
  BY <1>8 DEF Wait, WaitDone, TypeOK, device
<1>9. ASSUME NEW s \in Sides, User(s) PROVE Done
  <2>1. UNCHANGED <<device, wr, rd, hup>>
    BY <1>9 DEF User, UserSend, UserRecv, UserEOF, UserQuit, UserClose
  <2>2. ~outq[x].open => ~outq'[x].open
    <3>1. \/ UNCHANGED outq
          \/ outq[s].open
      BY <1>9 DEF User, UserSend, UserRecv, UserEOF, UserQuit, UserClose
    <3>2. s # x => outq'[x] = outq[x]
      BY <1>9 DEF User, UserSend, UserRecv, UserEOF, UserQuit, UserClose, TypeOK
    <3> QED
      BY <3>1, <3>2
  <2> QED
    BY <2>1, <2>2 DEF device
<1>10. ASSUME Done
       PROVE  (/\ wr[x].pc = "done" => wend[x] # "no" /\ ~outq[x].open
               /\ rd[x].pc = "done" => rend[x]
               /\ hup[x] => wr[x].pc = "done" /\ rd[x].pc = "done")'
  BY <1>1, <1>10
<1> HIDE DEF Done
<1>11. CASE \E s \in Sides : Writer(s) \/ Reader(s) \/ Wait(s) \/ User(s)
  BY <1>4, <1>5, <1>6, <1>7, <1>8, <1>9, <1>10, <1>11 DEF Writer, Reader
<1> QED
  BY <1>2, <1>11 DEF Next

\* For every nbuf, number of values and device, hup is closed only after the
\* goroutines that use the device are done with it: both ways are closed, and
\* Out too, so that who waits for hup may use the device again.
THEOREM HupIsLast ==
    Spec => [](\A s \in Sides : hup[s] => wend[s] # "no" /\ rend[s] /\ ~outq[s].open)
<1>1. Init => TypeOK /\ HupInv
  BY InitType DEF Init, HupInv
<1>2. (TypeOK /\ HupInv) /\ [Next]_vars => (TypeOK /\ HupInv)'
  BY NextType, HupKept
<1>3. HupInv => \A s \in Sides : hup[s] => wend[s] # "no" /\ rend[s] /\ ~outq[s].open
  BY DEF HupInv
<1> QED
  BY <1>1, <1>2, <1>3, PTL DEF Spec

-----------------------------------------------------------------------------
(* Streams.  A value is on its way from one user to the other in outq, in  *)
(* the writer (wr), in the device (wire), in the reader (rd) or in inq.    *)
(* The argument is that those in the last three, which left the writer,    *)
(* are a chain: in order, with nothing between one and the next but values *)
(* that can't be encoded.  The chain goes from the last value that the     *)
(* user has seen up to what the writer has passed on, unless the reader is *)
(* to be told of an error.                                                 *)

\* Values in a+1..b are all lost: b may come right after a.
Gap(a, b) == \A x \in (a + 1)..b : x \in Discards

\* The place in the stream of message m when n values were sent: the error
\* comes after all of them.
Place(n, m) == IF m = 0 THEN n + 1 ELSE m

\* A message at place b comes right after place a.
Follows(a, b) == a < b /\ Gap(a, b - 1)

\* The place of the last message of q, or a if there is none.
Top(n, q, a) == IF q = <<>> THEN a ELSE Place(n, q[Len(q)])

\* The messages of q follow each other, and the first one follows place a.
Chain(n, q, a) ==
    \A i \in 1..Len(q) :
        /\ q[i] \notin Discards
        /\ Follows(IF i = 1 THEN a ELSE Place(n, q[i - 1]), Place(n, q[i]))

NoError(q) == \A i \in 1..Len(q) : q[i] # 0
AtMost(q, n) == \A i \in 1..Len(q) : q[i] <= n

-----------------------------------------------------------------------------
(* From side s to the other one, t.                                        *)

Got(t) == IF usr[t].seen = <<>> THEN 0 ELSE usr[t].seen[Len(usr[t].seen)]

\* The place reached by what is in inq, with what the reader holds, and with
\* what is in the device.
AtIn(s, t) == Top(usr[s].sent, inq[t].buf, Got(t))
AtReader(s, t) ==
    IF rd[t].pc = "send" THEN Place(usr[s].sent, rd[t].msg) ELSE AtIn(s, t)
AtWire(s, t) == Top(usr[s].sent, wire[s], AtReader(s, t))

\* The last value that the writer took, and the last one it is done with.
Taken(s) == usr[s].sent - Len(outq[s].buf)
Passed(s) == IF wr[s].pc = "write" THEN Taken(s) - 1 ELSE Taken(s)

\* No half closes, and s does not read any more: the reader expects no end.
Excused(s) == dev = "whole" /\ rd[s].pc = "done"

\* Whatever the writer of s does not send, the reader will be told of an error.
Doomed(s, t) == ~link \/ dev = "pipe" \/ rend[t] \/ Excused(s)

\* What the user sent is in outq, up to the last value, and after those taken.
InOrder(s) ==
    /\ Len(outq[s].buf) <= usr[s].sent
    /\ \A i \in 1..Len(outq[s].buf) : outq[s].buf[i] = Taken(s) + i
    /\ wr[s].pc = "write" => wr[s].msg = Taken(s) /\ Taken(s) >= 1

\* How the writer ends, and that only it ends what it writes, or who closes
\* the whole device.
Ending(s) ==
    /\ wr[s].pc \in {"recv", "write"} => ~wr[s].bad
    /\ wr[s].pc = "error" => Drained(outq[s]) /\ outq[s].bad /\ wr[s].bad
    /\ wr[s].pc \in {"end", "done"} /\ ~wr[s].bad => Drained(outq[s]) /\ ~outq[s].bad
    /\ wend[s] # "no" => wr[s].pc = "done" \/ Excused(s)

\* What is on its way was sent.  Errors are not before the channel is closed,
\* and a pipe keeps nothing.
OnItsWay(s, t) ==
    /\ AtMost(inq[t].buf, usr[s].sent) /\ AtMost(wire[s], usr[s].sent)
    /\ rd[t].msg <= usr[s].sent
    /\ outq[s].open => /\ NoError(inq[t].buf) /\ NoError(wire[s])
                       /\ rd[t].pc = "send" => rd[t].msg # 0
    /\ dev = "pipe" => wire[s] = <<>>

\* The error that ended the stream, or all that was sent, is at place a or
\* before it.
Failed(s, a) == ~outq[s].open /\ a = usr[s].sent + 1
Complete(s, a) ==
    \/ Failed(s, a)
    \/ Drained(outq[s]) /\ ~outq[s].bad /\ Gap(a, usr[s].sent)

\* What is in the device follows what the reader holds, and that what is in inq.
Ordered(s, t) ==
    /\ rd[t].pc = "send" =>
            /\ rd[t].msg \notin Discards
            /\ Follows(AtIn(s, t), Place(usr[s].sent, rd[t].msg))
    /\ Chain(usr[s].sent, wire[s], AtReader(s, t))

\* While the reader reads.
Reading(s, t) ==
    /\ Ordered(s, t)
    /\ wr[s].pc \in {"recv", "write", "error"} \/ ~wr[s].bad =>
            AtWire(s, t) <= Passed(s) /\ Gap(AtWire(s, t), Passed(s))
    /\ wr[s].pc \in {"end", "done"} /\ wr[s].bad =>
            Failed(s, AtWire(s, t)) \/ Doomed(s, t)
    /\ wend[s] = "eof" =>
            \/ Excused(s) \/ rend[t]
            \/ wr[s].pc = "done" /\ Complete(s, AtWire(s, t))

\* Until its user is told of an end.
Receiving(s, t) ==
    /\ Got(t) <= usr[s].sent
    /\ Chain(usr[s].sent, inq[t].buf, Got(t))
    /\ ~inq[t].open => rd[t].pc = "done" /\ inq[t].bad = rd[t].bad
    /\ rd[t].pc \in {"read", "send"} => Reading(s, t)
    /\ rd[t].pc \in {"end", "done"} /\ ~rd[t].bad =>
            Excused(s) \/ Complete(s, AtIn(s, t))

Direction(s, t) ==
    /\ InOrder(s)
    /\ Ending(s)
    /\ OnItsWay(s, t)
    /\ usr[t].end = "open" => Receiving(s, t)

StreamInv == TypeOK /\ Direction("left", "right") /\ Direction("right", "left")

Dir(s, t) == INSTANCE Stream WITH
    MaxSent <- MaxSend[s], Lost <- Discards, sent <- usr[s].sent,
    writer <- WriterOf(s), got <- usr[t].seen, reader <- ReaderOf(t)

-----------------------------------------------------------------------------
(* Places and chains.                                                      *)

\* Gaps go together, and a value that is lost is part of one.
LEMMA GapFacts ==
    ASSUME NEW a \in Nat, NEW b \in Nat
    PROVE  /\ Gap(a, a)
           /\ Gap(a, b) /\ b + 1 \in Discards => Gap(a, b + 1)
           /\ \A x \in Nat : x <= a => (Gap(x, a) /\ Gap(a, b) => Gap(x, b))
BY DEF Gap

\* The place of a message is a number, and that of a value is the value.
LEMMA PlaceFacts ==
    ASSUME NEW n \in Nat, NEW m \in Nat
    PROVE  Place(n, m) \in Nat /\ Place(n, m) >= 1 /\ (m # 0 => Place(n, m) = m)
BY DEF Place

\* The place reached by a queue is a number.
LEMMA TopType ==
    ASSUME NEW n \in Nat, NEW q \in Seq(Nat), NEW a \in Nat
    PROVE  Top(n, q, a) \in Nat
<1>1. CASE q = <<>>
  BY <1>1 DEF Top
<1>2. CASE q # <<>>
  <2>1. q[Len(q)] \in Nat
    BY <1>2
  <2> QED
    BY <1>2, <2>1, PlaceFacts DEF Top
<1> QED
  BY <1>1, <1>2

\* What is true of the messages of a queue, and of one more.
LEMMA AppendFacts ==
    ASSUME NEW q \in Seq(Nat), NEW m \in Nat, NEW n \in Nat
    PROVE  /\ AtMost(q, n) /\ m <= n => AtMost(Append(q, m), n)
           /\ NoError(q) /\ m # 0 => NoError(Append(q, m))
<1> DEFINE p == Append(q, m)
<1>1. ASSUME NEW i \in 1..Len(p)
      PROVE  p[i] = m \/ \E j \in 1..Len(q) : p[i] = q[j]
  <2>1. CASE i \in 1..Len(q)
    <3>1. p[i] = q[i]
      BY <2>1
    <3> QED
      BY <2>1, <3>1
  <2>2. CASE i = Len(q) + 1
    BY <2>2
  <2>3. i \in 1..(Len(q) + 1) /\ Len(q) \in Nat
    OBVIOUS
  <2>4. i \in 1..Len(q) \/ i = Len(q) + 1
    BY <2>3
  <2> QED
    BY <2>1, <2>2, <2>4
<1> HIDE DEF p
<1>2. AtMost(q, n) /\ m <= n => AtMost(p, n)
  BY <1>1 DEF AtMost
<1>3. NoError(q) /\ m # 0 => NoError(p)
  BY <1>1 DEF NoError
<1> QED
  BY <1>2, <1>3 DEF p

\* A message that follows a chain makes it longer.
LEMMA ChainAppend ==
    ASSUME NEW n \in Nat, NEW q \in Seq(Nat), NEW a \in Nat, NEW m \in Nat,
           Chain(n, q, a), m \notin Discards, Follows(Top(n, q, a), Place(n, m))
    PROVE  Chain(n, Append(q, m), a) /\ Top(n, Append(q, m), a) = Place(n, m)
<1> DEFINE p == Append(q, m)
<1>1. p \in Seq(Nat) /\ Len(p) = Len(q) + 1 /\ p[Len(q) + 1] = m /\ p # <<>>
  OBVIOUS
<1>2. \A i \in 1..Len(q) : p[i] = q[i]
  OBVIOUS
<1>3. Top(n, p, a) = Place(n, m)
  BY <1>1 DEF Top
<1>4. ASSUME NEW i \in 1..Len(p)
      PROVE  /\ p[i] \notin Discards
             /\ Follows(IF i = 1 THEN a ELSE Place(n, p[i - 1]), Place(n, p[i]))
  <2>1. CASE i \in 1..Len(q)
    <3>1. i # 1 => i - 1 \in 1..Len(q)
      BY <2>1
    <3> QED
      BY <1>2, <2>1, <3>1 DEF Chain
  <2>2. CASE i = Len(q) + 1
    <3>1. CASE q = <<>>
      BY <1>1, <2>2, <3>1 DEF Top
    <3>2. CASE q # <<>>
      <4>1. i # 1 /\ i - 1 = Len(q) /\ Len(q) \in 1..Len(q)
        BY <2>2, <3>2
      <4> QED
        BY <1>1, <1>2, <2>2, <3>2, <4>1 DEF Top
    <3> QED
      BY <3>1, <3>2
  <2> QED
    BY <1>1, <2>1, <2>2
<1> QED
  BY <1>3, <1>4 DEF Chain

\* Without its first message, it is a chain from there.
LEMMA ChainTail ==
    ASSUME NEW n \in Nat, NEW q \in Seq(Nat), NEW a \in Nat,
           Chain(n, q, a), q # <<>>
    PROVE  /\ Head(q) \in Nat /\ Head(q) \notin Discards /\ Follows(a, Place(n, Head(q)))
           /\ Chain(n, Tail(q), Place(n, Head(q)))
           /\ Top(n, Tail(q), Place(n, Head(q))) = Top(n, q, a)
<1> DEFINE p == Tail(q)
<1>1. /\ p \in Seq(Nat) /\ Len(p) = Len(q) - 1 /\ Len(q) \in Nat /\ Len(q) >= 1
      /\ Head(q) = q[1] /\ q[1] \in Nat
  OBVIOUS
<1>2. \A i \in 1..Len(p) : p[i] = q[i + 1]
  OBVIOUS
<1>3. Head(q) \notin Discards /\ Follows(a, Place(n, Head(q)))
  BY <1>1 DEF Chain
<1>4. ASSUME NEW i \in 1..Len(p)
      PROVE  /\ p[i] \notin Discards
             /\ Follows(IF i = 1 THEN Place(n, Head(q)) ELSE Place(n, p[i - 1]), Place(n, p[i]))
  <2>1. i + 1 \in 1..Len(q) /\ i + 1 # 1 /\ (i + 1) - 1 = i
    BY <1>1
  <2>2. q[i + 1] \notin Discards /\ Follows(Place(n, q[i]), Place(n, q[i + 1]))
    BY <2>1 DEF Chain
  <2>3. i # 1 => i - 1 \in 1..Len(p) /\ (i - 1) + 1 = i
    BY <1>1
  <2> QED
    BY <1>1, <1>2, <2>2, <2>3
<1>5. Top(n, p, Place(n, Head(q))) = Top(n, q, a)
  <2>1. CASE p = <<>>
    <3>1. Len(q) = 1
      <4> HIDE DEF p
      <4>1. Len(p) = 0
        BY <2>1
      <4> QED
        BY <1>1, <4>1
    <3> QED
      BY <1>1, <2>1, <3>1 DEF Top
  <2>2. CASE p # <<>>
    <3>1. Len(p) \in 1..Len(p) /\ Len(p) + 1 = Len(q)
      BY <1>1, <2>2
    <3> QED
      BY <1>2, <2>2, <3>1 DEF Top
  <2> QED
    BY <2>1, <2>2
<1> QED
  BY <1>1, <1>3, <1>4, <1>5 DEF Chain

\* Chains of values do not depend on how many were sent.
LEMMA ChainMore ==
    ASSUME NEW n \in Nat, NEW k \in Nat, NEW q \in Seq(Nat), NEW a \in Nat,
           Chain(n, q, a), NoError(q)
    PROVE  Chain(k, q, a) /\ Top(k, q, a) = Top(n, q, a)
<1>1. \A i \in 1..Len(q) : Place(k, q[i]) = Place(n, q[i])
  BY DEF NoError, Place
<1>2. q # <<>> => Len(q) \in 1..Len(q)
  OBVIOUS
<1>3. \A i \in 1..Len(q) : i # 1 => i - 1 \in 1..Len(q)
  OBVIOUS
<1> QED
  BY <1>1, <1>2, <1>3 DEF Chain, Top

-----------------------------------------------------------------------------

\* The places are numbers.
LEMMA PlaceTypes ==
    ASSUME TypeOK, NEW s \in Sides, NEW t \in Sides
    PROVE  /\ usr[s].sent \in Nat /\ Got(t) \in Nat /\ AtIn(s, t) \in Nat
           /\ AtReader(s, t) \in Nat /\ AtWire(s, t) \in Nat
           /\ inq[t].buf \in Seq(Nat) /\ outq[s].buf \in Seq(Nat) /\ wire[s] \in Seq(Nat)
           /\ rd[t].msg \in Nat /\ wr[s].msg \in Nat /\ Len(outq[s].buf) \in Nat
           /\ Taken(s) \in Int /\ Passed(s) \in Int
<1>1. /\ usr[s].sent \in Nat /\ usr[t].seen \in Seq(Nat)
      /\ rd[t].msg \in Nat /\ wr[s].msg \in Nat
  BY SideTypes DEF UserState, ReaderState, WriterState
<1>2. inq[t].buf \in Seq(Nat) /\ outq[s].buf \in Seq(Nat) /\ wire[s] \in Seq(Nat)
  BY SideTypes, ChanFacts
<1>3. Got(t) \in Nat
  BY <1>1 DEF Got
<1>4. AtIn(s, t) \in Nat
  BY <1>1, <1>2, <1>3, TopType DEF AtIn
<1>5. AtReader(s, t) \in Nat
  BY <1>1, <1>4, PlaceFacts DEF AtReader
<1>6. AtWire(s, t) \in Nat
  BY <1>1, <1>2, <1>5, TopType DEF AtWire
<1>7. Len(outq[s].buf) \in Nat
  BY <1>2
<1>8. Taken(s) \in Int /\ Passed(s) \in Int
  BY <1>1, <1>7 DEF Taken, Passed
<1> QED
  BY <1>1, <1>2, <1>3, <1>4, <1>5, <1>6, <1>7, <1>8

\* A step that leaves alone what the direction uses, but may break the device
\* or close it as a whole.
Elsewhere(s, t) ==
    /\ UNCHANGED dev
    /\ usr'[s].sent = usr[s].sent /\ outq'[s] = outq[s] /\ wr'[s] = wr[s]
    /\ wend'[s] = wend[s] \/ Excused(s)'
    /\ wire'[s] = wire[s] /\ inq'[t] = inq[t] /\ rd'[t] = rd[t]
    /\ usr'[t].seen = usr[t].seen /\ usr'[t].end = usr[t].end
    /\ (rend[t] => rend'[t]) /\ (~link => ~link') /\ (Excused(s) => Excused(s)')

\* What a direction does not use may change.
LEMMA Frame ==
    ASSUME NEW s \in Sides, NEW t \in Sides, Direction(s, t), Elsewhere(s, t)
    PROVE  Direction(s, t)'
<1> USE DEF Elsewhere
<1>1. /\ AtIn(s, t)' = AtIn(s, t) /\ Got(t)' = Got(t)
      /\ AtReader(s, t)' = AtReader(s, t) /\ AtWire(s, t)' = AtWire(s, t)
  BY DEF AtIn, Got, AtReader, AtWire
<1>2. Taken(s)' = Taken(s) /\ Passed(s)' = Passed(s)
  BY DEF Taken, Passed
<1>3. Doomed(s, t) => Doomed(s, t)'
  BY DEF Doomed
<1>4. \A a : (Failed(s, a) => Failed(s, a)') /\ (Complete(s, a) => Complete(s, a)')
  BY DEF Complete, Failed
<1>5. InOrder(s)' /\ Ending(s)' /\ OnItsWay(s, t)'
  BY <1>2 DEF Direction, InOrder, Ending, OnItsWay
<1>6. Reading(s, t) => Reading(s, t)'
  BY <1>1, <1>2, <1>3, <1>4 DEF Reading, Ordered
<1>7. Receiving(s, t) => Receiving(s, t)'
  BY <1>1, <1>4, <1>6 DEF Receiving
<1> QED
  BY <1>5, <1>7 DEF Direction

-----------------------------------------------------------------------------
(* What the writer of s does.                                              *)

\* Taking a message does not change what was passed on.
LEMMA RecvKeeps ==
    ASSUME TypeOK, NEW s \in Sides, NEW t \in Sides, t = Other(s),
           Direction(s, t), WriterRecv(s)
    PROVE  Direction(s, t)'
<1> DEFINE o == outq[s]
           w == wr[s]
<1>1. /\ o \in Chan(Nat) /\ o.buf \in Seq(Nat) /\ w \in WriterState /\ w.pc = "recv"
      /\ usr[s].sent \in Nat /\ Len(o.buf) \in Nat /\ Taken(s) \in Int
  BY PlaceTypes, SideTypes DEF WriterRecv
<1>2. UNCHANGED <<dev, link, wire, wend, rend, inq, rd, usr>>
  BY DEF WriterRecv, device
<1>3. /\ AtIn(s, t)' = AtIn(s, t) /\ Got(t)' = Got(t) /\ AtReader(s, t)' = AtReader(s, t)
      /\ AtWire(s, t)' = AtWire(s, t) /\ (Doomed(s, t) => Doomed(s, t)')
      /\ Excused(s)' = Excused(s)
  BY <1>2 DEF AtIn, Got, AtReader, AtWire, Doomed, Excused
<1>4. CASE o.buf # <<>> /\ outq' = [outq EXCEPT ![s] = Pop(o)]
              /\ wr' = [wr EXCEPT ![s].pc = "write", ![s].msg = Head(o.buf)]
  <2>1. /\ wr'[s].pc = "write" /\ wr'[s].msg = Head(o.buf) /\ wr'[s].bad = w.bad
        /\ outq'[s] = Pop(o)
    BY <1>1, <1>4 DEF TypeOK, WriterState
  <2>2. outq'[s].open = o.open /\ outq'[s].bad = o.bad /\ outq'[s].buf = Tail(o.buf)
    BY <1>1, <2>1 DEF Pop, Chan
  <2>3. /\ Len(Tail(o.buf)) = Len(o.buf) - 1 /\ Head(o.buf) = o.buf[1] /\ Len(o.buf) >= 1
        /\ \A i \in 1..Len(Tail(o.buf)) : Tail(o.buf)[i] = o.buf[i + 1]
    BY <1>1, <1>4
  <2>4. Taken(s)' = Taken(s) + 1 /\ Passed(s)' = Passed(s)
    BY <1>1, <1>2, <2>1, <2>2, <2>3 DEF Taken, Passed
  <2>5. InOrder(s)'
    <3>1. Len(outq'[s].buf) <= usr[s].sent /\ Taken(s) + 1 >= 1
      BY <1>1, <2>2, <2>3 DEF Direction, InOrder, Taken
    <3>2. o.buf[1] = Taken(s) + 1
      BY <1>1, <2>3 DEF Direction, InOrder
    <3>3. ASSUME NEW i \in 1..Len(Tail(o.buf))
          PROVE  Tail(o.buf)[i] = Taken(s) + 1 + i
      <4>1. i + 1 \in 1..Len(o.buf)
        BY <1>1, <2>3
      <4>2. o.buf[i + 1] = Taken(s) + (i + 1)
        BY <4>1 DEF Direction, InOrder
      <4> QED
        BY <1>1, <2>3, <4>2
    <3> QED
      BY <1>2, <2>1, <2>2, <2>3, <2>4, <3>1, <3>2, <3>3 DEF InOrder
  <2>6. Ending(s)'
    BY <1>1, <1>2, <1>3, <2>1 DEF Direction, Ending
  <2>7. OnItsWay(s, t)'
    BY <1>2, <2>2 DEF Direction, OnItsWay
  <2>8. \A a : (Failed(s, a) => Failed(s, a)') /\ (Complete(s, a) => Complete(s, a)')
    BY <1>2, <1>4, <2>2 DEF Complete, Failed, Drained
  <2>9. Reading(s, t) => Reading(s, t)'
    BY <1>1, <1>2, <1>3, <2>1, <2>4 DEF Reading, Ordered
  <2>10. Receiving(s, t) => Receiving(s, t)'
    BY <1>2, <1>3, <2>8, <2>9 DEF Receiving
  <2> QED
    BY <1>2, <2>5, <2>6, <2>7, <2>10 DEF Direction
<1>5. CASE Drained(o) /\ UNCHANGED outq /\ wr' = [wr EXCEPT ![s].bad = o.bad,
              ![s].pc = IF o.bad THEN "error" ELSE "end"]
  <2>1. wr'[s].pc = (IF o.bad THEN "error" ELSE "end") /\ wr'[s].bad = o.bad
    BY <1>1, <1>5 DEF TypeOK, WriterState
  <2>2. Taken(s)' = Taken(s) /\ Passed(s)' = Passed(s)
    BY <1>1, <1>2, <1>5, <2>1 DEF Taken, Passed
  <2>3. InOrder(s)'
    BY <1>2, <1>5, <2>1, <2>2 DEF Direction, InOrder
  <2>4. Ending(s)'
    BY <1>1, <1>2, <1>3, <1>5, <2>1 DEF Direction, Ending
  <2>5. OnItsWay(s, t)'
    BY <1>2, <1>5 DEF Direction, OnItsWay
  <2>6. \A a : (Failed(s, a) => Failed(s, a)') /\ (Complete(s, a) => Complete(s, a)')
    BY <1>2, <1>5 DEF Complete, Failed
  <2>7. Reading(s, t) => Reading(s, t)'
    BY <1>1, <1>2, <1>3, <2>1, <2>2, <2>6 DEF Reading, Ordered
  <2>8. Receiving(s, t) => Receiving(s, t)'
    BY <1>2, <1>3, <2>6, <2>7 DEF Receiving
  <2> QED
    BY <1>2, <2>3, <2>4, <2>5, <2>8 DEF Direction
<1> QED
  BY <1>4, <1>5 DEF WriterRecv

\* A message written goes to the end of the chain.
LEMMA PutKeeps ==
    ASSUME TypeOK, NEW s \in Sides, NEW t \in Sides, t = Other(s),
           OnItsWay(s, t), NEW m \in Nat, Put(s, m), UNCHANGED <<dev, inq, outq, usr>>,
           m \notin Discards, m <= usr[s].sent, m = 0 => ~outq[s].open
    PROVE  /\ OnItsWay(s, t)'
           /\ rd'[t].bad = rd[t].bad
           /\ rd'[t].pc = rd[t].pc \/ {rd'[t].pc, rd[t].pc} \subseteq {"read", "send"}
           /\ AtIn(s, t)' = AtIn(s, t) /\ Got(t)' = Got(t)
           /\ Ordered(s, t) /\ Follows(AtWire(s, t), Place(usr[s].sent, m)) =>
                /\ Ordered(s, t)'
                /\ AtWire(s, t)' = Place(usr[s].sent, m)
<1> DEFINE n == usr[s].sent
           p == Place(n, m)
<1>0. /\ n \in Nat /\ wire[s] \in Seq(Nat) /\ rd[t] \in ReaderState /\ rd[t].msg \in Nat
      /\ AtIn(s, t) \in Nat /\ AtReader(s, t) \in Nat /\ AtWire(s, t) \in Nat
  BY PlaceTypes, SideTypes
<1>1. AtIn(s, t)' = AtIn(s, t) /\ Got(t)' = Got(t)
  BY DEF AtIn, Got
<1>2. CASE dev # "pipe"
  <2>1. wire'[s] = Append(wire[s], m) /\ UNCHANGED rd
    BY <1>2 DEF Put, TypeOK
  <2>3. OnItsWay(s, t)'
    BY <1>0, <1>2, <2>1, AppendFacts DEF OnItsWay
  <2>4. ASSUME Ordered(s, t), Follows(AtWire(s, t), p)
        PROVE  Ordered(s, t)' /\ AtWire(s, t)' = p
    <3>1. AtReader(s, t)' = AtReader(s, t)
      BY <1>1, <2>1 DEF AtReader
    <3>2. Chain(n, wire[s], AtReader(s, t)) /\ Follows(Top(n, wire[s], AtReader(s, t)), p)
      BY <2>4 DEF Ordered, AtWire
    <3>3. /\ Chain(n, Append(wire[s], m), AtReader(s, t))
          /\ Top(n, Append(wire[s], m), AtReader(s, t)) = p
      BY <1>0, <3>2, ChainAppend
    <3> QED
      BY <1>1, <2>1, <2>4, <3>1, <3>3 DEF Ordered, AtWire
  <2> QED
    BY <1>1, <2>1, <2>3, <2>4
<1>3. CASE dev = "pipe"
  <2>1. /\ rd[t].pc = "read" /\ UNCHANGED wire
        /\ rd'[t].pc = "send" /\ rd'[t].msg = m /\ rd'[t].bad = rd[t].bad
    BY <1>0, <1>3 DEF Put, TypeOK, ReaderState
  <2>2. wire[s] = <<>>
    BY <1>3 DEF OnItsWay
  <2>3. OnItsWay(s, t)'
    BY <2>1, <2>2 DEF OnItsWay
  <2>4. AtWire(s, t) = AtIn(s, t) /\ AtReader(s, t)' = p /\ AtWire(s, t)' = p
    BY <2>1, <2>2 DEF AtWire, AtReader, Top
  <2>5. ASSUME Follows(AtWire(s, t), p) PROVE Ordered(s, t)'
    <3>1. Chain(n, wire'[s], AtReader(s, t)')
      BY <2>1, <2>2 DEF Chain
    <3> QED
      BY <1>1, <2>1, <2>4, <2>5, <3>1 DEF Ordered
  <2> QED
    BY <1>1, <2>1, <2>3, <2>4, <2>5
<1> QED
  BY <1>2, <1>3

\* A value is written, left out because it can't be encoded, or fails because
\* nobody can get the rest.
LEMMA WriteKeeps ==
    ASSUME FailsOn \subseteq {"pipe"},
           TypeOK, NEW s \in Sides, NEW t \in Sides, t = Other(s),
           Direction(s, t), WriterWrite(s)
    PROVE  Direction(s, t)'
<1> DEFINE w == wr[s]
<1>1. /\ w \in WriterState /\ w.pc = "write" /\ w.msg \in Nat
      /\ usr[s].sent \in Nat /\ Len(outq[s].buf) \in Nat /\ Taken(s) \in Int
      /\ AtWire(s, t) \in Nat
  BY PlaceTypes, SideTypes DEF WriterWrite
<1>2. UNCHANGED <<dev, link, wend, rend, inq, outq, usr>>
  BY DEF WriterWrite
<1>3. Taken(s)' = Taken(s) /\ (Doomed(s, t) => Doomed(s, t)') /\ wr[s].pc = "write"
  <2>1. rd'[s].pc = "done" \/ rd[s].pc # "done"
    BY SidesFacts DEF WriterWrite, Put, TypeOK
  <2> QED
    BY <1>1, <1>2, <2>1 DEF Taken, Doomed, Excused
<1>4. /\ w.msg = Taken(s) /\ w.msg >= 1 /\ w.msg <= usr[s].sent
      /\ Passed(s) = w.msg - 1 /\ ~w.bad
      /\ Excused(s) \/ wend[s] = "no"
  BY <1>1 DEF Direction, InOrder, Ending, Taken, Passed
<1>5. Excused(s) => Excused(s)'
  BY <1>2, SidesFacts DEF WriterWrite, Put, TypeOK, Excused
<1>6. \A a : (Failed(s, a) => Failed(s, a)') /\ (Complete(s, a) => Complete(s, a)')
  BY <1>2 DEF Failed, Complete
<1>7. Place(usr[s].sent, w.msg) = w.msg
  BY <1>1, <1>4 DEF Place
<1>8. CASE /\ w.msg \in Discards /\ UNCHANGED <<wire, rd>>
           /\ wr' = [wr EXCEPT ![s].pc = "recv", ![s].msg = 0]
  <2>1. wr'[s].pc = "recv" /\ ~wr'[s].bad
    BY <1>1, <1>4, <1>8 DEF TypeOK, WriterState
  <2>2. Passed(s)' = w.msg /\ w.msg = Passed(s) + 1
    BY <1>1, <1>3, <1>4, <2>1 DEF Passed
  <2>3. /\ AtIn(s, t)' = AtIn(s, t) /\ Got(t)' = Got(t) /\ AtReader(s, t)' = AtReader(s, t)
        /\ AtWire(s, t)' = AtWire(s, t)
    BY <1>2, <1>8 DEF AtIn, Got, AtReader, AtWire
  <2>4. ASSUME Reading(s, t) PROVE Reading(s, t)'
    <3>1. AtWire(s, t) <= Passed(s) /\ Gap(AtWire(s, t), Passed(s))
      BY <1>1, <2>4 DEF Reading
    <3>2. Passed(s) \in Nat
      BY <1>1, <1>4
    <3>3. AtWire(s, t) <= w.msg /\ Gap(AtWire(s, t), w.msg)
      BY <1>1, <1>8, <2>2, <3>1, <3>2, GapFacts
    <3>4. Ordered(s, t)'
      BY <1>2, <1>8, <2>3, <2>4 DEF Reading, Ordered
    <3> QED
      BY <1>1, <1>2, <1>5, <2>1, <2>2, <2>3, <2>4, <3>3, <3>4 DEF Reading
  <2>5. Receiving(s, t) => Receiving(s, t)'
    BY <1>2, <1>5, <1>6, <1>8, <2>3, <2>4 DEF Receiving
  <2>6. InOrder(s)' /\ Ending(s)' /\ OnItsWay(s, t)'
    BY <1>2, <1>3, <1>4, <1>5, <1>8, <2>1 DEF Direction, InOrder, Ending, OnItsWay
  <2> QED
    BY <1>2, <2>5, <2>6 DEF Direction
<1>9. CASE /\ w.msg \notin Discards /\ Put(s, w.msg)
           /\ wr' = [wr EXCEPT ![s].pc = "recv", ![s].msg = 0]
  <2>1. wr'[s].pc = "recv" /\ ~wr'[s].bad
    BY <1>1, <1>4, <1>9 DEF TypeOK, WriterState
  <2>2. Passed(s)' = w.msg
    BY <1>3, <1>4, <2>1 DEF Passed
  <2>3. /\ OnItsWay(s, t)'
        /\ rd'[t].bad = rd[t].bad
        /\ rd'[t].pc = rd[t].pc \/ {rd'[t].pc, rd[t].pc} \subseteq {"read", "send"}
        /\ AtIn(s, t)' = AtIn(s, t) /\ Got(t)' = Got(t)
        /\ Ordered(s, t) /\ Follows(AtWire(s, t), w.msg) =>
                Ordered(s, t)' /\ AtWire(s, t)' = w.msg
    BY <1>1, <1>2, <1>4, <1>7, <1>9, PutKeeps DEF Direction
  <2>4. ASSUME Reading(s, t) PROVE Reading(s, t)'
    <3>1. AtWire(s, t) <= w.msg - 1 /\ Gap(AtWire(s, t), w.msg - 1)
      BY <1>1, <1>4, <2>4 DEF Reading
    <3>2. Follows(AtWire(s, t), w.msg)
      BY <1>1, <3>1 DEF Follows
    <3>3. Ordered(s, t)' /\ AtWire(s, t)' = w.msg
      BY <2>3, <2>4, <3>2 DEF Reading
    <3>4. AtWire(s, t)' <= Passed(s)' /\ Gap(AtWire(s, t)', Passed(s)')
      BY <1>1, <2>2, <3>3, GapFacts
    <3>5. wend'[s] = "eof" => Excused(s)' \/ rend'[t]
      BY <1>2, <1>4, <1>5
    <3> QED
      BY <2>1, <3>3, <3>4, <3>5 DEF Reading
  <2>5. Receiving(s, t) => Receiving(s, t)'
    BY <1>2, <1>5, <1>6, <2>3, <2>4 DEF Receiving
  <2>6. InOrder(s)' /\ Ending(s)'
    BY <1>2, <1>3, <1>4, <1>5, <2>1 DEF Direction, InOrder, Ending
  <2> QED
    BY <1>2, <2>3, <2>5, <2>6 DEF Direction
<1>10. CASE /\ WriteFails(s) \/ dev \in FailsOn
            /\ wr' = [wr EXCEPT ![s].pc = "end", ![s].msg = 0, ![s].bad = TRUE]
            /\ UNCHANGED <<wire, rd>>
  <2>1. wr'[s].pc = "end" /\ wr'[s].bad
    BY <1>1, <1>10 DEF TypeOK, WriterState
  <2>2. Doomed(s, t)'
    BY <1>3, <1>4, <1>10 DEF WriteFails, Doomed
  <2>3. /\ AtIn(s, t)' = AtIn(s, t) /\ Got(t)' = Got(t) /\ AtReader(s, t)' = AtReader(s, t)
        /\ AtWire(s, t)' = AtWire(s, t)
    BY <1>2, <1>10 DEF AtIn, Got, AtReader, AtWire
  <2>4. ASSUME Reading(s, t) PROVE Reading(s, t)'
    <3>1. Ordered(s, t)'
      BY <1>2, <1>10, <2>3, <2>4 DEF Reading, Ordered
    <3> QED
      BY <1>1, <1>2, <1>4, <1>5, <2>1, <2>2, <3>1 DEF Reading
  <2>5. Receiving(s, t) => Receiving(s, t)'
    BY <1>2, <1>5, <1>6, <1>10, <2>3, <2>4 DEF Receiving
  <2>6. InOrder(s)' /\ Ending(s)' /\ OnItsWay(s, t)'
    BY <1>2, <1>3, <1>4, <1>5, <1>10, <2>1 DEF Direction, InOrder, Ending, OnItsWay
  <2> QED
    BY <1>2, <2>5, <2>6 DEF Direction
<1> QED
  BY <1>8, <1>9, <1>10 DEF WriterWrite

\* The error of the channel goes after all that was sent, or the peer will
\* know by other means.
LEMMA ErrorKeeps ==
    ASSUME TypeOK, NEW s \in Sides, NEW t \in Sides, t = Other(s),
           Direction(s, t), WriterError(s)
    PROVE  Direction(s, t)'
<1> DEFINE w == wr[s]
           n == usr[s].sent
<1>1. /\ w \in WriterState /\ w.pc = "error" /\ 0 \in Nat /\ 0 <= n
      /\ n \in Nat /\ Taken(s) \in Int /\ AtWire(s, t) \in Nat
  <2>1. n \in Nat /\ Taken(s) \in Int /\ AtWire(s, t) \in Nat
    BY PlaceTypes
  <2>2. w \in WriterState /\ w.pc = "error"
    BY SideTypes DEF WriterError
  <2> QED
    BY <2>1, <2>2
<1>2. UNCHANGED <<dev, link, wend, rend, inq, outq, usr>>
  BY DEF WriterError
<1>3. wr'[s].pc = "end" /\ wr'[s].bad = w.bad /\ w.bad
  BY <1>1 DEF WriterError, TypeOK, WriterState, Direction, Ending
<1>4. Drained(outq[s]) /\ outq[s].bad /\ ~outq[s].open /\ Taken(s) = n /\ Passed(s) = n
  BY <1>1 DEF Direction, Ending, Drained, Taken, Passed
<1>5. (Excused(s) => Excused(s)') /\ (Doomed(s, t) => Doomed(s, t)') /\ Taken(s)' = Taken(s)
  <2>1. rd'[s].pc = "done" \/ rd[s].pc # "done"
    BY SidesFacts DEF WriterError, SendError, Put, TypeOK
  <2> QED
    BY <1>2, <2>1 DEF Taken, Doomed, Excused
<1>6. Excused(s) \/ wend[s] = "no"
  BY <1>1 DEF Direction, Ending
<1>7. \A a : (Failed(s, a) => Failed(s, a)') /\ (Complete(s, a) => Complete(s, a)')
  BY <1>2 DEF Failed, Complete
<1>8. InOrder(s)' /\ Ending(s)'
  BY <1>1, <1>2, <1>3, <1>4, <1>5, <1>6 DEF Direction, InOrder, Ending
<1>9. CASE Put(s, 0)
  <2>1. Place(n, 0) = n + 1 /\ 0 \notin Discards
    BY ConnAssumption DEF Place, ConnAssumption
  <2>2. /\ OnItsWay(s, t)'
        /\ rd'[t].bad = rd[t].bad
        /\ rd'[t].pc = rd[t].pc \/ {rd'[t].pc, rd[t].pc} \subseteq {"read", "send"}
        /\ AtIn(s, t)' = AtIn(s, t) /\ Got(t)' = Got(t)
        /\ Ordered(s, t) /\ Follows(AtWire(s, t), n + 1) =>
                Ordered(s, t)' /\ AtWire(s, t)' = n + 1
    BY <1>1, <1>2, <1>4, <1>9, <2>1, PutKeeps DEF Direction
  <2>3. ASSUME Reading(s, t) PROVE Reading(s, t)'
    <3>1. AtWire(s, t) <= n /\ Gap(AtWire(s, t), n)
      BY <1>1, <1>4, <2>3 DEF Reading
    <3>2. Follows(AtWire(s, t), n + 1)
      BY <1>1, <3>1 DEF Follows
    <3>3. Ordered(s, t)' /\ Failed(s, AtWire(s, t))'
      BY <1>2, <1>4, <2>2, <2>3, <3>2 DEF Reading, Failed
    <3> QED
      BY <1>2, <1>3, <1>5, <1>6, <3>3 DEF Reading
  <2>4. Receiving(s, t) => Receiving(s, t)'
    BY <1>2, <1>5, <1>7, <2>2, <2>3 DEF Receiving
  <2> QED
    BY <1>2, <1>8, <2>2, <2>4 DEF Direction
<1>10. CASE WriteFails(s) /\ UNCHANGED <<wire, rd>>
  <2>1. Doomed(s, t)'
    BY <1>5, <1>6, <1>10 DEF WriteFails, Doomed
  <2>2. /\ AtIn(s, t)' = AtIn(s, t) /\ Got(t)' = Got(t) /\ AtReader(s, t)' = AtReader(s, t)
        /\ AtWire(s, t)' = AtWire(s, t)
    BY <1>2, <1>10 DEF AtIn, Got, AtReader, AtWire
  <2>3. ASSUME Reading(s, t) PROVE Reading(s, t)'
    <3>1. Ordered(s, t)'
      BY <1>2, <1>10, <2>2, <2>3 DEF Reading, Ordered
    <3> QED
      BY <1>2, <1>3, <1>5, <1>6, <2>1, <3>1 DEF Reading
  <2>4. Receiving(s, t) => Receiving(s, t)'
    BY <1>2, <1>5, <1>7, <1>10, <2>2, <2>3 DEF Receiving
  <2>5. OnItsWay(s, t)'
    BY <1>2, <1>10 DEF Direction, OnItsWay
  <2> QED
    BY <1>2, <1>8, <2>4, <2>5 DEF Direction
<1> QED
  BY <1>9, <1>10 DEF WriterError, SendError

\* What the writer leaves when it ends is complete, or its reader knows.
LEMMA WriterEndKeeps ==
    ASSUME TypeOK, NEW s \in Sides, NEW t \in Sides, t = Other(s),
           Direction(s, t), WriterEnd(s)
    PROVE  Direction(s, t)'
<1> DEFINE w == wr[s]
           o == outq[s]
           n == usr[s].sent
<1>1. /\ w \in WriterState /\ w.pc = "end" /\ w.bad \in BOOLEAN /\ o \in Chan(Nat)
      /\ n \in Nat /\ Taken(s) \in Int /\ AtWire(s, t) \in Nat /\ s # t
  BY PlaceTypes, SideTypes, SidesFacts DEF WriterEnd, WriterState
<1>2. UNCHANGED <<dev, link, wire, inq, rd, usr>>
  BY DEF WriterEnd
<1>3. wr'[s].pc = "done" /\ wr'[s].bad = w.bad
  BY <1>1 DEF WriterEnd, TypeOK, WriterState
<1>4. PICK b \in BOOLEAN : outq'[s] = CloseChan(o, w.bad \/ b)
  BY <1>1 DEF WriterEnd, WriteFails, TypeOK
<1>5. outq'[s].buf = o.buf /\ ~outq'[s].open /\ (~o.open => outq'[s] = o)
  BY <1>1, <1>4, ChanFacts DEF CloseChan
<1>6. wend'[s] = EndOf(s, w.bad) /\ rend'[t] = rend[t]
  BY <1>1 DEF WriterEnd, ShutWrite, TypeOK
<1>7. ~w.bad => Drained(o) /\ ~o.bad /\ Taken(s) = n /\ Passed(s) = n
  BY <1>1 DEF Direction, Ending, Drained, Taken, Passed
<1>8. /\ AtIn(s, t)' = AtIn(s, t) /\ Got(t)' = Got(t) /\ AtReader(s, t)' = AtReader(s, t)
      /\ AtWire(s, t)' = AtWire(s, t) /\ Excused(s)' = Excused(s)
      /\ (Doomed(s, t) => Doomed(s, t)')
      /\ Taken(s)' = Taken(s) /\ Passed(s)' = Passed(s)
  BY <1>1, <1>2, <1>3, <1>5, <1>6
  DEF AtIn, Got, AtReader, AtWire, Excused, Doomed, Taken, Passed
<1>9. \A a : (Failed(s, a) => Failed(s, a)') /\ (Complete(s, a) => Complete(s, a)')
  BY <1>2, <1>5 DEF Failed, Complete, Drained
<1>10. InOrder(s)' /\ Ending(s)' /\ OnItsWay(s, t)'
  BY <1>1, <1>2, <1>3, <1>5, <1>7, <1>8 DEF Direction, InOrder, Ending, OnItsWay, Drained
<1>11. ASSUME Reading(s, t) PROVE Reading(s, t)'
  <2>1. Ordered(s, t)'
    BY <1>2, <1>8, <1>11 DEF Reading, Ordered
  <2>2. ~w.bad => AtWire(s, t) <= n /\ Gap(AtWire(s, t), n)
    BY <1>1, <1>7, <1>11 DEF Reading
  <2>3. w.bad => Failed(s, AtWire(s, t))' \/ Doomed(s, t)
    BY <1>1, <1>8, <1>9, <1>11 DEF Reading
  <2>4. ASSUME wend'[s] = "eof"
        PROVE  Excused(s)' \/ rend'[t] \/ Complete(s, AtWire(s, t))'
    <3>1. CASE wend[s] # "no"
      <4>1. wend[s] = "eof"
        BY <1>6, <2>4, <3>1 DEF EndOf
      <4> QED
        BY <1>1, <1>6, <1>8, <1>11, <4>1 DEF Reading
    <3>2. CASE wend[s] = "no"
      <4>1. link /\ ~(dev = "pipe" /\ w.bad)
        BY <1>6, <2>4, <3>2 DEF EndOf
      <4>2. CASE w.bad
        BY <1>6, <1>8, <2>3, <4>1, <4>2 DEF Complete, Doomed
      <4>3. CASE ~w.bad
        BY <1>2, <1>5, <1>7, <1>8, <2>2, <4>3 DEF Complete, Drained
      <4> QED
        BY <4>2, <4>3
    <3> QED
      BY <3>1, <3>2
  <2> QED
    BY <1>3, <1>7, <1>8, <2>1, <2>2, <2>3, <2>4 DEF Reading
<1>12. Receiving(s, t) => Receiving(s, t)'
  BY <1>2, <1>8, <1>9, <1>11 DEF Receiving
<1> QED
  BY <1>2, <1>10, <1>12 DEF Direction

-----------------------------------------------------------------------------
(* What the reader of t does.                                              *)

\* Taking a message from the device moves it to the reader, in its place; at
\* the end of the stream there is nothing left to take.
LEMMA ReadKeeps ==
    ASSUME TypeOK, NEW s \in Sides, NEW t \in Sides, t = Other(s),
           Direction(s, t), ReaderRead(t)
    PROVE  Direction(s, t)'
<1> DEFINE r == rd[t]
           n == usr[s].sent
           q == wire[s]
<1>1. /\ r \in ReaderState /\ r.pc = "read" /\ q \in Seq(Nat) /\ n \in Nat
      /\ s # t /\ Other(t) = s
      /\ AtIn(s, t) \in Nat /\ AtWire(s, t) \in Nat
  BY PlaceTypes, SideTypes, SidesFacts DEF ReaderRead
<1>2. UNCHANGED <<dev, link, wend, rend, inq, outq, wr, usr>>
  BY DEF ReaderRead
<1>3. rd'[s] = rd[s]
  BY <1>1 DEF ReaderRead, TypeOK
<1>4. /\ AtIn(s, t)' = AtIn(s, t) /\ Got(t)' = Got(t) /\ AtReader(s, t) = AtIn(s, t)
      /\ Taken(s)' = Taken(s) /\ Passed(s)' = Passed(s)
      /\ Excused(s)' = Excused(s) /\ Doomed(s, t)' = Doomed(s, t)
  BY <1>1, <1>2, <1>3 DEF AtIn, Got, AtReader, Taken, Passed, Excused, Doomed
<1>5. \A a : (Failed(s, a)' <=> Failed(s, a)) /\ (Complete(s, a)' <=> Complete(s, a))
  BY <1>2 DEF Failed, Complete
<1>6. InOrder(s)' /\ Ending(s)'
  BY <1>2, <1>4 DEF Direction, InOrder, Ending
<1>7. CASE /\ q # <<>> /\ wire' = [wire EXCEPT ![s] = Tail(@)]
           /\ rd' = [rd EXCEPT ![t].pc = "send", ![t].msg = Head(q)]
  <2>1. /\ rd'[t].pc = "send" /\ rd'[t].msg = Head(q) /\ rd'[t].bad = r.bad
        /\ wire'[s] = Tail(q)
    BY <1>1, <1>7 DEF TypeOK, ReaderState
  <2>2. /\ Head(q) = q[1] /\ 1 \in 1..Len(q) /\ Head(q) \in Nat
        /\ Len(Tail(q)) = Len(q) - 1
        /\ \A i \in 1..Len(Tail(q)) : i + 1 \in 1..Len(q) /\ Tail(q)[i] = q[i + 1]
    BY <1>1, <1>7
  <2>3. OnItsWay(s, t)'
    <3>1. AtMost(Tail(q), n) /\ Head(q) <= n
      BY <2>2 DEF Direction, OnItsWay, AtMost
    <3>2. outq[s].open => NoError(Tail(q)) /\ Head(q) # 0
      BY <2>2 DEF Direction, OnItsWay, NoError
    <3>3. dev # "pipe"
      BY <1>7 DEF Direction, OnItsWay
    <3>4. /\ AtMost(inq[t].buf, n)
          /\ outq[s].open => NoError(inq[t].buf)
      BY DEF Direction, OnItsWay
    <3> QED
      BY <1>2, <2>1, <3>1, <3>2, <3>3, <3>4 DEF OnItsWay
  <2>4. ASSUME Reading(s, t) PROVE Reading(s, t)'
    <3>1. Chain(n, q, AtIn(s, t))
      BY <1>4, <2>4 DEF Reading, Ordered
    <3>2. /\ Head(q) \notin Discards /\ Follows(AtIn(s, t), Place(n, Head(q)))
          /\ Chain(n, Tail(q), Place(n, Head(q)))
          /\ Top(n, Tail(q), Place(n, Head(q))) = Top(n, q, AtIn(s, t))
      BY <1>1, <1>7, <3>1, ChainTail
    <3>3. AtReader(s, t)' = Place(n, Head(q))
      BY <1>2, <2>1 DEF AtReader
    <3>4. AtWire(s, t)' = AtWire(s, t)
      BY <1>2, <1>4, <2>1, <3>2, <3>3 DEF AtWire
    <3>5. Ordered(s, t)'
      BY <1>2, <1>4, <2>1, <3>2, <3>3 DEF Ordered
    <3> QED
      BY <1>2, <1>4, <1>5, <2>4, <3>4, <3>5 DEF Reading
  <2>5. Receiving(s, t) => Receiving(s, t)'
    BY <1>1, <1>2, <1>4, <1>5, <2>1, <2>4 DEF Receiving
  <2> QED
    BY <1>2, <1>6, <2>3, <2>5 DEF Direction
<1>8. CASE /\ UNCHANGED wire
           /\ \/ ReadEOF(t) /\ rd' = [rd EXCEPT ![t].pc = "end"]
              \/ ReadFails(t) /\ rd' = [rd EXCEPT ![t].pc = "end", ![t].bad = TRUE]
  <2>1. /\ rd'[t].pc = "end" /\ rd'[t].msg = r.msg
        /\ rd'[t].bad \/ ReadEOF(t)
    BY <1>1, <1>8 DEF TypeOK, ReaderState
  <2>2. OnItsWay(s, t)'
    BY <1>2, <1>8, <2>1 DEF Direction, OnItsWay
  <2>3. ASSUME Receiving(s, t) PROVE Receiving(s, t)'
    <3>1. ASSUME ReadEOF(t) PROVE Excused(s) \/ Complete(s, AtIn(s, t))
      <4>1. q = <<>> /\ wend[s] = "eof" /\ ~rend[t]
        BY <1>1, <3>1 DEF ReadEOF
      <4>2. AtWire(s, t) = AtIn(s, t)
        BY <1>4, <4>1 DEF AtWire, Top
      <4> QED
        BY <1>1, <2>3, <4>1, <4>2 DEF Receiving, Reading
    <3> QED
      BY <1>1, <1>2, <1>4, <1>5, <2>1, <2>3, <3>1 DEF Receiving
  <2> QED
    BY <1>2, <1>6, <2>2, <2>3 DEF Direction
<1> QED
  BY <1>1, <1>7, <1>8 DEF ReaderRead

\* The message read goes to the end of inq.
LEMMA SendKeeps ==
    ASSUME TypeOK, NEW s \in Sides, NEW t \in Sides, t = Other(s),
           Direction(s, t), ReaderSend(t)
    PROVE  Direction(s, t)'
<1> DEFINE r == rd[t]
           n == usr[s].sent
           c == inq[t]
<1>1. /\ r \in ReaderState /\ r.pc = "send" /\ r.msg \in Nat /\ c \in Chan(Nat)
      /\ c.buf \in Seq(Nat) /\ n \in Nat /\ s # t /\ Got(t) \in Nat
  BY PlaceTypes, SideTypes, SidesFacts DEF ReaderSend
<1>2. UNCHANGED <<dev, link, wire, wend, rend, outq, wr, usr>>
  BY DEF ReaderSend, device
<1>3. rd'[s] = rd[s]
  BY <1>1 DEF ReaderSend, TypeOK
<1>4. /\ Got(t)' = Got(t) /\ Taken(s)' = Taken(s) /\ Passed(s)' = Passed(s)
      /\ Excused(s)' = Excused(s) /\ Doomed(s, t)' = Doomed(s, t)
  BY <1>1, <1>2, <1>3 DEF Got, Taken, Passed, Excused, Doomed
<1>5. \A a : (Failed(s, a)' <=> Failed(s, a)) /\ (Complete(s, a)' <=> Complete(s, a))
  BY <1>2 DEF Failed, Complete
<1>6. InOrder(s)' /\ Ending(s)'
  BY <1>2, <1>4 DEF Direction, InOrder, Ending
<1>7. CASE /\ c.open /\ inq' = [inq EXCEPT ![t] = Push(@, r.msg)]
           /\ rd' = [rd EXCEPT ![t].pc = "read", ![t].msg = 0]
  <2>1. /\ rd'[t].pc = "read" /\ rd'[t].msg = 0 /\ rd'[t].bad = r.bad
        /\ inq'[t] = Push(c, r.msg)
    BY <1>1, <1>7 DEF TypeOK, ReaderState
  <2>2. inq'[t].buf = Append(c.buf, r.msg) /\ inq'[t].open
    BY <1>1, <1>7, <2>1 DEF Push, Chan
  <2>3. OnItsWay(s, t)'
    <3>1. r.msg <= n /\ AtMost(c.buf, n) /\ (outq[s].open => r.msg # 0 /\ NoError(c.buf))
      BY <1>1 DEF Direction, OnItsWay
    <3>2. AtMost(inq'[t].buf, n) /\ (outq[s].open => NoError(inq'[t].buf))
      BY <1>1, <2>2, <3>1, AppendFacts
    <3> QED
      BY <1>1, <1>2, <2>1, <3>2 DEF Direction, OnItsWay
  <2>4. ASSUME Receiving(s, t) PROVE Receiving(s, t)'
    <3>1. Reading(s, t)
      BY <1>1, <2>4 DEF Receiving
    <3>2. /\ Chain(n, Append(c.buf, r.msg), Got(t))
          /\ Top(n, Append(c.buf, r.msg), Got(t)) = Place(n, r.msg)
      BY <1>1, <2>4, <3>1, ChainAppend DEF Receiving, Reading, Ordered, AtIn
    <3>3. AtIn(s, t)' = Place(n, r.msg) /\ AtReader(s, t)' = AtReader(s, t)
      BY <1>1, <1>2, <1>4, <2>1, <2>2, <3>2 DEF AtIn, AtReader
    <3>4. AtWire(s, t)' = AtWire(s, t) /\ Ordered(s, t)'
      BY <1>2, <2>1, <3>1, <3>3 DEF AtWire, Reading, Ordered
    <3>5. Reading(s, t)'
      BY <1>2, <1>4, <1>5, <3>1, <3>4 DEF Reading
    <3> QED
      BY <1>2, <1>4, <2>1, <2>2, <2>4, <3>2, <3>5 DEF Receiving
  <2> QED
    BY <1>2, <1>6, <2>3, <2>4 DEF Direction
<1>8. CASE /\ ~c.open /\ UNCHANGED inq
           /\ rd' = [rd EXCEPT ![t].pc = "end", ![t].msg = 0, ![t].bad = c.bad]
  <2>1. rd'[t].pc = "end" /\ rd'[t].msg = 0
    BY <1>1, <1>8 DEF TypeOK, ReaderState
  <2>2. ~Receiving(s, t)
    BY <1>1, <1>8 DEF Receiving
  <2>3. OnItsWay(s, t)'
    BY <1>1, <1>2, <1>8, <2>1 DEF Direction, OnItsWay
  <2> QED
    BY <1>2, <1>6, <2>2, <2>3 DEF Direction
<1> QED
  BY <1>7, <1>8 DEF ReaderSend

\* When the reader ends, inq tells how.
LEMMA ReaderEndKeeps ==
    ASSUME TypeOK, NEW s \in Sides, NEW t \in Sides, t = Other(s),
           Direction(s, t), ReaderEnd(t)
    PROVE  Direction(s, t)'
<1> DEFINE r == rd[t]
           c == inq[t]
<1>1. /\ r \in ReaderState /\ r.pc = "end" /\ c \in Chan(Nat) /\ r.bad \in BOOLEAN
      /\ s # t
  BY SideTypes, SidesFacts DEF ReaderEnd, ReaderState
<1>2. UNCHANGED <<dev, link, wire, outq, wr, usr>>
  BY DEF ReaderEnd
<1>3. /\ rd'[s] = rd[s] /\ rd'[t].pc = "done" /\ rd'[t].msg = r.msg /\ rd'[t].bad = r.bad
      /\ inq'[t] = CloseChan(c, r.bad) /\ wend'[s] = wend[s]
  BY <1>1 DEF ReaderEnd, ShutRead, TypeOK, ReaderState
<1>4. inq'[t].buf = c.buf /\ ~inq'[t].open /\ (c.open => inq'[t].bad = r.bad)
  BY <1>1, <1>3, ChanFacts DEF CloseChan
<1>5. /\ AtIn(s, t)' = AtIn(s, t) /\ Got(t)' = Got(t) /\ Taken(s)' = Taken(s)
      /\ Excused(s)' = Excused(s)
  BY <1>2, <1>3, <1>4 DEF AtIn, Got, Taken, Excused
<1>6. \A a : Complete(s, a)' <=> Complete(s, a)
  BY <1>2 DEF Failed, Complete
<1>7. InOrder(s)' /\ Ending(s)' /\ OnItsWay(s, t)'
  BY <1>1, <1>2, <1>3, <1>4, <1>5 DEF Direction, InOrder, Ending, OnItsWay
<1>8. Receiving(s, t) => Receiving(s, t)'
  BY <1>1, <1>2, <1>3, <1>4, <1>5, <1>6 DEF Receiving
<1> QED
  BY <1>2, <1>7, <1>8 DEF Direction

-----------------------------------------------------------------------------
(* What users do.                                                          *)

\* A value sent goes to the end of outq, and there are no errors before it.
LEMMA UserSendKeeps ==
    ASSUME TypeOK, NEW s \in Sides, NEW t \in Sides, t = Other(s),
           Direction(s, t), UserSend(s)
    PROVE  Direction(s, t)'
<1> DEFINE o == outq[s]
           n == usr[s].sent
<1>1. /\ o \in Chan(Nat) /\ o.buf \in Seq(Nat) /\ o.open /\ Len(o.buf) \in Nat
      /\ n \in Nat /\ n + 1 \in Nat /\ s # t /\ usr[s] \in UserState
      /\ inq[t].buf \in Seq(Nat) /\ wire[s] \in Seq(Nat) /\ rd[t].msg \in Nat
      /\ Got(t) \in Nat /\ AtReader(s, t) \in Nat /\ Taken(s) \in Int
  <2>1. /\ o.buf \in Seq(Nat) /\ Len(o.buf) \in Nat /\ n \in Nat
        /\ inq[t].buf \in Seq(Nat) /\ wire[s] \in Seq(Nat) /\ rd[t].msg \in Nat
        /\ Got(t) \in Nat /\ AtReader(s, t) \in Nat /\ Taken(s) \in Int
    BY PlaceTypes
  <2>2. o \in Chan(Nat) /\ usr[s] \in UserState /\ s # t /\ o.open
    BY SideTypes, SidesFacts DEF UserSend
  <2> QED
    BY <2>1, <2>2
<1>2. UNCHANGED <<dev, link, wire, wend, rend, inq, wr, rd>>
  BY DEF UserSend, device
<1>3. usr'[s].sent = n + 1 /\ usr'[t] = usr[t] /\ outq'[s] = Push(o, n + 1)
  BY <1>1 DEF UserSend, TypeOK, UserState
<1>4. /\ outq'[s].buf = Append(o.buf, n + 1) /\ outq'[s].open
      /\ Len(Append(o.buf, n + 1)) = Len(o.buf) + 1
      /\ Append(o.buf, n + 1)[Len(o.buf) + 1] = n + 1
      /\ \A i \in 1..Len(o.buf) : Append(o.buf, n + 1)[i] = o.buf[i]
  BY <1>1, <1>3 DEF Push, Chan
<1>5. /\ Taken(s)' = Taken(s) /\ Passed(s)' = Passed(s) /\ Got(t)' = Got(t)
      /\ Excused(s)' = Excused(s) /\ Doomed(s, t)' = Doomed(s, t)
      /\ Taken(s) + (Len(o.buf) + 1) = n + 1
  <2>1. Taken(s)' = Taken(s) /\ Taken(s) + (Len(o.buf) + 1) = n + 1
    <3>1. Len(outq'[s].buf) = Len(o.buf) + 1 /\ Len(o.buf) \in Nat /\ n \in Nat
      BY <1>1, <1>4
    <3>2. Taken(s) = n - Len(o.buf) /\ Taken(s)' = (n + 1) - Len(outq'[s].buf)
      BY <1>3 DEF Taken
    <3>3. \A a \in Nat, b \in Nat : (a + 1) - (b + 1) = a - b /\ (a - b) + (b + 1) = a + 1
      OBVIOUS
    <3> QED
      BY <3>1, <3>2, <3>3
  <2>2. Got(t)' = Got(t) /\ Excused(s)' = Excused(s) /\ Doomed(s, t)' = Doomed(s, t)
    BY <1>2, <1>3 DEF Got, Excused, Doomed
  <2> QED
    BY <1>2, <2>1, <2>2 DEF Passed
<1>6. /\ NoError(inq[t].buf) /\ NoError(wire[s]) /\ (rd[t].pc = "send" => rd[t].msg # 0)
  BY <1>1 DEF Direction, OnItsWay
<1>7. \A a : ~Failed(s, a) /\ ~Complete(s, a)
  BY <1>1 DEF Failed, Complete, Drained
<1>8. InOrder(s)'
  <2>1. ASSUME NEW i \in 1..(Len(o.buf) + 1)
        PROVE  Append(o.buf, n + 1)[i] = Taken(s) + i
    <3> DEFINE l == Len(o.buf)
    <3>1. l \in Nat /\ i \in 1..(l + 1)
      BY <1>1
    <3> HIDE DEF l
    <3>2. i \in 1..l \/ i = l + 1
      BY <3>1
    <3> QED
      BY <1>4, <1>5, <3>2 DEF Direction, InOrder, l
  <2>2. Len(o.buf) + 1 <= n + 1
    <3>1. Len(o.buf) <= n
      BY DEF Direction, InOrder
    <3> QED
      BY <1>1, <3>1
  <2> QED
    BY <1>2, <1>3, <1>4, <1>5, <2>1, <2>2 DEF Direction, InOrder
<1>9. Ending(s)'
  BY <1>1, <1>2, <1>3, <1>4, <1>5 DEF Direction, Ending, Drained
<1>10. OnItsWay(s, t)'
  <2>1. /\ AtMost(inq[t].buf, n + 1) /\ AtMost(wire[s], n + 1) /\ rd[t].msg <= n + 1
    <3>1. ASSUME NEW q \in Seq(Nat), AtMost(q, n) PROVE AtMost(q, n + 1)
      <4>1. ASSUME NEW i \in 1..Len(q) PROVE q[i] <= n + 1
        <5>1. q[i] \in Nat
          OBVIOUS
        <5>2. q[i] <= n
          BY <3>1 DEF AtMost
        <5>3. n \in Nat
          BY <1>1
        <5> QED
          BY <5>1, <5>2, <5>3
      <4> QED
        BY <4>1 DEF AtMost
    <3>2. AtMost(inq[t].buf, n) /\ AtMost(wire[s], n) /\ rd[t].msg <= n
      BY DEF Direction, OnItsWay
    <3>3. inq[t].buf \in Seq(Nat) /\ wire[s] \in Seq(Nat) /\ rd[t].msg \in Nat /\ n \in Nat
      BY <1>1
    <3> HIDE DEF n
    <3>4. AtMost(inq[t].buf, n + 1) /\ AtMost(wire[s], n + 1)
      BY <3>1, <3>2, <3>3
    <3>5. rd[t].msg <= n + 1
      BY <3>2, <3>3
    <3> QED
      BY <3>4, <3>5
  <2> QED
    BY <1>2, <1>3, <1>6, <2>1 DEF Direction, OnItsWay
<1>11. ASSUME Receiving(s, t) PROVE Receiving(s, t)'
  <2>1. /\ Chain(n + 1, inq[t].buf, Got(t))
        /\ Top(n + 1, inq[t].buf, Got(t)) = Top(n, inq[t].buf, Got(t))
    <3>1. Chain(n, inq[t].buf, Got(t))
      BY <1>11 DEF Receiving
    <3> HIDE DEF n
    <3> QED
      BY <1>1, <1>6, <3>1, ChainMore
  <2>2. AtIn(s, t)' = AtIn(s, t) /\ AtReader(s, t)' = AtReader(s, t)
    BY <1>2, <1>3, <1>5, <1>6, <2>1 DEF AtIn, AtReader, Place
  <2>3. ASSUME Reading(s, t) PROVE Reading(s, t)'
    <3>1. /\ Chain(n + 1, wire[s], AtReader(s, t))
          /\ Top(n + 1, wire[s], AtReader(s, t)) = AtWire(s, t)
      <4>1. Chain(n, wire[s], AtReader(s, t)) /\ AtWire(s, t) = Top(n, wire[s], AtReader(s, t))
        BY <2>3 DEF Reading, Ordered, AtWire
      <4> HIDE DEF n
      <4> QED
        BY <1>1, <1>6, <4>1, ChainMore
    <3>2. AtWire(s, t)' = AtWire(s, t)
      BY <1>2, <1>3, <2>2, <3>1 DEF AtWire
    <3>3. rd[t].pc = "send" => Place(n + 1, rd[t].msg) = Place(n, rd[t].msg)
      BY <1>6 DEF Place
    <3>4. Ordered(s, t)'
      BY <1>2, <1>3, <2>2, <2>3, <3>1, <3>3 DEF Reading, Ordered
    <3> QED
      BY <1>2, <1>5, <1>7, <2>3, <3>2, <3>4 DEF Reading
  <2>4. Got(t)' <= usr'[s].sent
    BY <1>1, <1>3, <1>5, <1>11 DEF Receiving
  <2> QED
    BY <1>2, <1>3, <1>5, <1>7, <1>11, <2>1, <2>3, <2>4 DEF Receiving
<1> QED
  BY <1>3, <1>8, <1>9, <1>10, <1>11 DEF Direction

\* Closing outq does not change what is on its way.
LEMMA UserCloseKeeps ==
    ASSUME TypeOK, NEW s \in Sides, NEW t \in Sides, t = Other(s),
           Direction(s, t), NEW b \in BOOLEAN, UserClose(s, b)
    PROVE  Direction(s, t)'
<1> DEFINE o == outq[s]
<1>1. o \in Chan(Nat) /\ o.open /\ usr[s].sent \in Nat
  BY PlaceTypes, SideTypes DEF UserClose
<1>2. UNCHANGED <<dev, link, wire, wend, rend, inq, wr, rd, usr>>
  BY DEF UserClose, device
<1>3. outq'[s].buf = o.buf /\ ~outq'[s].open
  BY <1>1, ChanFacts DEF UserClose, TypeOK, CloseChan
<1>4. /\ AtIn(s, t)' = AtIn(s, t) /\ Got(t)' = Got(t) /\ AtReader(s, t)' = AtReader(s, t)
      /\ AtWire(s, t)' = AtWire(s, t) /\ Excused(s)' = Excused(s)
      /\ Doomed(s, t)' = Doomed(s, t)
      /\ Taken(s)' = Taken(s) /\ Passed(s)' = Passed(s)
  BY <1>2, <1>3 DEF AtIn, Got, AtReader, AtWire, Excused, Doomed, Taken, Passed
<1>5. \A a : ~Failed(s, a) /\ ~Complete(s, a)
  BY <1>1 DEF Failed, Complete, Drained
<1>6. InOrder(s)' /\ Ending(s)' /\ OnItsWay(s, t)'
  BY <1>1, <1>2, <1>3, <1>4 DEF Direction, InOrder, Ending, OnItsWay, Drained
<1>7. Reading(s, t) => Reading(s, t)'
  BY <1>2, <1>4, <1>5 DEF Reading, Ordered
<1>8. Receiving(s, t) => Receiving(s, t)'
  BY <1>2, <1>4, <1>5, <1>7 DEF Receiving
<1> QED
  BY <1>2, <1>6, <1>8 DEF Direction

\* The message that the user takes is the next one.
LEMMA NextValue ==
    ASSUME TypeOK, NEW s \in Sides, NEW t \in Sides, t = Other(s),
           Direction(s, t), UserRecv(t)
    PROVE  /\ Head(inq[t].buf) \in Nat /\ Head(inq[t].buf) <= usr[s].sent
           /\ Head(inq[t].buf) \notin Discards
           /\ Head(inq[t].buf) # 0 => Follows(Got(t), Head(inq[t].buf))
<1> DEFINE q == inq[t].buf
           n == usr[s].sent
<1>1. q \in Seq(Nat) /\ n \in Nat /\ q # <<>> /\ usr[t].end = "open" /\ Got(t) \in Nat
  BY PlaceTypes DEF UserRecv
<1>2. Head(q) = q[1] /\ 1 \in 1..Len(q) /\ Head(q) \in Nat
  BY <1>1
<1>3. Chain(n, q, Got(t)) /\ AtMost(q, n)
  BY <1>1 DEF Direction, Receiving, OnItsWay
<1>4. q[1] <= n /\ q[1] \notin Discards /\ Follows(Got(t), Place(n, q[1]))
  BY <1>2, <1>3 DEF Chain, AtMost
<1> QED
  BY <1>2, <1>4 DEF Place

\* What the user takes from inq, it has got.
LEMMA UserRecvKeeps ==
    ASSUME TypeOK, NEW s \in Sides, NEW t \in Sides, t = Other(s),
           Direction(s, t), UserRecv(t)
    PROVE  Direction(s, t)'
<1> DEFINE q == inq[t].buf
           n == usr[s].sent
           m == Head(q)
           u == usr[t]
<1>1. /\ q \in Seq(Nat) /\ n \in Nat /\ q # <<>> /\ u.end = "open" /\ Got(t) \in Nat
      /\ u \in UserState /\ u.seen \in Seq(Nat) /\ s # t /\ inq[t] \in Chan(Nat)
      /\ m \in Nat /\ m <= n
  BY PlaceTypes, SideTypes, SidesFacts, NextValue DEF UserRecv, UserState
<1>2. UNCHANGED <<dev, link, wire, wend, rend, outq, wr, rd>>
  BY DEF UserRecv, device
<1>3. inq'[t] = Pop(inq[t]) /\ usr'[s] = usr[s]
  BY <1>1 DEF UserRecv, TypeOK
<1>4. inq'[t].buf = Tail(q) /\ inq'[t].open = inq[t].open /\ inq'[t].bad = inq[t].bad
  BY <1>1, <1>3 DEF Pop, Chan
<1>5. /\ Taken(s)' = Taken(s) /\ Passed(s)' = Passed(s)
      /\ Excused(s)' = Excused(s) /\ Doomed(s, t)' = Doomed(s, t)
  BY <1>2, <1>3 DEF Taken, Passed, Excused, Doomed
<1>6. \A a : (Failed(s, a)' <=> Failed(s, a)) /\ (Complete(s, a)' <=> Complete(s, a))
  BY <1>2, <1>3 DEF Failed, Complete
<1>7. InOrder(s)' /\ Ending(s)'
  BY <1>2, <1>3, <1>5 DEF Direction, InOrder, Ending
<1>8. OnItsWay(s, t)'
  <2>1. \A i \in 1..Len(Tail(q)) : i + 1 \in 1..Len(q) /\ Tail(q)[i] = q[i + 1]
    BY <1>1
  <2>2. AtMost(Tail(q), n)
    BY <2>1 DEF Direction, OnItsWay, AtMost
  <2>3. outq[s].open => NoError(Tail(q))
    BY <2>1 DEF Direction, OnItsWay, NoError
  <2> QED
    BY <1>2, <1>3, <1>4, <2>2, <2>3 DEF Direction, OnItsWay
<1>9. CASE m = 0
  <2>1. usr'[t].end = "cut"
    BY <1>1, <1>9 DEF UserRecv, TypeOK, UserState
  <2> QED
    BY <1>7, <1>8, <2>1 DEF Direction
<1>10. CASE m # 0
  <2>1. usr'[t].seen = Append(u.seen, m)
    BY <1>1, <1>10 DEF UserRecv, TypeOK, UserState
  <2>2. Got(t)' = m /\ Place(n, m) = m
    <3>1. \A z \in Seq(Nat), k \in Nat :
                /\ Append(z, k) # <<>> /\ Len(Append(z, k)) = Len(z) + 1
                /\ Append(z, k)[Len(z) + 1] = k
      OBVIOUS
    <3>2. u.seen \in Seq(Nat) /\ m \in Nat
      BY <1>1
    <3>3. /\ usr'[t].seen # <<>> /\ Len(usr'[t].seen) = Len(u.seen) + 1
          /\ usr'[t].seen[Len(u.seen) + 1] = m
      BY <2>1, <3>1, <3>2
    <3>4. Got(t)' = m
      BY <3>3 DEF Got
    <3> QED
      BY <1>10, <3>4 DEF Place
  <2>3. ASSUME Receiving(s, t) PROVE Receiving(s, t)'
    <3>1. Chain(n, Tail(q), m) /\ Top(n, Tail(q), m) = Top(n, q, Got(t))
      BY <1>1, <2>2, <2>3, ChainTail DEF Receiving
    <3>2. AtIn(s, t)' = AtIn(s, t) /\ AtReader(s, t)' = AtReader(s, t)
      BY <1>2, <1>3, <1>4, <2>2, <3>1 DEF AtIn, AtReader
    <3>3. AtWire(s, t)' = AtWire(s, t)
      BY <1>2, <1>3, <3>2 DEF AtWire
    <3>4. Reading(s, t) => Reading(s, t)'
      BY <1>2, <1>3, <1>5, <1>6, <3>2, <3>3 DEF Reading, Ordered
    <3> QED
      BY <1>1, <1>2, <1>3, <1>4, <1>5, <1>6, <2>2, <2>3, <3>1, <3>2, <3>4 DEF Receiving
  <2> QED
    BY <1>1, <1>7, <1>8, <2>3 DEF Direction
<1> QED
  BY <1>9, <1>10

\* A user that is told of the end, or quits, takes no more.
LEMMA UserEndsKeeps ==
    ASSUME TypeOK, NEW s \in Sides, NEW t \in Sides, t = Other(s),
           Direction(s, t), UserEOF(t) \/ UserQuit(t)
    PROVE  Direction(s, t)'
<1>1. /\ inq[t] \in Chan(Nat) /\ usr[t] \in UserState /\ s # t
  BY SideTypes, SidesFacts
<1>2. UNCHANGED <<dev, link, wire, wend, rend, outq, wr, rd>>
  BY DEF UserEOF, UserQuit, device
<1>3. usr'[s] = usr[s] /\ usr'[t].end # "open"
  <2>1. \E e \in {"cut", "ended"} : usr' = [usr EXCEPT ![t].end = e]
    BY DEF UserEOF, UserQuit
  <2> QED
    BY <1>1, <2>1 DEF TypeOK, UserState
<1>4. inq'[t].buf = inq[t].buf
  <2>1. CASE UserEOF(t)
    BY <2>1 DEF UserEOF
  <2>2. CASE UserQuit(t)
    <3>1. CloseChan(inq[t], TRUE).buf = inq[t].buf
      BY <1>1, ChanFacts
    <3> QED
      BY <2>2, <3>1 DEF UserQuit, TypeOK
  <2> QED
    BY <2>1, <2>2
<1>5. Taken(s)' = Taken(s) /\ Excused(s)' = Excused(s)
  BY <1>2, <1>3 DEF Taken, Excused
<1>6. InOrder(s)' /\ Ending(s)' /\ OnItsWay(s, t)'
  BY <1>2, <1>3, <1>4, <1>5 DEF Direction, InOrder, Ending, OnItsWay
<1> QED
  BY <1>3, <1>6 DEF Direction

-----------------------------------------------------------------------------
(* Both directions.                                                        *)

\* What the other goroutines and users do leaves the direction alone.
LEMMA OthersElsewhere ==
    ASSUME TypeOK, NEW s \in Sides, NEW t \in Sides, t = Other(s),
           \/ Break \/ Wait(s) \/ Wait(t)
           \/ Writer(t) \/ Reader(s)
           \/ UserSend(t) \/ UserRecv(s) \/ UserEOF(s) \/ UserQuit(s)
           \/ UserClose(t, FALSE) \/ UserClose(t, TRUE)
    PROVE  Elsewhere(s, t)
<1>1. /\ s # t /\ Other(t) = s /\ rd[s] \in ReaderState /\ rend[t] \in BOOLEAN
      /\ usr[s] \in UserState /\ usr[t] \in UserState
  BY SidesFacts, SideTypes
<1>2. CASE Break \/ Wait(s) \/ Wait(t)
  BY <1>2 DEF Break, Wait, device, Elsewhere, Excused
<1>3. CASE WriterRecv(t)
  BY <1>1, <1>3 DEF WriterRecv, device, Elsewhere, Excused, TypeOK
<1>4. CASE WriterWrite(t) \/ WriterError(t)
  <2>1. /\ wire'[s] = wire[s] /\ rd'[t] = rd[t]
        /\ rd'[s].pc = rd[s].pc \/ rd[s].pc = "read"
    <3>1. UNCHANGED <<wire, rd>> \/ \E m : Put(t, m)
      BY <1>4 DEF WriterWrite, WriterError, SendError
    <3>2. ASSUME NEW m, Put(t, m)
          PROVE  wire'[s] = wire[s] /\ rd'[t] = rd[t] /\ (rd'[s] = rd[s] \/ rd[s].pc = "read")
      BY <1>1, <3>2 DEF Put, TypeOK
    <3> QED
      BY <3>1, <3>2
  <2>2. UNCHANGED <<dev, link, wend, rend, inq, outq, usr>> /\ wr'[s] = wr[s]
    BY <1>1, <1>4 DEF WriterWrite, WriterError, TypeOK
  <2> QED
    BY <2>1, <2>2 DEF Elsewhere, Excused
<1>5. CASE WriterEnd(t)
  BY <1>1, <1>5 DEF WriterEnd, ShutWrite, Elsewhere, Excused, TypeOK
<1>6. CASE ReaderRead(s)
  <2>1. /\ wire'[s] = wire[s] /\ rd'[t] = rd[t] /\ rd[s].pc # "done"
        /\ UNCHANGED <<dev, link, wend, rend, inq, outq, wr, usr>>
    BY <1>1, <1>6 DEF ReaderRead, TypeOK
  <2> QED
    BY <2>1 DEF Elsewhere, Excused
<1>7. CASE ReaderSend(s)
  <2>1. /\ inq'[t] = inq[t] /\ rd'[t] = rd[t] /\ rd[s].pc # "done"
        /\ UNCHANGED <<dev, link, wire, wend, rend, outq, wr, usr>>
    BY <1>1, <1>7 DEF ReaderSend, device, TypeOK
  <2> QED
    BY <2>1 DEF Elsewhere, Excused
<1>8. CASE ReaderEnd(s)
  <2>1. /\ inq'[t] = inq[t] /\ rd'[t] = rd[t] /\ rd'[s].pc = "done" /\ rend'[t] = rend[t]
        /\ UNCHANGED <<dev, link, wire, outq, wr, usr>>
        /\ wend'[s] = wend[s] \/ dev = "whole"
    BY <1>1, <1>8 DEF ReaderEnd, ShutRead, TypeOK, ReaderState
  <2> QED
    BY <2>1 DEF Elsewhere, Excused
<1>9. CASE UserSend(t) \/ UserClose(t, FALSE) \/ UserClose(t, TRUE)
  <2>1. outq'[s] = outq[s] /\ UNCHANGED <<device, inq, wr, rd>>
    BY <1>1, <1>9 DEF UserSend, UserClose, TypeOK
  <2>2. UNCHANGED usr \/ usr' = [usr EXCEPT ![t].sent = @ + 1]
    BY <1>9 DEF UserSend, UserClose
  <2>3. usr'[s] = usr[s] /\ usr'[t].seen = usr[t].seen /\ usr'[t].end = usr[t].end
    BY <1>1, <2>2 DEF TypeOK, UserState
  <2> QED
    BY <2>1, <2>3 DEF Elsewhere, Excused, device
<1>10. CASE UserRecv(s) \/ UserEOF(s) \/ UserQuit(s)
  <2>1. inq'[t] = inq[t] /\ UNCHANGED <<device, outq, wr, rd>>
    BY <1>1, <1>10 DEF UserRecv, UserEOF, UserQuit, TypeOK
  <2>2. \/ \E e : usr' = [usr EXCEPT ![s].end = e]
        \/ \E q : usr' = [usr EXCEPT ![s].seen = q]
    BY <1>10 DEF UserRecv, UserEOF, UserQuit
  <2>3. usr'[t] = usr[t] /\ usr'[s].sent = usr[s].sent
    BY <1>1, <2>2 DEF TypeOK, UserState
  <2> QED
    BY <2>1, <2>3 DEF Elsewhere, Excused, device
<1> QED
  BY <1>2, <1>3, <1>4, <1>5, <1>6, <1>7, <1>8, <1>9, <1>10 DEF Writer, Reader

\* Every step keeps a direction.
LEMMA DirectionKept ==
    ASSUME FailsOn \subseteq {"pipe"},
           TypeOK, NEW s \in Sides, NEW t \in Sides, t = Other(s),
           Direction(s, t), [Next]_vars
    PROVE  Direction(s, t)'
<1>1. CASE UNCHANGED vars
  BY <1>1, Frame DEF vars, device, Elsewhere, Excused
<1>2. Sides = {s, t}
  BY DEF Sides, Other
<1>3. CASE \/ Break \/ Wait(s) \/ Wait(t)
           \/ Writer(t) \/ Reader(s)
           \/ UserSend(t) \/ UserRecv(s) \/ UserEOF(s) \/ UserQuit(s)
           \/ UserClose(t, FALSE) \/ UserClose(t, TRUE)
  BY <1>3, OthersElsewhere, Frame
<1>4. CASE Writer(s)
  BY <1>4, RecvKeeps, WriteKeeps, ErrorKeeps, WriterEndKeeps DEF Writer
<1>5. CASE Reader(t)
  BY <1>5, ReadKeeps, SendKeeps, ReaderEndKeeps DEF Reader
<1>6. CASE UserSend(s) \/ UserClose(s, FALSE) \/ UserClose(s, TRUE)
  BY <1>6, UserSendKeeps, UserCloseKeeps
<1>7. CASE UserRecv(t) \/ UserEOF(t) \/ UserQuit(t)
  BY <1>7, UserRecvKeeps, UserEndsKeeps
<1> QED
  BY <1>1, <1>2, <1>3, <1>4, <1>5, <1>6, <1>7 DEF Next, User

\* Nothing is on its way at first.
LEMMA DirectionInit ==
    ASSUME Init, NEW s \in Sides, NEW t \in Sides
    PROVE  Direction(s, t)
<1>1. /\ inq[t] = NewChan /\ outq[s] = NewChan /\ wire[s] = <<>> /\ wend[s] = "no"
      /\ wr[s] = [pc |-> "recv", msg |-> 0, bad |-> FALSE]
      /\ rd[t] = [pc |-> "read", msg |-> 0, bad |-> FALSE]
      /\ usr[s] = [sent |-> 0, seen |-> <<>>, end |-> "open"]
      /\ usr[t] = [sent |-> 0, seen |-> <<>>, end |-> "open"]
  BY DEF Init
<1>2. NewChan.buf = <<>> /\ NewChan.open /\ Len(<<>>) = 0
  BY DEF NewChan
<1>3. Got(t) = 0 /\ AtIn(s, t) = 0 /\ AtReader(s, t) = 0 /\ AtWire(s, t) = 0
      /\ Taken(s) = 0 /\ Passed(s) = 0
  BY <1>1, <1>2 DEF Got, AtIn, AtReader, AtWire, Taken, Passed, Top
<1>4. \A n, a : Chain(n, <<>>, a)
  BY <1>2 DEF Chain
<1>5. InOrder(s) /\ Ending(s) /\ OnItsWay(s, t)
  BY <1>1, <1>2, <1>3 DEF InOrder, Ending, OnItsWay, AtMost, NoError
<1>6. Reading(s, t)
  BY <1>1, <1>2, <1>3, <1>4, GapFacts DEF Reading, Ordered
<1>7. Receiving(s, t)
  BY <1>1, <1>2, <1>3, <1>4, <1>6 DEF Receiving
<1> QED
  BY <1>5, <1>7 DEF Direction

\* StreamInv is inductive.
LEMMA StreamInvInductive ==
    ASSUME FailsOn \subseteq {"pipe"}
    PROVE  (Init => StreamInv) /\ (StreamInv /\ [Next]_vars => StreamInv')
<1>1. "left" \in Sides /\ "right" \in Sides /\ "right" = Other("left") /\ "left" = Other("right")
  BY DEF Sides, Other
<1>2. Init => StreamInv
  BY <1>1, InitType, DirectionInit DEF StreamInv
<1>3. StreamInv /\ [Next]_vars => StreamInv'
  BY <1>1, NextType, DirectionKept DEF StreamInv
<1> QED
  BY <1>2, <1>3

-----------------------------------------------------------------------------
(* Each direction is a Stream.                                             *)

\* A step elsewhere is not seen, but if s does not read any more and the device
\* closes as a whole.
LEMMA ElsewhereMaps ==
    ASSUME NEW s \in Sides, NEW t \in Sides, t = Other(s), Elsewhere(s, t)
    PROVE  [Dir(s, t)!SNext]_(Dir(s, t)!svars)
<1>1. Other(t) = s
  BY SidesFacts
<1>2. /\ usr'[s].sent = usr[s].sent /\ WriterOf(s)' = WriterOf(s)
      /\ usr'[t].seen = usr[t].seen
      /\ ReaderOf(t)' = ReaderOf(t) \/ (ReaderOf(t) # "cut" /\ ReaderOf(t)' = "cut")
  BY <1>1 DEF Elsewhere, Excused, WriterOf, ReaderOf
<1> QED
  BY <1>2 DEF Dir!SNext, Dir!svars, Dir!Cut

\* The steps that the users see.
LEMMA UserMaps ==
    ASSUME TypeOK, NEW s \in Sides, NEW t \in Sides, t = Other(s), Direction(s, t),
           \/ UserSend(s) \/ UserClose(s, FALSE) \/ UserClose(s, TRUE)
           \/ UserRecv(t) \/ UserEOF(t) \/ UserQuit(t)
    PROVE  Dir(s, t)!SNext
<1> DEFINE n == usr[s].sent
           q == inq[t].buf
<1>1. /\ s # t /\ Other(t) = s /\ usr[s] \in UserState /\ usr[t] \in UserState
      /\ outq[s] \in Chan(Nat) /\ inq[t] \in Chan(Nat) /\ inq[t].bad \in BOOLEAN
  BY SidesFacts, SideTypes, ChanFacts
<1>2. n \in Nat /\ Got(t) \in Nat /\ q \in Seq(Nat)
  BY PlaceTypes
<1>3. Dir(s, t)!LastGot = Got(t)
  BY DEF Dir!LastGot, Got
<1>4. CASE UserSend(s)
  <2>1. usr'[s].sent = n + 1 /\ usr'[t] = usr[t] /\ outq'[s] = Push(outq[s], n + 1)
    BY <1>1, <1>4 DEF UserSend, TypeOK, UserState
  <2>2. WriterOf(s) = "open" /\ WriterOf(s)' = "open"
    BY <1>1, <1>4, <2>1 DEF UserSend, WriterOf, Push, Chan
  <2>3. ReaderOf(t)' = ReaderOf(t)
    BY <1>1, <1>4, <2>1 DEF UserSend, device, ReaderOf
  <2> QED
    BY <1>4, <2>1, <2>2, <2>3 DEF UserSend, Dir!SNext, Dir!Send
<1>5. ASSUME NEW b \in BOOLEAN, UserClose(s, b) PROVE Dir(s, t)!SNext
  <2>1. WriterOf(s) = "open" /\ WriterOf(s)' \in {"ended", "cut"}
    BY <1>1, <1>5 DEF UserClose, WriterOf, CloseChan, TypeOK
  <2>2. UNCHANGED <<usr, rd, dev>>
    BY <1>5 DEF UserClose, device
  <2> QED
    BY <1>1, <2>1, <2>2 DEF Dir!SNext, Dir!CloseWriter, ReaderOf
<1>6. ASSUME UserRecv(t) \/ UserEOF(t) \/ UserQuit(t)
      PROVE  /\ usr'[s] = usr[s] /\ WriterOf(s)' = WriterOf(s) /\ UNCHANGED <<rd, dev>>
             /\ usr[t].end = "open" /\ ReaderOf(t) = "open"
  <2>1. UNCHANGED <<rd, dev, outq>> /\ usr[t].end = "open"
    BY <1>6 DEF UserRecv, UserEOF, UserQuit, device
  <2>2. \/ \E e : usr' = [usr EXCEPT ![t].end = e]
        \/ \E z : usr' = [usr EXCEPT ![t].seen = z]
    BY <1>6 DEF UserRecv, UserEOF, UserQuit
  <2>3. usr'[s] = usr[s]
    BY <1>1, <2>2 DEF TypeOK
  <2> QED
    BY <2>1, <2>3 DEF WriterOf, ReaderOf
<1>7. CASE UserRecv(t)
  <2>1. CASE Head(q) = 0
    <3>1. usr'[t].end = "cut" /\ usr'[t].seen = usr[t].seen
      BY <1>1, <1>7, <2>1 DEF UserRecv, TypeOK, UserState
    <3> QED
      BY <1>6, <1>7, <3>1 DEF ReaderOf, Dir!SNext, Dir!Cut
  <2>2. CASE Head(q) # 0
    <3> DEFINE k == Head(q)
    <3>1. usr'[t].end = "open" /\ usr'[t].seen = Append(usr[t].seen, k)
      BY <1>1, <1>6, <1>7, <2>2 DEF UserRecv, TypeOK, UserState
    <3>2. k \in Nat /\ k <= n /\ k \notin Discards /\ Got(t) < k /\ Gap(Got(t), k - 1)
      BY <1>7, <2>2, NextValue DEF Follows
    <3>3. k \in Dir(s, t)!Due(Got(t) + 1, n)
      BY <1>2, <3>2 DEF Dir!Due
    <3>4. Dir(s, t)!Due(Got(t) + 1, k) = {k}
      BY <1>2, <3>2 DEF Dir!Due, Gap
    <3>5. ReaderOf(t)' = ReaderOf(t)
      BY <1>6, <1>7, <3>1 DEF ReaderOf
    <3> QED
      BY <1>3, <1>6, <1>7, <3>1, <3>3, <3>4, <3>5 DEF Dir!SNext, Dir!Deliver
  <2> QED
    BY <2>1, <2>2
<1>8. CASE UserQuit(t)
  <2>1. usr'[t].end = "cut" /\ usr'[t].seen = usr[t].seen
    BY <1>1, <1>8 DEF UserQuit, TypeOK, UserState
  <2> QED
    BY <1>6, <1>8, <2>1 DEF ReaderOf, Dir!SNext, Dir!Cut
<1>9. CASE UserEOF(t)
  <2>1. /\ usr'[t].end = IF inq[t].bad THEN "cut" ELSE "ended"
        /\ usr'[t].seen = usr[t].seen
    BY <1>1, <1>9 DEF UserEOF, TypeOK, UserState
  <2>2. CASE inq[t].bad \/ Excused(s)
    <3>1. ReaderOf(t)' = "cut"
      BY <1>1, <1>6, <1>9, <2>1, <2>2 DEF ReaderOf, Excused
    <3> QED
      BY <1>6, <1>9, <2>1, <3>1 DEF Dir!SNext, Dir!Cut
  <2>3. CASE ~inq[t].bad /\ ~Excused(s)
    <3>1. /\ Receiving(s, t) /\ rd[t].pc = "done" /\ ~rd[t].bad /\ q = <<>>
      BY <1>6, <1>9, <2>3 DEF UserEOF, Drained, Direction, Receiving
    <3>2. Complete(s, Got(t)) /\ Got(t) <= n
      BY <2>3, <3>1 DEF Receiving, AtIn, Top
    <3>3. Drained(outq[s]) /\ ~outq[s].bad /\ Gap(Got(t), n)
      BY <1>2, <3>2 DEF Complete, Failed
    <3>4. WriterOf(s) = "ended"
      BY <3>3 DEF WriterOf, Drained
    <3>5. Dir(s, t)!Due(Got(t) + 1, n) = {}
      BY <3>3 DEF Dir!Due, Gap
    <3>6. ReaderOf(t)' = "ended"
      BY <1>1, <1>6, <1>9, <2>1, <2>3 DEF ReaderOf, Excused
    <3> QED
      BY <1>3, <1>6, <1>9, <2>1, <3>4, <3>5, <3>6 DEF Dir!SNext, Dir!End
  <2> QED
    BY <2>2, <2>3
<1> QED
  BY <1>4, <1>5, <1>7, <1>8, <1>9

\* When the writer is done it may close outq; nothing else is seen.
LEMMA WriterMaps ==
    ASSUME TypeOK, NEW s \in Sides, NEW t \in Sides, t = Other(s), Writer(s)
    PROVE  [Dir(s, t)!SNext]_(Dir(s, t)!svars)
<1>1. /\ s # t /\ Other(t) = s /\ outq[s] \in Chan(Nat) /\ wr[s].bad \in BOOLEAN
  BY SidesFacts, SideTypes DEF WriterState
<1>2. UNCHANGED <<dev, usr>>
  BY DEF Writer, WriterRecv, WriterWrite, WriterError, WriterEnd, device
<1>3. rd'[s] = rd[s]
  BY <1>1 DEF Writer, WriterRecv, WriterWrite, WriterError, WriterEnd, SendError, Put, TypeOK
<1>4. ReaderOf(t)' = ReaderOf(t)
  BY <1>1, <1>2, <1>3 DEF ReaderOf
<1>5. \/ WriterOf(s)' = WriterOf(s)
      \/ WriterOf(s) = "open" /\ WriterOf(s)' \in {"ended", "cut"}
  <2>1. CASE WriterEnd(s)
    <3>1. PICK b : outq'[s] = CloseChan(outq[s], b)
      BY <2>1 DEF WriterEnd, TypeOK
    <3> QED
      BY <1>1, <3>1 DEF WriterOf, CloseChan
  <2>2. CASE WriterRecv(s)
    <3>1. outq'[s].open = outq[s].open /\ outq'[s].bad = outq[s].bad
      BY <1>1, <2>2 DEF WriterRecv, TypeOK, Pop, Chan
    <3> QED
      BY <3>1 DEF WriterOf
  <2>3. CASE WriterWrite(s) \/ WriterError(s)
    BY <2>3 DEF WriterWrite, WriterError, WriterOf
  <2> QED
    BY <2>1, <2>2, <2>3 DEF Writer
<1> QED
  BY <1>2, <1>4, <1>5 DEF Dir!SNext, Dir!svars, Dir!CloseWriter

\* Nothing that the reader does is seen.
LEMMA ReaderMaps ==
    ASSUME TypeOK, NEW s \in Sides, NEW t \in Sides, t = Other(s), Reader(t)
    PROVE  [Dir(s, t)!SNext]_(Dir(s, t)!svars)
<1>1. s # t /\ Other(t) = s
  BY SidesFacts
<1>2. UNCHANGED <<dev, usr, outq>> /\ rd'[s] = rd[s]
  BY <1>1 DEF Reader, ReaderRead, ReaderSend, ReaderEnd, TypeOK, device
<1>3. ReaderOf(t)' = ReaderOf(t) /\ WriterOf(s)' = WriterOf(s)
  BY <1>1, <1>2 DEF ReaderOf, WriterOf
<1> QED
  BY <1>2, <1>3 DEF Dir!svars

\* Every step of the Conns is one of the stream, or is not seen.
LEMMA StepMaps ==
    ASSUME TypeOK, NEW s \in Sides, NEW t \in Sides, t = Other(s),
           Direction(s, t), [Next]_vars
    PROVE  [Dir(s, t)!SNext]_(Dir(s, t)!svars)
<1>1. CASE UNCHANGED vars
  BY <1>1, ElsewhereMaps DEF vars, device, Elsewhere, Excused
<1>2. Sides = {s, t}
  BY DEF Sides, Other
<1>3. CASE \/ Break \/ Wait(s) \/ Wait(t)
           \/ Writer(t) \/ Reader(s)
           \/ UserSend(t) \/ UserRecv(s) \/ UserEOF(s) \/ UserQuit(s)
           \/ UserClose(t, FALSE) \/ UserClose(t, TRUE)
  BY <1>3, OthersElsewhere, ElsewhereMaps
<1>4. CASE Writer(s) \/ Reader(t)
  BY <1>4, WriterMaps, ReaderMaps
<1>5. CASE \/ UserSend(s) \/ UserClose(s, FALSE) \/ UserClose(s, TRUE)
           \/ UserRecv(t) \/ UserEOF(t) \/ UserQuit(t)
  BY <1>5, UserMaps
<1> QED
  BY <1>1, <1>2, <1>3, <1>4, <1>5 DEF Next, User

\* For every device, nbuf and number of values, each direction of a pair of
\* Conns is a Stream: what a user gets from In is what the other one sent to
\* Out, in order and with nothing missing but what WriteMsg discards, and the
\* end without an error comes after all of it, if values do not fail to encode
\* themselves but on a pipe.
THEOREM StreamImplemented ==
    ASSUME FailsOn \subseteq {"pipe"}
    PROVE  Spec => ConnIsStream
<1>1. "left" \in Sides /\ "right" \in Sides /\ "right" = Other("left") /\ "left" = Other("right")
  BY DEF Sides, Other
<1>2. Init => FromLeft!SInit /\ FromRight!SInit
  BY <1>1 DEF Init, FromLeft!SInit, FromRight!SInit, WriterOf, ReaderOf, NewChan
<1>3. StreamInv /\ [Next]_vars => [FromLeft!SNext]_(FromLeft!svars)
  <2>1. [Dir("left", "right")!SNext]_(Dir("left", "right")!svars)
            => [FromLeft!SNext]_(FromLeft!svars)
    BY DEF Dir!SNext, Dir!svars, Dir!Send, Dir!CloseWriter, Dir!Deliver,
           Dir!End, Dir!Cut, Dir!LastGot, Dir!Due,
           FromLeft!SNext, FromLeft!svars, FromLeft!Send, FromLeft!CloseWriter, FromLeft!Deliver,
           FromLeft!End, FromLeft!Cut, FromLeft!LastGot, FromLeft!Due
  <2> QED
    BY <1>1, <2>1, StepMaps DEF StreamInv
<1>4. StreamInv /\ [Next]_vars => [FromRight!SNext]_(FromRight!svars)
  <2>1. [Dir("right", "left")!SNext]_(Dir("right", "left")!svars)
            => [FromRight!SNext]_(FromRight!svars)
    BY DEF Dir!SNext, Dir!svars, Dir!Send, Dir!CloseWriter, Dir!Deliver,
           Dir!End, Dir!Cut, Dir!LastGot, Dir!Due,
           FromRight!SNext, FromRight!svars, FromRight!Send, FromRight!CloseWriter, FromRight!Deliver,
           FromRight!End, FromRight!Cut, FromRight!LastGot, FromRight!Due
  <2> QED
    BY <1>1, <2>1, StepMaps DEF StreamInv
<1> QED
  BY <1>2, <1>3, <1>4, StreamInvInductive, PTL
  DEF Spec, ConnIsStream, FromLeft!SSpec, FromRight!SSpec
=============================================================================
