-------------------------------- MODULE Conn --------------------------------
(***************************************************************************)
(* ch/conn.go, with ReadMsgs and WriteMsgs of ch/ch.go: two Conns, "left"  *)
(* and "right", joined by a device.  Each side has a goroutine that writes *)
(* what its user sends, another that reads for its user and, for NewConn,  *)
(* a third one that waits for both.  The device has half closes (TCP),     *)
(* only closes as a whole (TLS), or is a pair of io.Pipes (NewPipePair).   *)
(*                                                                         *)
(* The k-th value a user sends is k; 0 is an error sent as a message.      *)
(***************************************************************************)
EXTENDS LsubChan

CONSTANTS
    Devices,    \* the kinds of device considered: "half", "whole" or "pipe"
    NBuf,       \* nbuf
    MaxSend,    \* how many messages each user sends at most
    Discards,   \* the positions of values WriteMsg can't encode
    FailsOn,    \* devices on which a value may fail to encode itself
    UserMay,    \* UserMay[s]: "quit" the reader closes In; "closeerr" the
                \* writer closes Out with an error
    BreaksOn    \* the devices that may break

Sides == {"left", "right"}

ASSUME ConnAssumption ==
    /\ Devices \subseteq {"half", "whole", "pipe"}
    /\ NBuf \in Nat \ {0}
    /\ MaxSend \in [Sides -> Nat]
    /\ Discards \subseteq Nat \ {0}

VARIABLES
    dev,      \* the device used
    link,     \* it works
    wire,     \* wire[s]: what side s wrote and the other has not read
    wend,     \* wend[s]: how side s ended what it writes, "no" if it did not
    rend,     \* rend[s]: side s does not read from the device any more
    inq,      \* Conn.In
    outq,     \* Conn.Out
    wr,       \* the goroutine that calls WriteMsgs
    rd,       \* the goroutine that calls ReadMsgs
    hup,      \* hup is closed
    usr       \* the user

device == <<dev, link, wire, wend, rend>>
vars == <<device, inq, outq, wr, rd, hup, usr>>

Other(s) == IF s = "left" THEN "right" ELSE "left"

WriterState == [pc: {"recv", "write", "error", "end", "done"},
                msg: Nat, bad: BOOLEAN]
ReaderState == [pc: {"read", "send", "end", "done"},
                msg: Nat, bad: BOOLEAN]
UserState == [sent: Nat, seen: Seq(Nat), end: {"open", "ended", "cut"}]

\* c <- m does not block: channels are made with room for nbuf messages.
AlwaysRoom(c) == TRUE
Room(c) == Len(c.buf) < NBuf

\* Every variable keeps to its type, and channels to their size.
TypeOK ==
    /\ dev \in Devices
    /\ link \in BOOLEAN
    /\ wire \in [Sides -> Seq(Nat)]
    /\ wend \in [Sides -> {"no", "eof", "err"}]
    /\ rend \in [Sides -> BOOLEAN]
    /\ inq \in [Sides -> Chan(Nat)]
    /\ outq \in [Sides -> Chan(Nat)]
    /\ wr \in [Sides -> WriterState]
    /\ rd \in [Sides -> ReaderState]
    /\ hup \in [Sides -> BOOLEAN]
    /\ usr \in [Sides -> UserState]
    /\ \A s \in Sides : Len(inq[s].buf) <= NBuf /\ Len(outq[s].buf) <= NBuf

\* NewConn at each side, or NewPipePair.
Init ==
    /\ dev \in Devices
    /\ link = TRUE
    /\ wire = [s \in Sides |-> <<>>]
    /\ wend = [s \in Sides |-> "no"]
    /\ rend = [s \in Sides |-> FALSE]
    /\ inq = [s \in Sides |-> NewChan]
    /\ outq = [s \in Sides |-> NewChan]
    /\ wr = [s \in Sides |-> [pc |-> "recv", msg |-> 0, bad |-> FALSE]]
    /\ rd = [s \in Sides |-> [pc |-> "read", msg |-> 0, bad |-> FALSE]]
    /\ hup = [s \in Sides |-> FALSE]
    /\ usr = [s \in Sides |-> [sent |-> 0, seen |-> <<>>, end |-> "open"]]

-----------------------------------------------------------------------------
(* The device.                                                             *)

\* A write may seem to work when the peer does not read any more.
CanWrite(s) == wend[s] = "no" /\ link
WriteFails(s) == wend[s] # "no" \/ ~link \/ rend[Other(s)]

\* A peer that has closed both ways may reset the connection; the two pipes of
\* a pair have nothing to do with each other.
ReadFails(s) ==
    \/ rend[s] \/ ~link \/ wend[Other(s)] = "err"
    \/ dev # "pipe" /\ rend[Other(s)] /\ wend[Other(s)] # "no"
ReadEOF(s) == wire[Other(s)] = <<>> /\ wend[Other(s)] = "eof" /\ ~rend[s]

\* The message m of side s: a write to an io.Pipe ends when it is read.
Put(s, m) ==
    /\ CanWrite(s)
    /\ \/ /\ dev # "pipe"
          /\ wire' = [wire EXCEPT ![s] = Append(@, m)]
          /\ UNCHANGED rd
       \/ /\ dev = "pipe"
          /\ rd[Other(s)].pc = "read" /\ ~rend[Other(s)]
          /\ rd' = [rd EXCEPT ![Other(s)].pc = "send", ![Other(s)].msg = m]
          /\ UNCHANGED wire

\* What the peer gets to see at the end of what side s writes: only a pipe
\* carries the error, and nothing goes through a broken device.
EndOf(s, bad) ==
    IF wend[s] # "no" THEN wend[s]
    ELSE IF ~link \/ (dev = "pipe" /\ bad) THEN "err" ELSE "eof"

\* CloseWrite, Close or CloseWithError when the goroutine that writes is done;
\* CloseRead, Close or CloseWithError when the one that reads is.
ShutNothing(s, bad) == UNCHANGED <<wend, rend>>
ShutWrite(s, bad) ==
    /\ wend' = [wend EXCEPT ![s] = EndOf(s, bad)]
    /\ rend' = [rend EXCEPT ![s] = @ \/ dev = "whole"]
ShutRead(s) ==
    /\ rend' = [rend EXCEPT ![s] = TRUE]
    /\ wend' = [wend EXCEPT ![s] = IF dev = "whole" THEN EndOf(s, FALSE) ELSE @]

Break ==
    /\ dev \in BreaksOn \ {"pipe"}
    /\ link
    /\ link' = FALSE
    /\ UNCHANGED <<dev, wire, wend, rend, inq, outq, wr, rd, hup, usr>>

-----------------------------------------------------------------------------
(* WriteMsgs, and what NewConn and NewPipe do when it returns.             *)

WriterRecv(s) ==
    /\ wr[s].pc = "recv"
    /\ \/ /\ outq[s].buf # <<>>
          /\ outq' = [outq EXCEPT ![s] = Pop(@)]
          /\ wr' = [wr EXCEPT ![s].pc = "write", ![s].msg = Head(outq[s].buf)]
       \/ /\ Drained(outq[s])
          /\ wr' = [wr EXCEPT ![s].bad = outq[s].bad,
                              ![s].pc = IF outq[s].bad THEN "error" ELSE "end"]
          /\ UNCHANGED outq
    /\ UNCHANGED <<device, inq, rd, hup, usr>>

\* An error here returns at once and is not told to the peer.
WriterWrite(s) ==
    /\ wr[s].pc = "write"
    /\ \/ /\ wr[s].msg \in Discards
          /\ wr' = [wr EXCEPT ![s].pc = "recv", ![s].msg = 0]
          /\ UNCHANGED <<wire, rd>>
       \/ /\ wr[s].msg \notin Discards
          /\ Put(s, wr[s].msg)
          /\ wr' = [wr EXCEPT ![s].pc = "recv", ![s].msg = 0]
       \/ /\ wr[s].msg \notin Discards
          /\ WriteFails(s) \/ dev \in FailsOn
          /\ wr' = [wr EXCEPT ![s].pc = "end", ![s].msg = 0,
                              ![s].bad = TRUE]
          /\ UNCHANGED <<wire, rd>>
    /\ UNCHANGED <<dev, link, wend, rend, inq, outq, hup, usr>>

\* The error of the channel is the last message.
SkipError(s) == UNCHANGED <<wire, rd>>
SendError(s) ==
    \/ Put(s, 0)
    \/ WriteFails(s) /\ UNCHANGED <<wire, rd>>
WriterError(s) ==
    /\ wr[s].pc = "error"
    /\ SendError(s)
    /\ wr' = [wr EXCEPT ![s].pc = "end"]
    /\ UNCHANGED <<dev, link, wend, rend, inq, outq, hup, usr>>

\* WriteMsgs returned.  CloseWrite may fail too.
WriterEnd(s) ==
    /\ wr[s].pc = "end"
    /\ ShutWrite(s, wr[s].bad)
    /\ \E cerr \in {FALSE, dev = "half" /\ WriteFails(s)} :
        outq' = [outq EXCEPT ![s] = CloseChan(@, wr[s].bad \/ cerr)]
    /\ wr' = [wr EXCEPT ![s].pc = "done"]
    /\ UNCHANGED <<dev, link, wire, inq, rd, hup, usr>>

-----------------------------------------------------------------------------
(* ReadMsgs, and what NewConn and NewPipe do when it returns.              *)

ReaderRead(s) ==
    /\ rd[s].pc = "read"
    /\ \/ /\ wire[Other(s)] # <<>> /\ ~rend[s]
          /\ wire' = [wire EXCEPT ![Other(s)] = Tail(@)]
          /\ rd' = [rd EXCEPT ![s].pc = "send", ![s].msg = Head(wire[Other(s)])]
       \/ /\ ReadEOF(s)
          /\ rd' = [rd EXCEPT ![s].pc = "end"]
          /\ UNCHANGED wire
       \/ /\ ReadFails(s)
          /\ rd' = [rd EXCEPT ![s].pc = "end", ![s].bad = TRUE]
          /\ UNCHANGED wire
    /\ UNCHANGED <<dev, link, wend, rend, inq, outq, wr, hup, usr>>

ReaderSend(s) ==
    /\ rd[s].pc = "send"
    /\ \/ /\ inq[s].open /\ Room(inq[s])
          /\ inq' = [inq EXCEPT ![s] = Push(@, rd[s].msg)]
          /\ rd' = [rd EXCEPT ![s].pc = "read", ![s].msg = 0]
       \/ /\ ~inq[s].open
          /\ rd' = [rd EXCEPT ![s].pc = "end", ![s].msg = 0,
                              ![s].bad = inq[s].bad]
          /\ UNCHANGED inq
    /\ UNCHANGED <<device, outq, wr, hup, usr>>

\* ReadMsgs returned.
ReaderEnd(s) ==
    /\ rd[s].pc = "end"
    /\ inq' = [inq EXCEPT ![s] = CloseChan(@, rd[s].bad)]
    /\ ShutRead(s)
    /\ rd' = [rd EXCEPT ![s].pc = "done"]
    /\ UNCHANGED <<dev, link, wire, outq, wr, hup, usr>>

\* wg.Wait() and the last Close; pipes have no hup.
WaitsForOne(s) == rd[s].pc = "done"
WaitDone(s) == wr[s].pc = "done" /\ rd[s].pc = "done"
Wait(s) ==
    /\ dev # "pipe" /\ ~hup[s]
    /\ WaitDone(s)
    /\ hup' = [hup EXCEPT ![s] = TRUE]
    /\ UNCHANGED <<device, inq, outq, wr, rd, usr>>

-----------------------------------------------------------------------------
(* Users.                                                                  *)

UserSend(s) ==
    /\ usr[s].sent < MaxSend[s]
    /\ outq[s].open /\ Room(outq[s])
    /\ outq' = [outq EXCEPT ![s] = Push(@, usr[s].sent + 1)]
    /\ usr' = [usr EXCEPT ![s].sent = @ + 1]
    /\ UNCHANGED <<device, inq, wr, rd, hup>>

UserClose(s, bad) ==
    /\ outq[s].open
    /\ bad => "closeerr" \in UserMay[s]
    /\ outq' = [outq EXCEPT ![s] = CloseChan(@, bad)]
    /\ UNCHANGED <<device, inq, wr, rd, hup, usr>>

\* An error message tells the reader that the stream was cut.
UserRecv(s) ==
    /\ usr[s].end = "open"
    /\ inq[s].buf # <<>>
    /\ inq' = [inq EXCEPT ![s] = Pop(@)]
    /\ usr' = IF Head(inq[s].buf) = 0
              THEN [usr EXCEPT ![s].end = "cut"]
              ELSE [usr EXCEPT ![s].seen = Append(@, Head(inq[s].buf))]
    /\ UNCHANGED <<device, outq, wr, rd, hup>>

UserEOF(s) ==
    /\ usr[s].end = "open"
    /\ Drained(inq[s])
    /\ usr' = [usr EXCEPT ![s].end = IF inq[s].bad THEN "cut" ELSE "ended"]
    /\ UNCHANGED <<device, inq, outq, wr, rd, hup>>

UserQuit(s) ==
    /\ "quit" \in UserMay[s]
    /\ usr[s].end = "open" /\ inq[s].open
    /\ inq' = [inq EXCEPT ![s] = CloseChan(@, TRUE)]
    /\ usr' = [usr EXCEPT ![s].end = "cut"]
    /\ UNCHANGED <<device, outq, wr, rd, hup>>

-----------------------------------------------------------------------------

Writer(s) ==
    WriterRecv(s) \/ WriterWrite(s) \/ WriterError(s) \/ WriterEnd(s)

Reader(s) == ReaderRead(s) \/ ReaderSend(s) \/ ReaderEnd(s)

User(s) ==
    \/ UserSend(s) \/ UserRecv(s) \/ UserEOF(s) \/ UserQuit(s)
    \/ UserClose(s, FALSE) \/ UserClose(s, TRUE)

Next == Break \/ \E s \in Sides : Writer(s) \/ Reader(s) \/ Wait(s) \/ User(s)

Spec == Init /\ [][Next]_vars

\* Every goroutine that can run does so, and users read.
FairSpec ==
    /\ Spec
    /\ \A s \in Sides :
        /\ WF_vars(Writer(s)) /\ WF_vars(Reader(s)) /\ WF_vars(Wait(s))
        /\ WF_vars(UserRecv(s)) /\ WF_vars(UserEOF(s))

-----------------------------------------------------------------------------
(* Correctness.                                                            *)

WriterOf(s) ==
    IF outq[s].open THEN "open" ELSE IF outq[s].bad THEN "cut" ELSE "ended"

\* With no half closes, who stops reading closes what it writes too, as the
\* comment of NewConn says: its peer can't count on the end of the stream.
ReaderOf(s) ==
    IF dev = "whole" /\ rd[Other(s)].pc = "done" /\ usr[s].end = "ended"
    THEN "cut" ELSE usr[s].end

FromLeft == INSTANCE Stream WITH
    MaxSent <- MaxSend["left"], Lost <- Discards, sent <- usr["left"].sent,
    writer <- WriterOf("left"), got <- usr["right"].seen,
    reader <- ReaderOf("right")
FromRight == INSTANCE Stream WITH
    MaxSent <- MaxSend["right"], Lost <- Discards, sent <- usr["right"].sent,
    writer <- WriterOf("right"), got <- usr["left"].seen,
    reader <- ReaderOf("left")

\* Each direction is a Stream: values arrive in order, none missing or twice,
\* and the reader sees a clean end only after the last one.  What WriteMsgs,
\* ReadMsgs and the closes of NewConn and NewPipe are for.
ConnIsStream == FromLeft!SSpec /\ FromRight!SSpec

\* A reader learns that the stream of its peer was closed, or that the device
\* broke, and is not left waiting.
ReaderEnds ==
    \A s \in Sides : ~outq[s].open \/ ~link ~> usr[Other(s)].end # "open"

\* Once both users close their ends, or the device breaks and they do, hup is
\* closed at both sides ("it is closed when rw is closed") and not before the
\* goroutines that use the device are done.
HangsUp ==
    /\ (dev # "pipe" /\ \A s \in Sides : ~outq[s].open) ~> \A s \in Sides : hup[s]
    /\ [](\A s \in Sides : hup[s] => wend[s] # "no" /\ rend[s] /\ ~outq[s].open)
=============================================================================
