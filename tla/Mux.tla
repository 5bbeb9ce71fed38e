-------------------------------- MODULE Mux ---------------------------------
(***************************************************************************)
(* ch/mux.go: two Muxes, "caller" and "callee", that share one duplex      *)
(* device and carry many streams on it.  Each stream has a tag; the side   *)
(* that opens it (Out or Rpc) and the other side hold one end each.  Every *)
(* end has its own goroutines (out, flowproc) and each Mux one more        *)
(* (demux); an action below is a stretch of one goroutine between two      *)
(* points where it may block or where others may see what it did.          *)
(*                                                                         *)
(* Messages are told apart by their position in the stream: the k-th value *)
(* a user sends on an end is k.  Tags are not reused.                      *)
(***************************************************************************)
EXTENDS LsubChan

CONSTANTS
    Tags,      \* the streams that may be opened
    Rpcs,      \* those opened with Rpc; Out opens the others
    Opener,    \* the side that opens each stream
    NBUF,      \* nbuf, the messages that fit in a channel
    InCap,     \* the connections that fit in Mux.In
    MaxSend,   \* how many messages the user of each end sends at most
    Discards,  \* the positions of values WriteMsg can't encode
    UserMay    \* what users and the network do besides reading and writing

\* In UserMay: "quit" a reader closes its Conn.In; "closeerr" a writer closes
\* its Conn.Out with an error; "empty" a writer closes before anything was
\* sent; "close" a user closes the Mux; "late" and opens streams after that;
\* "refuse" a user closes Mux.In; "encode" a value fails to encode itself;
\* "break" the device breaks.

Sides == {"caller", "callee"}

ASSUME MuxAssumption ==
    /\ Tags # {} /\ Rpcs \subseteq Tags
    /\ Opener \in [Tags -> Sides]
    /\ NBUF \in Nat /\ NBUF >= 2
    /\ InCap \in Nat \ {0}
    /\ MaxSend \in [Sides \X Tags -> Nat]
    /\ Discards \subseteq Nat \ {0}

VARIABLES
    wire,     \* wire[s]: what side s wrote and the other side has not read
    link,     \* the device works
    up,       \* up[s]: side s has not closed the device
    hup,      \* hup[s]: Mux.Hup is closed
    minq,     \* minq[s]: Mux.In
    dm,       \* dm[s]: the goroutine in demux
    mapped,   \* the ends that are in their Mux.tags
    inq,      \* conn.in
    outq,     \* conn.out
    flow,     \* conn.flow, the tickets: only their number matters
    pending,  \* goroutines of demux about to send a ticket to conn.flow
    op,       \* the goroutine in out
    fp,       \* the goroutine in flowproc
    uin,      \* Conn.In, when it is not conn.in (uin in flowproc)
    usr       \* the user of the end

device == <<wire, link, up, hup>>
muxes == <<minq, dm, mapped>>
chans == <<inq, outq, flow, pending, uin>>
procs == <<op, fp>>
vars == <<device, muxes, chans, procs, usr>>

-----------------------------------------------------------------------------

Ends == Sides \X Tags
Other(s) == IF s = "caller" THEN "callee" ELSE "caller"
Peer(e) == <<Other(e[1]), e[2]>>
IsOpener(e) == Opener[e[2]] = e[1]
IsRpc(e) == e[2] \in Rpcs
Half == NBUF \div 2

\* The bits of the tag (firsttag, endtag, flowtag) and the value sent.  The
\* rpctag is set when the tag is in Rpcs.  A value of 0 is not the user's.
Msg == [tag: Tags, kind: {"data", "end", "flow"}, first: BOOLEAN,
        dat: Nat, bad: BOOLEAN]

DataMsg(e, first, k) ==
    [tag |-> e[2], kind |-> "data", first |-> first, dat |-> k, bad |-> FALSE]
EndMsgNoError(e, first, bad) ==
    [tag |-> e[2], kind |-> "end", first |-> first, dat |-> 0, bad |-> FALSE]
EndMsg(e, first, bad) ==
    [tag |-> e[2], kind |-> "end", first |-> first, dat |-> 0, bad |-> bad]
\* Its value is not sent: it counts the messages the user has consumed.
FlowMsg(e, k) ==
    [tag |-> e[2], kind |-> "flow", first |-> FALSE, dat |-> k, bad |-> FALSE]

\* Where the goroutines are, and what they keep in their variables.
DmState == [pc: {"read", "accept", "deliver", "close", "done"}, tag: Tags,
            dat: Nat]
OpState == [pc: {"off", "first", "recv", "credit", "write", "end", "drop",
                 "done"},
            msg: Nat, n: Nat, first: BOOLEAN, reply: BOOLEAN, bad: BOOLEAN]
FpState == [pc: {"off", "recv", "send", "grant", "done"}, msg: Nat, n: Nat]
UserState == [has: BOOLEAN, sent: Nat, seen: Seq(Nat),
              end: {"open", "ended", "cut"}]
Flow == [n: Nat, open: BOOLEAN]

\* Every variable keeps to its type; nmsgs and the tickets are never negative.
TypeOK ==
    /\ wire \in [Sides -> Seq(Msg)]
    /\ link \in BOOLEAN
    /\ up \in [Sides -> BOOLEAN]
    /\ hup \in [Sides -> BOOLEAN]
    /\ minq \in [Sides -> Chan(Tags)]
    /\ dm \in [Sides -> DmState]
    /\ mapped \in SUBSET Ends
    /\ inq \in [Ends -> Chan(Nat)]
    /\ outq \in [Ends -> Chan(Nat)]
    /\ flow \in [Ends -> Flow]
    /\ pending \in [Ends -> Nat]
    /\ op \in [Ends -> OpState]
    /\ fp \in [Ends -> FpState]
    /\ uin \in [Ends -> Chan(Nat)]
    /\ usr \in [Ends -> UserState]

\* NewMux on both ends of the device (NewMuxPair); no stream is open yet.
Init ==
    /\ wire = [s \in Sides |-> <<>>]
    /\ link = TRUE
    /\ up = [s \in Sides |-> TRUE]
    /\ hup = [s \in Sides |-> FALSE]
    /\ minq = [s \in Sides |-> NewChan]
    /\ dm = [s \in Sides |->
                [pc |-> "read", tag |-> CHOOSE t \in Tags : TRUE, dat |-> 0]]
    /\ mapped = {}
    /\ inq = [e \in Ends |-> NewChan]
    /\ outq = [e \in Ends |-> NewChan]
    /\ flow = [e \in Ends |-> [n |-> 2, open |-> TRUE]]
    /\ pending = [e \in Ends |-> 0]
    /\ op = [e \in Ends |-> [pc |-> "off", msg |-> 0, n |-> 0, first |-> TRUE,
                             reply |-> FALSE, bad |-> FALSE]]
    /\ fp = [e \in Ends |-> [pc |-> "off", msg |-> 0, n |-> 0]]
    /\ uin = [e \in Ends |-> NewChan]
    /\ usr = [e \in Ends |-> [has |-> FALSE, sent |-> 0, seen |-> <<>>,
                              end |-> "open"]]

-----------------------------------------------------------------------------
(* The device.                                                             *)

\* A write of side s: once the peer is gone it may still seem to work.
CanWrite(s) == up[s] /\ link
CanFail(s) == ~up[s] \/ ~link \/ ~up[Other(s)]

\* The device breaks; what is in flight may still be read.
Break ==
    /\ "break" \in UserMay
    /\ link
    /\ link' = FALSE
    /\ UNCHANGED <<wire, up, hup, muxes, chans, procs, usr>>

-----------------------------------------------------------------------------
(* Connections.                                                            *)

\* closeConn, for every end in S.
CloseConns(S, bad) ==
    /\ inq' = [e \in Ends |->
                  IF e \in S THEN CloseChan(inq[e], bad) ELSE inq[e]]
    /\ outq' = [e \in Ends |->
                  IF e \in S THEN CloseChan(outq[e], bad) ELSE outq[e]]
    /\ flow' = [e \in Ends |->
                  IF e \in S THEN [flow[e] EXCEPT !.open = FALSE] ELSE flow[e]]
    /\ mapped' = mapped \ S

ConnsNone(s) == {}
Conns(s) == {e \in mapped : e[1] = s}

\* Close: by the user or, at its end, by demux.
CloseMux(s) ==
    /\ minq' = [minq EXCEPT ![s] = CloseChan(minq[s], TRUE)]
    /\ up' = [up EXCEPT ![s] = FALSE]
    /\ hup' = [hup EXCEPT ![s] = TRUE]
    /\ CloseConns(Conns(s), TRUE)

\* newConn and go m.out, for the user that opens the stream.
Open(e) ==
    /\ IsOpener(e)
    /\ op[e].pc = "off"
    /\ hup[e[1]] => "late" \in UserMay
    /\ mapped' = mapped \cup {e}
    /\ op' = [op EXCEPT ![e].pc = "first"]
    /\ usr' = [usr EXCEPT ![e].has = TRUE]
    /\ UNCHANGED <<device, minq, dm, chans, fp>>

Out(e) == ~IsRpc(e) /\ Open(e)

Rpc(e) == IsRpc(e) /\ Open(e)

-----------------------------------------------------------------------------
(* out: takes messages from conn.out and writes them to the device.        *)

\* <-mc.flow
TakeNoTicket(e) ==
    flow' = [flow EXCEPT ![e].n = IF flow[e].n > 0 THEN @ - 1 ELSE 0]
TakeTicket(e) ==
    \/ /\ flow[e].n > 0
       /\ flow' = [flow EXCEPT ![e].n = @ - 1]
    \/ /\ flow[e].n = 0 /\ ~flow[e].open
       /\ UNCHANGED flow

OutFirst(e) ==
    /\ op[e].pc = "first"
    /\ TakeTicket(e)
    /\ op' = [op EXCEPT ![e].pc = "recv", ![e].n = Half]
    /\ UNCHANGED <<device, muxes, inq, outq, pending, uin, fp, usr>>

\* Is this message the one more than the tickets permit?
NoCreditCheck(e) == FALSE
NoCredit(e) == op[e].n = 0

OutRecv(e) ==
    /\ op[e].pc = "recv"
    /\ \/ /\ outq[e].buf # <<>>
          /\ outq' = [outq EXCEPT ![e] = Pop(@)]
          /\ op' = [op EXCEPT ![e].msg = Head(outq[e].buf),
                              ![e].pc = IF NoCredit(e) THEN "credit"
                                                       ELSE "write"]
       \/ /\ Drained(outq[e])
          /\ op' = [op EXCEPT ![e].pc = "end"]
          /\ UNCHANGED outq
    /\ UNCHANGED <<device, muxes, inq, flow, pending, uin, fp, usr>>

OutCredit(e) ==
    /\ op[e].pc = "credit"
    /\ TakeTicket(e)
    /\ op' = [op EXCEPT ![e].pc = "write", ![e].n = @ + Half]
    /\ UNCHANGED <<device, muxes, inq, outq, pending, uin, fp, usr>>

\* WriteMsg and Flush, with wlk held.  A value that fails to encode itself
\* ("encode") is an error just as one of the device, but writes nothing.
OutWrite(e) ==
    /\ op[e].pc = "write"
    /\ \/ /\ op[e].msg \in Discards
          /\ op' = [op EXCEPT ![e].pc = "recv", ![e].n = @ - 1]
          /\ UNCHANGED <<wire, outq>>
       \/ /\ op[e].msg \notin Discards
          /\ CanWrite(e[1])
          /\ wire' = [wire EXCEPT ![e[1]] =
                         Append(@, DataMsg(e, op[e].first, op[e].msg))]
          /\ op' = [op EXCEPT ![e].pc = "recv", ![e].n = @ - 1,
                              ![e].first = FALSE]
          /\ UNCHANGED outq
       \/ /\ op[e].msg \notin Discards
          /\ CanFail(e[1]) \/ "encode" \in UserMay
          /\ outq' = [outq EXCEPT ![e] = CloseChan(@, TRUE)]
          /\ op' = [op EXCEPT ![e].pc = "end", ![e].n = @ - 1,
                              ![e].first = FALSE]
          /\ UNCHANGED wire
    /\ UNCHANGED <<link, up, hup, muxes, inq, flow, pending, uin, fp, usr>>

\* Who called Rpc keeps the connection for the reply.
NeverKeeps(e) == FALSE
Keeps(e) == ~op[e].reply /\ IsRpc(e) /\ ~outq[e].bad

\* The end of the stream, and its error if it has one.
OutEnd(e) ==
    /\ op[e].pc = "end"
    /\ \/ /\ CanWrite(e[1])
          /\ wire' = [wire EXCEPT ![e[1]] =
                         Append(@, EndMsg(e, op[e].first, outq[e].bad))]
          /\ op' = [op EXCEPT
                      ![e].bad = outq[e].bad,
                      ![e].pc = IF Keeps(e) THEN "done" ELSE "drop"]
       \/ /\ CanFail(e[1])
          /\ op' = [op EXCEPT ![e].bad = TRUE, ![e].pc = "drop"]
          /\ UNCHANGED wire
    /\ UNCHANGED <<link, up, hup, muxes, chans, fp, usr>>

OutDrop(e) ==
    /\ op[e].pc = "drop"
    /\ CloseConns({e}, op[e].bad)
    /\ op' = [op EXCEPT ![e].pc = "done"]
    /\ UNCHANGED <<device, minq, dm, pending, uin, fp, usr>>

\* The goroutine demux made for a grant: mc.flow holds 3 tickets at most.
GoTicket(e) ==
    /\ pending[e] > 0
    /\ flow[e].open => flow[e].n < 3
    /\ pending' = [pending EXCEPT ![e] = @ - 1]
    /\ flow' = [flow EXCEPT ![e].n = IF flow[e].open THEN @ + 1 ELSE @]
    /\ UNCHANGED <<device, muxes, inq, outq, uin, procs, usr>>

-----------------------------------------------------------------------------
(* flowproc: hands to the user what demux left in conn.in.                 *)

FlowRecv(e) ==
    /\ fp[e].pc = "recv"
    /\ \/ /\ inq[e].buf # <<>>
          /\ inq' = [inq EXCEPT ![e] = Pop(@)]
          /\ fp' = [fp EXCEPT ![e].pc = "send", ![e].msg = Head(inq[e].buf)]
          /\ UNCHANGED uin
       \/ /\ Drained(inq[e])
          /\ uin' = [uin EXCEPT ![e] = CloseChan(@, inq[e].bad)]
          /\ fp' = [fp EXCEPT ![e].pc = "done"]
          /\ UNCHANGED inq
    /\ UNCHANGED <<device, muxes, outq, flow, pending, op, usr>>

\* uin <- d, which has no buffer: it happens when the user receives.
FlowPost(e) ==
    /\ fp[e].pc = "send" /\ uin[e].open
    /\ usr' = [usr EXCEPT ![e].seen = Append(@, fp[e].msg)]
    /\ fp' = [fp EXCEPT ![e].n = @ + 1,
                        ![e].pc = IF fp[e].n + 1 = Half THEN "grant"
                                                       ELSE "recv"]
    /\ UNCHANGED <<device, muxes, chans, op>>

\* The user closed its channel.
FlowQuit(e) ==
    /\ fp[e].pc = "send" /\ ~uin[e].open
    /\ inq' = [inq EXCEPT ![e] = CloseChan(@, uin[e].bad)]
    /\ fp' = [fp EXCEPT ![e].pc = "done"]
    /\ UNCHANGED <<device, muxes, outq, flow, pending, uin, op, usr>>

\* The error of this WriteMsg is ignored.
FlowGrant(e) ==
    /\ fp[e].pc = "grant"
    /\ \/ /\ CanWrite(e[1])
          /\ wire' = [wire EXCEPT ![e[1]] =
                         Append(@, FlowMsg(e, Len(usr[e].seen)))]
       \/ CanFail(e[1]) /\ UNCHANGED wire
    /\ fp' = [fp EXCEPT ![e].pc = "recv", ![e].n = 0]
    /\ UNCHANGED <<link, up, hup, muxes, chans, op, usr>>

-----------------------------------------------------------------------------
(* demux: reads the device.  It may still handle what it read just before  *)
(* Close, when it finds that no tag is in use.                             *)

\* ReadMsg returns Got(s), which is for the end GotEnd(s).
Got(s) == Head(wire[Other(s)])
GotEnd(s) == <<s, Got(s).tag>>
ReadMsg(s) ==
    /\ dm[s].pc = "read"
    /\ wire[Other(s)] # <<>>
    /\ wire' = [wire EXCEPT ![Other(s)] = Tail(@)]

\* The stream is over, and this is not the first message of another.
DemuxDiscard(s) ==
    /\ ReadMsg(s)
    /\ GotEnd(s) \notin mapped /\ ~Got(s).first
    /\ UNCHANGED <<link, up, hup, muxes, chans, procs, usr>>

\* conn.in of a new stream.
NewInEmpty(d) == NewChan
NewIn(d) == Push(NewChan, d)

\* A new stream: its first message goes to conn.in whatever it is.
DemuxNew(s) ==
    /\ ReadMsg(s)
    /\ GotEnd(s) \notin mapped /\ Got(s).first
    /\ mapped' = mapped \cup {GotEnd(s)}
    /\ inq' = [inq EXCEPT ![GotEnd(s)] = NewIn(Got(s).dat)]
    /\ outq' = [outq EXCEPT ![GotEnd(s)] = NewChan]
    /\ flow' = [flow EXCEPT ![GotEnd(s)] = [n |-> 2, open |-> IsRpc(GotEnd(s))]]
    /\ uin' = [uin EXCEPT ![GotEnd(s)] = NewChan]
    /\ fp' = [fp EXCEPT ![GotEnd(s)] = [pc |-> "recv", msg |-> 0, n |-> 0]]
    /\ dm' = [dm EXCEPT ![s].pc = "accept", ![s].tag = Got(s).tag]
    /\ UNCHANGED <<link, up, hup, minq, pending, op, usr>>

\* m.in <- uc, and out for the reply.
DemuxAccept(s) ==
    /\ dm[s].pc = "accept"
    /\ minq[s].open /\ Len(minq[s].buf) < InCap
    /\ minq' = [minq EXCEPT ![s] = Push(@, dm[s].tag)]
    /\ op' = IF dm[s].tag \in Rpcs
             THEN [op EXCEPT ![<<s, dm[s].tag>>] =
                      [pc |-> "first", msg |-> 0, n |-> 0, first |-> TRUE,
                       reply |-> TRUE, bad |-> FALSE]]
             ELSE op
    /\ dm' = [dm EXCEPT ![s].pc = "read"]
    /\ UNCHANGED <<device, mapped, chans, fp, usr>>

\* Mux.In is closed.
DemuxRefused(s) ==
    /\ dm[s].pc = "accept"
    /\ ~minq[s].open
    /\ CloseConns({<<s, dm[s].tag>>}, TRUE)
    /\ dm' = [dm EXCEPT ![s].pc = "close"]
    /\ UNCHANGED <<device, minq, pending, uin, procs, usr>>

NoTicket(e) == pending
NewTicket(e) == [pending EXCEPT ![e] = @ + 1]

DemuxGrant(s) ==
    /\ ReadMsg(s)
    /\ GotEnd(s) \in mapped /\ Got(s).kind = "flow"
    /\ pending' = NewTicket(GotEnd(s))
    /\ UNCHANGED <<link, up, hup, muxes, inq, outq, flow, uin, procs, usr>>

\* The connection is over unless it has a reply.
DemuxEnd(s) ==
    /\ ReadMsg(s)
    /\ GotEnd(s) \in mapped /\ Got(s).kind = "end"
    /\ \/ ~IsRpc(GotEnd(s)) /\ CloseConns({GotEnd(s)}, Got(s).bad)
       \/ /\ IsRpc(GotEnd(s))
          /\ flow' = [flow EXCEPT ![GotEnd(s)].open = FALSE]
          /\ inq' = [inq EXCEPT ![GotEnd(s)] = CloseChan(@, Got(s).bad)]
          /\ UNCHANGED <<mapped, outq>>
    /\ UNCHANGED <<link, up, hup, minq, dm, pending, uin, procs, usr>>

\* Who called Out has no conn.in.
DemuxData(s) ==
    /\ ReadMsg(s)
    /\ GotEnd(s) \in mapped /\ Got(s).kind = "data"
    /\ dm' = IF IsOpener(GotEnd(s)) /\ ~IsRpc(GotEnd(s)) THEN dm
             ELSE [dm EXCEPT ![s] = [pc |-> "deliver", tag |-> Got(s).tag,
                                     dat |-> Got(s).dat]]
    /\ UNCHANGED <<link, up, hup, minq, mapped, chans, procs, usr>>

\* mc.in <- d, which blocks while conn.in is full.
DemuxDeliver(s) ==
    LET e == <<s, dm[s].tag>>
    IN  /\ dm[s].pc = "deliver"
        /\ inq[e].open /\ Len(inq[e].buf) < NBUF
        /\ inq' = [inq EXCEPT ![e] = Push(@, dm[s].dat)]
        /\ dm' = [dm EXCEPT ![s].pc = "read"]
        /\ UNCHANGED <<device, minq, mapped, outq, flow, pending, uin, procs,
                       usr>>

\* The user or the end of the reply closed conn.in.
DemuxClosed(s) ==
    LET e == <<s, dm[s].tag>>
    IN  /\ dm[s].pc = "deliver"
        /\ ~inq[e].open
        /\ CloseConns({e}, inq[e].bad)
        /\ dm' = [dm EXCEPT ![s].pc = "read"]
        /\ UNCHANGED <<device, minq, pending, uin, procs, usr>>

\* ReadMsg fails: the device broke, or either side closed it.
DemuxEOF(s) ==
    /\ dm[s].pc = "read"
    /\ \/ ~up[s] \/ ~link
       \/ ~up[Other(s)] /\ wire[Other(s)] = <<>>
    /\ dm' = [dm EXCEPT ![s].pc = "close"]
    /\ UNCHANGED <<device, minq, mapped, chans, procs, usr>>

DemuxClose(s) ==
    /\ dm[s].pc = "close"
    /\ dm' = [dm EXCEPT ![s].pc = "done"]
    /\ CloseMux(s)
    /\ UNCHANGED <<wire, link, pending, uin, procs, usr>>

Demux(s) ==
    \/ DemuxDiscard(s) \/ DemuxNew(s) \/ DemuxAccept(s) \/ DemuxRefused(s)
    \/ DemuxGrant(s) \/ DemuxEnd(s) \/ DemuxData(s) \/ DemuxDeliver(s)
    \/ DemuxClosed(s) \/ DemuxEOF(s) \/ DemuxClose(s)

-----------------------------------------------------------------------------
(* Users.  Those of one-way streams only write, or only read.              *)

HasOut(e) == IsOpener(e) \/ IsRpc(e)
HasIn(e) == ~IsOpener(e) \/ IsRpc(e)

\* Those that did not call Rpc read from flowproc.
Flows(e) == fp[e].pc # "off"

UserRecv(e) ==
    /\ usr[e].has /\ HasIn(e) /\ usr[e].end = "open"
    /\ \/ Flows(e) /\ FlowPost(e)
       \/ /\ ~Flows(e)
          /\ inq[e].buf # <<>>
          /\ inq' = [inq EXCEPT ![e] = Pop(@)]
          /\ usr' = [usr EXCEPT ![e].seen = Append(@, Head(inq[e].buf))]
          /\ UNCHANGED <<device, muxes, outq, flow, pending, uin, procs>>

\* A receive that is not ok; cerror(c.In) tells why.
UserEOF(e) ==
    LET c == IF Flows(e) THEN uin[e] ELSE inq[e]
    IN  /\ usr[e].has /\ HasIn(e) /\ usr[e].end = "open"
        /\ Drained(c)
        /\ usr' = [usr EXCEPT ![e].end = IF c.bad THEN "cut" ELSE "ended"]
        /\ UNCHANGED <<device, muxes, chans, procs>>

UserAccept(s) ==
    /\ minq[s].buf # <<>>
    /\ minq' = [minq EXCEPT ![s] = Pop(@)]
    /\ usr' = [usr EXCEPT ![<<s, Head(minq[s].buf)>>].has = TRUE]
    /\ UNCHANGED <<device, dm, mapped, chans, procs>>

UserSend(e) ==
    /\ usr[e].has /\ HasOut(e)
    /\ usr[e].sent < MaxSend[e]
    /\ outq[e].open /\ Len(outq[e].buf) < NBUF
    /\ outq' = [outq EXCEPT ![e] = Push(@, usr[e].sent + 1)]
    /\ usr' = [usr EXCEPT ![e].sent = @ + 1]
    /\ UNCHANGED <<device, muxes, inq, flow, pending, uin, procs>>

\* close(c.Out) and close(c.Out, err)
UserClose(e, bad) ==
    /\ usr[e].has /\ HasOut(e)
    /\ outq[e].open
    /\ bad => "closeerr" \in UserMay
    /\ (\A k \in 1..usr[e].sent : k \in Discards) => "empty" \in UserMay
    /\ outq' = [outq EXCEPT ![e] = CloseChan(@, bad)]
    /\ UNCHANGED <<device, muxes, inq, flow, pending, uin, procs, usr>>

\* close(c.In, err), to stop reading.
UserQuit(e) ==
    /\ "quit" \in UserMay
    /\ usr[e].has /\ HasIn(e) /\ usr[e].end = "open"
    /\ usr' = [usr EXCEPT ![e].end = "cut"]
    /\ IF Flows(e)
       THEN uin' = [uin EXCEPT ![e] = CloseChan(@, TRUE)] /\ UNCHANGED inq
       ELSE inq' = [inq EXCEPT ![e] = CloseChan(@, TRUE)] /\ UNCHANGED uin
    /\ UNCHANGED <<device, muxes, outq, flow, pending, procs>>

\* close(m.In, err), to take no more streams.
UserRefuse(s) ==
    /\ "refuse" \in UserMay
    /\ minq[s].open
    /\ minq' = [minq EXCEPT ![s] = CloseChan(@, TRUE)]
    /\ UNCHANGED <<device, dm, mapped, chans, procs, usr>>

\* m.Close(); a second call closes the streams opened since the first.
Close(s) ==
    /\ "close" \in UserMay
    /\ hup[s] => "late" \in UserMay
    /\ CloseMux(s)
    /\ UNCHANGED <<wire, link, dm, pending, uin, procs, usr>>

-----------------------------------------------------------------------------

Goroutines(e) ==
    \/ OutFirst(e) \/ OutRecv(e) \/ OutCredit(e) \/ OutWrite(e) \/ OutEnd(e)
    \/ OutDrop(e) \/ GoTicket(e) \/ FlowRecv(e) \/ FlowQuit(e) \/ FlowGrant(e)

Users(e) ==
    \/ Out(e) \/ Rpc(e) \/ UserRecv(e) \/ UserEOF(e) \/ UserSend(e)
    \/ UserQuit(e) \/ UserClose(e, FALSE) \/ UserClose(e, TRUE)

Next ==
    \/ \E e \in Ends : Goroutines(e) \/ Users(e)
    \/ \E s \in Sides : Demux(s) \/ UserAccept(s) \/ UserRefuse(s) \/ Close(s)
    \/ Break

Spec == Init /\ [][Next]_vars

\* The Go scheduler runs every goroutine that can run.
Scheduled ==
    /\ \A e \in Ends :
        /\ WF_vars(OutFirst(e)) /\ WF_vars(OutRecv(e)) /\ WF_vars(OutCredit(e))
        /\ WF_vars(OutWrite(e)) /\ WF_vars(OutEnd(e)) /\ WF_vars(OutDrop(e))
        /\ WF_vars(GoTicket(e)) /\ WF_vars(FlowRecv(e)) /\ WF_vars(FlowQuit(e))
        /\ WF_vars(FlowGrant(e))
    /\ \A s \in Sides : WF_vars(Demux(s))

\* Users keep reading the streams and taking new ones.
Reading ==
    /\ \A e \in Ends : WF_vars(UserRecv(e)) /\ WF_vars(UserEOF(e))
    /\ \A s \in Sides : WF_vars(UserAccept(s))

FairSpec == Spec /\ Scheduled /\ Reading

-----------------------------------------------------------------------------
(* Correctness.                                                            *)

\* Flow control does its job: demux never waits to deliver a message of a
\* one-way stream, so one that nobody reads does not stop the others (the
\* comment on struct Mux, and the tickets of out and flowproc).
OneWayNeverBlocks ==
    \A s \in Sides :
        LET e == <<s, dm[s].tag>>
        IN  dm[s].pc = "deliver" /\ ~IsRpc(e) => Len(inq[e].buf) < NBUF

\* The same for every stream, as the comment on struct Mux says: "it is ok for
\* any of the mux clients to cease reading for a while".
NeverBlocks ==
    \A s \in Sides :
        LET e == <<s, dm[s].tag>>
        IN  dm[s].pc = "deliver" /\ inq[e].open => Len(inq[e].buf) < NBUF

\* Who opened a stream is never told of it as if it were the peer's: Mux.In
\* gets only tags from the half of the tag space of the other side.
NoPhantom ==
    \A s \in Sides : \A i \in DOMAIN minq[s].buf : Opener[minq[s].buf[i]] # s

\* The channels of the end e as in module Stream; the callee that ended its
\* reply does not care about the rest of the request.
ReaderOf(e) ==
    IF ~IsOpener(e) /\ IsRpc(e) /\ ~outq[e].open /\ usr[e].end # "open"
    THEN "cut" ELSE usr[e].end
WriterOf(e) ==
    IF outq[e].open THEN "open" ELSE IF outq[e].bad THEN "cut" ELSE "ended"

\* A stream that was closed is read to its end, unless the Mux hangs up: all
\* the goroutines of both Muxes do their part, and no credit is lost.
Delivery ==
    \A e \in Ends : HasOut(e) =>
        (WriterOf(e) = "ended" ~> ReaderOf(Peer(e)) # "open" \/ hup[e[1]])

\* When a Mux is closed, or its device fails, the peer gets to know (Hup), and
\* the goroutine in demux and those in out cease at both sides.
Hangup ==
    \A s \in Sides :
        hup[s] ~> /\ hup[Other(s)] /\ dm[s].pc = "done"
                  /\ \A e \in Ends : op[e].pc \in {"off", "done"}
=============================================================================
