----------------------------- MODULE MuxProofs ------------------------------
(***************************************************************************)
(* Type correctness of Mux, for any number of streams and any nbuf, and    *)
(* the facts about its types that other proofs rely on.                    *)
(***************************************************************************)
EXTENDS Mux, LsubChanProofs, TLAPS

\* TypeOK is not inductive: nmsgs is not 0 when out writes.
TypeInv ==
    /\ TypeOK
    /\ \A e \in Ends : op[e].pc = "write" => op[e].n >= 1

\* An end is a side and a tag, and each side has one other side.
LEMMA EndsFacts ==
    /\ \A s \in Sides : Other(s) \in Sides /\ Other(s) # s /\ Other(Other(s)) = s
    /\ \A e \in Ends : e[1] \in Sides /\ e[2] \in Tags /\ e = <<e[1], e[2]>>
    /\ \A s \in Sides, t \in Tags : <<s, t>> \in Ends
BY DEF Sides, Other, Ends

\* A ticket is worth at least one message, and two fit in the channel.
LEMMA HalfFacts == Half \in Nat /\ Half >= 1 /\ 2 * Half <= NBUF
BY MuxAssumption DEF MuxAssumption, Half

\* NewMux leaves every variable in its type.
LEMMA InitType == Init => TypeOK
<1> SUFFICES ASSUME Init PROVE TypeOK
  OBVIOUS
<1>1. \A S : NewChan \in Chan(S)
  BY DEF NewChan, Chan
<1>2. (CHOOSE t \in Tags : TRUE) \in Tags
  BY MuxAssumption DEF MuxAssumption
<1> QED
  BY <1>1, <1>2 DEF Init, TypeOK, DmState, OpState, FpState, UserState, Flow

\* A new state of one goroutine in out keeps all of them in their type.
LEMMA OpUpdate ==
    ASSUME TypeInv, NEW e \in Ends, NEW v \in OpState,
           v.pc = "write" => v.n >= 1, op' = [op EXCEPT ![e] = v]
    PROVE  /\ op' \in [Ends -> OpState]
           /\ \A x \in Ends : op'[x].pc = "write" => op'[x].n >= 1
BY DEF TypeInv, TypeOK

\* What TypeInv says of one end and of one side.
LEMMA EndTypes ==
    ASSUME TypeInv, NEW e \in Ends
    PROVE  /\ op[e] \in OpState /\ fp[e] \in FpState /\ usr[e] \in UserState
           /\ inq[e] \in Chan(Nat) /\ outq[e] \in Chan(Nat)
           /\ uin[e] \in Chan(Nat) /\ flow[e] \in Flow /\ pending[e] \in Nat
BY DEF TypeInv, TypeOK

\* What TypeOK says of the variables of one Mux.
LEMMA SideTypes ==
    ASSUME TypeInv, NEW s \in Sides
    PROVE  /\ wire[s] \in Seq(Msg) /\ minq[s] \in Chan(Tags)
           /\ dm[s] \in DmState /\ up[s] \in BOOLEAN /\ hup[s] \in BOOLEAN
BY DEF TypeInv, TypeOK

\* Taking a ticket leaves no negative number of tickets.
LEMMA TicketType ==
    ASSUME TypeInv, NEW e \in Ends, TakeTicket(e)
    PROVE  flow' \in [Ends -> Flow]
<1>1. flow[e] \in Flow /\ flow[e].n \in Nat
  BY EndTypes DEF Flow
<1>2. CASE UNCHANGED flow
  BY <1>2 DEF TypeInv, TypeOK
<1>3. CASE flow[e].n > 0 /\ flow' = [flow EXCEPT ![e].n = @ - 1]
  <2>1. [flow[e] EXCEPT !.n = flow[e].n - 1] \in Flow
    BY <1>1, <1>3 DEF Flow
  <2> QED
    BY <1>3, <2>1 DEF TypeInv, TypeOK
<1> QED
  BY <1>2, <1>3 DEF TakeTicket

\* closeConn keeps the connections in their types.
LEMMA CloseType ==
    ASSUME TypeInv, NEW S \in SUBSET Ends, NEW b \in BOOLEAN, CloseConns(S, b)
    PROVE  /\ mapped' \in SUBSET Ends
           /\ inq' \in [Ends -> Chan(Nat)]
           /\ outq' \in [Ends -> Chan(Nat)]
           /\ flow' \in [Ends -> Flow]
<1>1. \A e \in Ends : /\ CloseChan(inq[e], b) \in Chan(Nat)
                      /\ CloseChan(outq[e], b) \in Chan(Nat)
  BY EndTypes, ChanFacts
<1>2. \A x \in Flow : [x EXCEPT !.open = FALSE] \in Flow
  BY DEF Flow
<1> QED
  BY <1>1, <1>2 DEF TypeInv, TypeOK, CloseConns

\* Writing a message keeps the device in its type.
LEMMA WriteType ==
    ASSUME TypeInv, NEW s \in Sides, NEW m \in Msg,
           wire' = [wire EXCEPT ![s] = Append(wire[s], m)]
    PROVE  wire' \in [Sides -> Seq(Msg)]
BY SideTypes DEF TypeInv, TypeOK

\* Every step of out keeps the types, and it writes only with credit.
LEMMA OutType ==
    ASSUME TypeInv, NEW e \in Ends,
           \/ OutFirst(e) \/ OutRecv(e) \/ OutCredit(e)
           \/ OutWrite(e) \/ OutEnd(e) \/ OutDrop(e)
    PROVE  TypeInv'
<1> DEFINE o == op[e]
           OpOK == /\ op' \in [Ends -> OpState]
                   /\ \A x \in Ends : op'[x].pc = "write" => op'[x].n >= 1
<1>0. o \in OpState /\ outq[e] \in Chan(Nat) /\ o.n \in Nat
  BY EndTypes DEF OpState
<1>1. CASE OutFirst(e)
  <2> DEFINE v == [o EXCEPT !.pc = "recv", !.n = Half]
  <2>1. op' = [op EXCEPT ![e] = v]
    BY <1>1 DEF OutFirst
  <2>2. v \in OpState /\ v.pc # "write"
    BY <1>0, HalfFacts DEF OpState
  <2>3. OpOK
    BY <2>1, <2>2, OpUpdate
  <2>4. flow' \in [Ends -> Flow]
    BY <1>1, TicketType DEF OutFirst
  <2> QED
    BY <1>1, <2>3, <2>4
    DEF TypeInv, TypeOK, OutFirst, device, muxes, chans, procs
<1>2. CASE OutRecv(e)
  <2>1. CASE outq[e].buf # <<>>
    <3> DEFINE v == [o EXCEPT !.msg = Head(outq[e].buf),
                              !.pc = IF o.n = 0 THEN "credit" ELSE "write"]
    <3>1. op' = [op EXCEPT ![e] = v] /\ outq' = [outq EXCEPT ![e] = Pop(outq[e])]
      BY <1>2, <2>1 DEF OutRecv, NoCredit, Drained
    <3>2. Head(outq[e].buf) \in Nat /\ Pop(outq[e]) \in Chan(Nat)
      BY <1>0, <2>1, ChanFacts
    <3>3. v \in OpState
      BY <1>0, <3>2 DEF OpState
    <3>4. v.n = o.n /\ v.pc = IF o.n = 0 THEN "credit" ELSE "write"
      BY <1>0 DEF OpState
    <3>5. v.pc = "write" => v.n >= 1
      BY <1>0, <3>4
    <3>6. OpOK
      BY <3>1, <3>3, <3>5, OpUpdate
    <3> QED
      BY <1>2, <3>1, <3>2, <3>6
      DEF TypeInv, TypeOK, OutRecv, device, muxes, chans, procs
  <2>2. CASE outq[e].buf = <<>>
    <3> DEFINE v == [o EXCEPT !.pc = "end"]
    <3>1. op' = [op EXCEPT ![e] = v] /\ outq' = outq
      BY <1>2, <2>2 DEF OutRecv
    <3>2. v \in OpState /\ v.pc # "write"
      BY <1>0 DEF OpState
    <3>3. OpOK
      BY <3>1, <3>2, OpUpdate
    <3> QED
      BY <1>2, <3>1, <3>3
      DEF TypeInv, TypeOK, OutRecv, device, muxes, chans, procs
  <2> QED
    BY <2>1, <2>2
<1>3. CASE OutCredit(e)
  <2> DEFINE v == [o EXCEPT !.pc = "write", !.n = o.n + Half]
  <2>1. op' = [op EXCEPT ![e] = v]
    BY <1>3 DEF OutCredit
  <2>2. v \in OpState /\ v.n = o.n + Half
    <3>1. o.n + Half \in Nat
      BY <1>0, HalfFacts
    <3> QED BY <1>0, <3>1 DEF OpState
  <2>3. OpOK
    <3>1. v.n >= 1
      BY <1>0, <2>2, HalfFacts
    <3> QED BY <2>1, <2>2, <3>1, OpUpdate
  <2>4. flow' \in [Ends -> Flow]
    BY <1>3, TicketType DEF OutCredit
  <2> QED
    BY <1>3, <2>3, <2>4
    DEF TypeInv, TypeOK, OutCredit, device, muxes, chans, procs
<1>4. CASE OutWrite(e)
  <2> DEFINE v1 == [o EXCEPT !.pc = "recv", !.n = o.n - 1]
             v2 == [o EXCEPT !.pc = "recv", !.n = o.n - 1, !.first = FALSE]
             v3 == [o EXCEPT !.pc = "end", !.n = o.n - 1, !.first = FALSE]
             m == DataMsg(e, o.first, o.msg)
  <2>1. o.n - 1 \in Nat
    BY <1>0, <1>4 DEF OutWrite, TypeInv
  <2>2. op' \in {[op EXCEPT ![e] = v1], [op EXCEPT ![e] = v2], [op EXCEPT ![e] = v3]}
    BY <1>4 DEF OutWrite
  <2>3. /\ v1 \in OpState /\ v1.pc # "write"
        /\ v2 \in OpState /\ v2.pc # "write"
        /\ v3 \in OpState /\ v3.pc # "write"
    BY <1>0, <2>1 DEF OpState
  <2>4. OpOK
    <3> HIDE DEF v1, v2, v3
    <3> QED BY <2>2, <2>3, OpUpdate
  <2>5. m \in Msg
    BY <1>0, EndsFacts DEF DataMsg, Msg, OpState
  <2>6. wire' \in {wire, [wire EXCEPT ![e[1]] = Append(wire[e[1]], m)]}
    BY <1>4 DEF OutWrite
  <2>7. wire' \in [Sides -> Seq(Msg)]
    <3> HIDE DEF m
    <3> QED BY <2>5, <2>6, EndsFacts, WriteType DEF TypeInv, TypeOK
  <2>8. outq' \in {outq, [outq EXCEPT ![e] = CloseChan(outq[e], TRUE)]}
    BY <1>4 DEF OutWrite
  <2>9. outq' \in [Ends -> Chan(Nat)]
    <3>1. CloseChan(outq[e], TRUE) \in Chan(Nat)
      BY <1>0, ChanFacts
    <3> QED BY <2>8, <3>1 DEF TypeInv, TypeOK
  <2> QED
    BY <1>4, <2>4, <2>7, <2>9
    DEF TypeInv, TypeOK, OutWrite, device, muxes, chans, procs
<1>5. CASE OutEnd(e)
  <2> DEFINE v(b, pc) == [o EXCEPT !.bad = b, !.pc = pc]
             m == EndMsg(e, o.first, outq[e].bad)
  <2>1. \/ op' = [op EXCEPT ![e] = v(outq[e].bad, "done")]
        \/ op' = [op EXCEPT ![e] = v(outq[e].bad, "drop")]
        \/ op' = [op EXCEPT ![e] = v(TRUE, "drop")]
    BY <1>5 DEF OutEnd
  <2>2. outq[e].bad \in BOOLEAN
    BY <1>0, ChanFacts
  <2>3. \A b \in BOOLEAN, pc \in {"drop", "done"} :
            v(b, pc) \in OpState /\ v(b, pc).pc # "write"
    BY <1>0 DEF OpState
  <2>4. OpOK
    <3> HIDE DEF v
    <3> QED BY <2>1, <2>2, <2>3, OpUpdate
  <2>5. m \in Msg
    BY <1>0, <2>2, EndsFacts DEF EndMsg, Msg, OpState
  <2>6. wire' \in {wire, [wire EXCEPT ![e[1]] = Append(wire[e[1]], m)]}
    BY <1>5 DEF OutEnd
  <2>7. wire' \in [Sides -> Seq(Msg)]
    <3> HIDE DEF m
    <3> QED BY <2>5, <2>6, EndsFacts, WriteType DEF TypeInv, TypeOK
  <2> QED
    BY <1>5, <2>4, <2>7
    DEF TypeInv, TypeOK, OutEnd, device, muxes, chans, procs
<1>6. CASE OutDrop(e)
  <2> DEFINE v == [o EXCEPT !.pc = "done"]
  <2>1. op' = [op EXCEPT ![e] = v] /\ CloseConns({e}, o.bad)
    BY <1>6 DEF OutDrop
  <2>2. v \in OpState /\ v.pc # "write" /\ o.bad \in BOOLEAN
    BY <1>0 DEF OpState
  <2>3. OpOK
    BY <2>1, <2>2, OpUpdate
  <2>4. /\ mapped' \in SUBSET Ends
        /\ inq' \in [Ends -> Chan(Nat)]
        /\ outq' \in [Ends -> Chan(Nat)]
        /\ flow' \in [Ends -> Flow]
    <3>1. {e} \in SUBSET Ends
      OBVIOUS
    <3> HIDE DEF o
    <3> QED BY <2>1, <2>2, <3>1, CloseType
  <2> QED
    BY <1>6, <2>3, <2>4
    DEF TypeInv, TypeOK, OutDrop, device, muxes, chans, procs
<1> QED
  BY <1>1, <1>2, <1>3, <1>4, <1>5, <1>6

\* Every step of flowproc, and a new ticket, keep the types.
LEMMA FlowType ==
    ASSUME TypeInv, NEW e \in Ends,
           \/ GoTicket(e) \/ FlowRecv(e) \/ FlowPost(e)
           \/ FlowQuit(e) \/ FlowGrant(e)
    PROVE  TypeInv'
<1> DEFINE f == fp[e]
<1>0. /\ f \in FpState /\ f.msg \in Nat /\ f.n \in Nat
      /\ inq[e] \in Chan(Nat) /\ uin[e] \in Chan(Nat)
  BY EndTypes DEF FpState
<1>1. CASE GoTicket(e)
  <2>1. flow[e] \in Flow /\ flow[e].n \in Nat /\ pending[e] \in Nat
    BY EndTypes DEF Flow
  <2>2. [flow[e] EXCEPT !.n = IF flow[e].open THEN flow[e].n + 1 ELSE flow[e].n] \in Flow
    BY <2>1 DEF Flow
  <2>3. flow' \in [Ends -> Flow]
    BY <1>1, <2>2 DEF GoTicket, TypeInv, TypeOK
  <2>4. pending' \in [Ends -> Nat]
    BY <1>1, <2>1 DEF GoTicket, TypeInv, TypeOK
  <2> QED
    BY <1>1, <2>3, <2>4 DEF TypeInv, TypeOK, GoTicket, device, muxes, chans, procs
<1>2. CASE FlowRecv(e)
  <2> DEFINE v1 == [f EXCEPT !.pc = "send", !.msg = Head(inq[e].buf)]
             v2 == [f EXCEPT !.pc = "done"]
             c1 == Pop(inq[e])
             c2 == CloseChan(uin[e], inq[e].bad)
  <2>1. CASE inq[e].buf # <<>>
    <3>1. /\ fp' = [fp EXCEPT ![e] = v1] /\ inq' = [inq EXCEPT ![e] = c1]
          /\ uin' = uin
      BY <1>2, <2>1 DEF FlowRecv, Drained
    <3>2. Head(inq[e].buf) \in Nat /\ c1 \in Chan(Nat)
      BY <1>0, <2>1, ChanFacts
    <3>3. v1 \in FpState
      BY <1>0, <3>2 DEF FpState
    <3> HIDE DEF v1, c1
    <3> QED
      BY <1>2, <3>1, <3>2, <3>3
      DEF TypeInv, TypeOK, FlowRecv, device, muxes, chans, procs
  <2>2. CASE inq[e].buf = <<>>
    <3>1. /\ fp' = [fp EXCEPT ![e] = v2] /\ uin' = [uin EXCEPT ![e] = c2]
          /\ inq' = inq
      BY <1>2, <2>2 DEF FlowRecv
    <3>2. v2 \in FpState /\ c2 \in Chan(Nat)
      BY <1>0, ChanFacts DEF FpState
    <3> HIDE DEF v2, c2
    <3> QED
      BY <1>2, <3>1, <3>2
      DEF TypeInv, TypeOK, FlowRecv, device, muxes, chans, procs
  <2> QED
    BY <2>1, <2>2
<1>3. CASE FlowPost(e)
  <2> DEFINE v(p) == [f EXCEPT !.n = f.n + 1, !.pc = p]
             u == [usr[e] EXCEPT !.seen = Append(usr[e].seen, f.msg)]
  <2>1. fp' \in {[fp EXCEPT ![e] = v("grant")], [fp EXCEPT ![e] = v("recv")]}
    BY <1>3 DEF FlowPost
  <2>2. v("grant") \in FpState /\ v("recv") \in FpState
    <3>1. f.n + 1 \in Nat
      BY <1>0
    <3> QED
      BY <1>0, <3>1 DEF FpState
  <2>3. usr' = [usr EXCEPT ![e] = u]
    BY <1>3 DEF FlowPost
  <2>4. u \in UserState
    <3>1. usr[e] \in UserState /\ usr[e].seen \in Seq(Nat)
      BY EndTypes DEF UserState
    <3>2. Append(usr[e].seen, f.msg) \in Seq(Nat)
      BY <1>0, <3>1
    <3> QED
      BY <3>1, <3>2 DEF UserState
  <2>5. UNCHANGED <<device, muxes, chans, op>>
    BY <1>3 DEF FlowPost
  <2> HIDE DEF v, u
  <2> QED
    BY <2>1, <2>2, <2>3, <2>4, <2>5
    DEF TypeInv, TypeOK, device, muxes, chans
<1>4. CASE FlowQuit(e)
  <2> DEFINE v == [f EXCEPT !.pc = "done"]
             c == CloseChan(inq[e], uin[e].bad)
  <2>1. fp' = [fp EXCEPT ![e] = v] /\ inq' = [inq EXCEPT ![e] = c]
    BY <1>4 DEF FlowQuit
  <2>2. v \in FpState /\ c \in Chan(Nat)
    BY <1>0, ChanFacts DEF FpState
  <2> HIDE DEF v, c
  <2> QED
    BY <1>4, <2>1, <2>2 DEF TypeInv, TypeOK, FlowQuit, device, muxes, chans, procs
<1>5. CASE FlowGrant(e)
  <2> DEFINE v == [f EXCEPT !.pc = "recv", !.n = 0]
             m == FlowMsg(e, Len(usr[e].seen))
  <2>1. /\ fp' = [fp EXCEPT ![e] = v]
        /\ wire' \in {wire, [wire EXCEPT ![e[1]] = Append(wire[e[1]], m)]}
    BY <1>5 DEF FlowGrant
  <2>2. v \in FpState
    BY <1>0 DEF FpState
  <2>3. m \in Msg
    <3>1. Len(usr[e].seen) \in Nat
      BY EndTypes DEF UserState
    <3> QED
      BY <3>1, EndsFacts DEF FlowMsg, Msg
  <2> HIDE DEF v, m
  <2>4. wire' \in [Sides -> Seq(Msg)]
    BY <2>1, <2>3, EndsFacts, WriteType DEF TypeInv, TypeOK
  <2> QED
    BY <1>5, <2>1, <2>2, <2>4
    DEF TypeInv, TypeOK, FlowGrant, device, muxes, chans, procs
<1> QED
  BY <1>1, <1>2, <1>3, <1>4, <1>5

\* What demux reads is a message, for an end of its side.
LEMMA ReadType ==
    ASSUME TypeInv, NEW s \in Sides, ReadMsg(s)
    PROVE  /\ wire' \in [Sides -> Seq(Msg)]
           /\ Got(s) \in Msg /\ GotEnd(s) \in Ends
           /\ Got(s).tag \in Tags /\ Got(s).dat \in Nat /\ Got(s).bad \in BOOLEAN
<1>1. Other(s) \in Sides /\ wire[Other(s)] \in Seq(Msg)
  BY EndsFacts, SideTypes
<1>2. wire[Other(s)] # <<>>
  BY DEF ReadMsg
<1>3. Head(wire[Other(s)]) \in Msg /\ Tail(wire[Other(s)]) \in Seq(Msg)
  BY <1>1, <1>2
<1>4. wire' \in [Sides -> Seq(Msg)]
  BY <1>3 DEF ReadMsg, TypeInv, TypeOK
<1>5. Got(s) \in Msg /\ Got(s).tag \in Tags /\ Got(s).dat \in Nat /\ Got(s).bad \in BOOLEAN
  BY <1>3 DEF Got, Msg
<1> QED
  BY <1>4, <1>5, EndsFacts DEF GotEnd

\* What demux does with a message it read keeps the types.
LEMMA DemuxReadType ==
    ASSUME TypeInv, NEW s \in Sides,
           \/ DemuxDiscard(s) \/ DemuxNew(s) \/ DemuxGrant(s)
           \/ DemuxEnd(s) \/ DemuxData(s)
    PROVE  TypeInv'
<1> DEFINE g == GotEnd(s)
<1>0. /\ wire' \in [Sides -> Seq(Msg)] /\ Got(s) \in Msg /\ g \in Ends
      /\ Got(s).tag \in Tags /\ Got(s).dat \in Nat /\ Got(s).bad \in BOOLEAN
      /\ dm[s] \in DmState
  BY ReadType, SideTypes
     DEF DemuxDiscard, DemuxNew, DemuxGrant, DemuxEnd, DemuxData
<1> HIDE DEF g
<1>1. CASE DemuxDiscard(s)
  BY <1>0, <1>1 DEF TypeInv, TypeOK, DemuxDiscard, device, muxes, chans, procs
<1>2. CASE DemuxNew(s)
  <2> DEFINE d == [dm[s] EXCEPT !.pc = "accept", !.tag = Got(s).tag]
  <2>1. d \in DmState
    BY <1>0 DEF DmState
  <2>2. dm' = [dm EXCEPT ![s] = d]
    BY <1>2 DEF DemuxNew
  <2>3. NewChan \in Chan(Nat) /\ NewIn(Got(s).dat) \in Chan(Nat)
    <3>1. NewChan \in Chan(Nat)
      BY DEF NewChan, Chan
    <3> QED
      BY <1>0, <3>1, ChanFacts DEF NewIn
  <2>4. /\ inq' = [inq EXCEPT ![g] = NewIn(Got(s).dat)]
        /\ outq' = [outq EXCEPT ![g] = NewChan]
        /\ uin' = [uin EXCEPT ![g] = NewChan]
        /\ mapped' = mapped \cup {g}
    BY <1>2 DEF DemuxNew, g
  <2>5. /\ inq' \in [Ends -> Chan(Nat)] /\ outq' \in [Ends -> Chan(Nat)]
        /\ uin' \in [Ends -> Chan(Nat)] /\ mapped' \in SUBSET Ends
    BY <1>0, <2>3, <2>4 DEF TypeInv, TypeOK
  <2>6. flow' \in [Ends -> Flow]
    <3>1. flow' = [flow EXCEPT ![g] = [n |-> 2, open |-> IsRpc(g)]]
      BY <1>2 DEF DemuxNew, g
    <3>2. [n |-> 2, open |-> IsRpc(g)] \in Flow
      BY DEF Flow, IsRpc
    <3> QED
      BY <1>0, <3>1, <3>2 DEF TypeInv, TypeOK
  <2>7. fp' \in [Ends -> FpState]
    <3>1. fp' = [fp EXCEPT ![g] = [pc |-> "recv", msg |-> 0, n |-> 0]]
      BY <1>2 DEF DemuxNew, g
    <3>2. [pc |-> "recv", msg |-> 0, n |-> 0] \in FpState
      BY DEF FpState
    <3> QED
      BY <1>0, <3>1, <3>2 DEF TypeInv, TypeOK
  <2>8. UNCHANGED <<link, up, hup, minq, pending, op, usr>>
    BY <1>2 DEF DemuxNew
  <2> HIDE DEF d
  <2> QED
    BY <1>0, <2>1, <2>2, <2>5, <2>6, <2>7, <2>8 DEF TypeInv, TypeOK
<1>3. CASE DemuxGrant(s)
  <2>1. pending' = [pending EXCEPT ![g] = pending[g] + 1]
    BY <1>3 DEF DemuxGrant, NewTicket, g
  <2>2. pending[g] + 1 \in Nat
    BY <1>0, EndTypes
  <2> QED
    BY <1>0, <1>3, <2>1, <2>2
    DEF TypeInv, TypeOK, DemuxGrant, device, muxes, chans, procs
<1>4. CASE DemuxEnd(s)
  <2>1. /\ mapped' \in SUBSET Ends
        /\ inq' \in [Ends -> Chan(Nat)]
        /\ outq' \in [Ends -> Chan(Nat)]
        /\ flow' \in [Ends -> Flow]
    <3>1. CASE CloseConns({g}, Got(s).bad)
      BY <1>0, <3>1, CloseType
    <3>2. CASE /\ flow' = [flow EXCEPT ![g].open = FALSE]
               /\ inq' = [inq EXCEPT ![g] = CloseChan(inq[g], Got(s).bad)]
               /\ UNCHANGED <<outq, mapped>>
      <4>1. CloseChan(inq[g], Got(s).bad) \in Chan(Nat)
        BY <1>0, EndTypes, ChanFacts
      <4>2. [flow[g] EXCEPT !.open = FALSE] \in Flow
        BY <1>0, EndTypes DEF Flow
      <4> QED
        BY <1>0, <3>2, <4>1, <4>2 DEF TypeInv, TypeOK
    <3> QED
      BY <1>4, <3>1, <3>2 DEF DemuxEnd, g
  <2> QED
    BY <1>0, <1>4, <2>1 DEF TypeInv, TypeOK, DemuxEnd, device, muxes, chans, procs
<1>5. CASE DemuxData(s)
  <2> DEFINE d == [pc |-> "deliver", tag |-> Got(s).tag, dat |-> Got(s).dat]
  <2>1. dm' \in {dm, [dm EXCEPT ![s] = d]}
    BY <1>5 DEF DemuxData
  <2>2. d \in DmState
    BY <1>0 DEF DmState
  <2> HIDE DEF d
  <2> QED
    BY <1>0, <1>5, <2>1, <2>2
    DEF TypeInv, TypeOK, DemuxData, device, muxes, chans, procs
<1> QED
  BY <1>1, <1>2, <1>3, <1>4, <1>5

\* Close keeps the types of what it changes.
LEMMA CloseMuxType ==
    ASSUME TypeInv, NEW s \in Sides, CloseMux(s)
    PROVE  /\ minq' \in [Sides -> Chan(Tags)]
           /\ up' \in [Sides -> BOOLEAN] /\ hup' \in [Sides -> BOOLEAN]
           /\ mapped' \in SUBSET Ends
           /\ inq' \in [Ends -> Chan(Nat)]
           /\ outq' \in [Ends -> Chan(Nat)]
           /\ flow' \in [Ends -> Flow]
<1>1. Conns(s) \in SUBSET Ends /\ CloseConns(Conns(s), TRUE)
  BY DEF CloseMux, Conns, TypeInv, TypeOK
<1>2. CloseChan(minq[s], TRUE) \in Chan(Tags)
  BY SideTypes, ChanFacts
<1> QED
  BY <1>1, <1>2, CloseType DEF CloseMux, TypeInv, TypeOK

\* The other steps of demux keep the types.
LEMMA DemuxRestType ==
    ASSUME TypeInv, NEW s \in Sides,
           \/ DemuxAccept(s) \/ DemuxRefused(s) \/ DemuxDeliver(s)
           \/ DemuxClosed(s) \/ DemuxEOF(s) \/ DemuxClose(s)
    PROVE  TypeInv'
<1> DEFINE e == <<s, dm[s].tag>>
           d(pc) == [dm[s] EXCEPT !.pc = pc]
<1>0. /\ dm[s] \in DmState /\ dm[s].tag \in Tags /\ dm[s].dat \in Nat
      /\ minq[s] \in Chan(Tags)
  BY SideTypes DEF DmState
<1>1. e \in Ends
  BY <1>0, EndsFacts
<1>2. d("read") \in DmState /\ d("close") \in DmState /\ d("done") \in DmState
  BY <1>0 DEF DmState
<1>3. inq[e] \in Chan(Nat) /\ inq[e].bad \in BOOLEAN
  BY <1>1, EndTypes, ChanFacts
<1>4. CASE DemuxAccept(s)
  <2> DEFINE v == [pc |-> "first", msg |-> 0, n |-> 0, first |-> TRUE,
                   reply |-> TRUE, bad |-> FALSE]
  <2>1. dm' = [dm EXCEPT ![s] = d("read")]
    BY <1>4 DEF DemuxAccept
  <2>2. op' \in {op, [op EXCEPT ![e] = v]}
    BY <1>4 DEF DemuxAccept
  <2>3. v \in OpState /\ v.pc # "write"
    BY DEF OpState
  <2>4. /\ op' \in [Ends -> OpState]
        /\ \A x \in Ends : op'[x].pc = "write" => op'[x].n >= 1
    <3>1. CASE op' = op
      BY <3>1 DEF TypeInv, TypeOK
    <3>2. CASE op' = [op EXCEPT ![e] = v]
      <4> HIDE DEF v, e
      <4> QED BY <1>1, <2>3, <3>2, OpUpdate
    <3> QED BY <2>2, <3>1, <3>2
  <2>5. minq' \in [Sides -> Chan(Tags)]
    <3>1. Push(minq[s], dm[s].tag) \in Chan(Tags)
      BY <1>0, ChanFacts
    <3> QED
      BY <1>4, <3>1 DEF DemuxAccept, TypeInv, TypeOK
  <2>6. UNCHANGED <<device, mapped, chans, fp, usr>>
    BY <1>4 DEF DemuxAccept
  <2> HIDE DEF d
  <2> QED
    BY <1>2, <2>1, <2>4, <2>5, <2>6 DEF TypeInv, TypeOK, device, chans
<1>5. CASE DemuxRefused(s)
  <2>1. dm' = [dm EXCEPT ![s] = d("close")] /\ CloseConns({e}, TRUE)
    BY <1>5 DEF DemuxRefused
  <2>2. UNCHANGED <<device, minq, pending, uin, procs, usr>>
    BY <1>5 DEF DemuxRefused
  <2> HIDE DEF d, e
  <2>3. {e} \in SUBSET Ends
    BY <1>1
  <2> QED
    BY <1>2, <2>1, <2>2, <2>3, CloseType DEF TypeInv, TypeOK, device, procs
<1>6. CASE DemuxDeliver(s)
  <2>1. dm' = [dm EXCEPT ![s] = d("read")]
    BY <1>6 DEF DemuxDeliver
  <2>2. inq' = [inq EXCEPT ![e] = Push(inq[e], dm[s].dat)]
    BY <1>6 DEF DemuxDeliver
  <2>3. Push(inq[e], dm[s].dat) \in Chan(Nat)
    BY <1>0, <1>3, ChanFacts
  <2>4. UNCHANGED <<device, minq, mapped, outq, flow, pending, uin, procs, usr>>
    BY <1>6 DEF DemuxDeliver
  <2> HIDE DEF d, e
  <2> QED
    BY <1>1, <1>2, <2>1, <2>2, <2>3, <2>4 DEF TypeInv, TypeOK, device, procs
<1>7. CASE DemuxClosed(s)
  <2>1. dm' = [dm EXCEPT ![s] = d("read")] /\ CloseConns({e}, inq[e].bad)
    BY <1>7 DEF DemuxClosed
  <2>2. UNCHANGED <<device, minq, pending, uin, procs, usr>>
    BY <1>7 DEF DemuxClosed
  <2> HIDE DEF d, e
  <2>3. {e} \in SUBSET Ends
    BY <1>1
  <2> QED
    BY <1>2, <1>3, <2>1, <2>2, <2>3, CloseType DEF TypeInv, TypeOK, device, procs
<1>8. CASE DemuxEOF(s)
  <2>1. dm' = [dm EXCEPT ![s] = d("close")]
    BY <1>8 DEF DemuxEOF
  <2>2. UNCHANGED <<device, minq, mapped, chans, procs, usr>>
    BY <1>8 DEF DemuxEOF
  <2> HIDE DEF d
  <2> QED
    BY <1>2, <2>1, <2>2 DEF TypeInv, TypeOK, device, chans, procs
<1>9. CASE DemuxClose(s)
  <2>1. dm' = [dm EXCEPT ![s] = d("done")] /\ CloseMux(s)
    BY <1>9 DEF DemuxClose
  <2>2. UNCHANGED <<wire, link, pending, uin, procs, usr>>
    BY <1>9 DEF DemuxClose
  <2> HIDE DEF d
  <2> QED
    BY <1>2, <2>1, <2>2, CloseMuxType DEF TypeInv, TypeOK, procs
<1> QED
  BY <1>4, <1>5, <1>6, <1>7, <1>8, <1>9

\* Whatever the user of an end does keeps the types.
LEMMA UserType ==
    ASSUME TypeInv, NEW e \in Ends, Users(e)
    PROVE  TypeInv'
<1> DEFINE u == usr[e]
<1>0. /\ u \in UserState /\ u.sent \in Nat /\ u.seen \in Seq(Nat)
      /\ inq[e] \in Chan(Nat) /\ outq[e] \in Chan(Nat) /\ uin[e] \in Chan(Nat)
      /\ op[e] \in OpState
  BY EndTypes DEF UserState
<1>1. CASE Open(e)
  <2> DEFINE v == [op[e] EXCEPT !.pc = "first"]
             w == [u EXCEPT !.has = TRUE]
  <2>1. /\ op' = [op EXCEPT ![e] = v] /\ usr' = [usr EXCEPT ![e] = w]
        /\ mapped' = mapped \cup {e}
    BY <1>1 DEF Open
  <2>2. v \in OpState /\ v.pc # "write"
    BY <1>0 DEF OpState
  <2>3. w \in UserState
    BY <1>0 DEF UserState
  <2>4. UNCHANGED <<device, minq, dm, chans, fp>>
    BY <1>1 DEF Open
  <2> HIDE DEF v, w
  <2>5. /\ op' \in [Ends -> OpState]
        /\ \A x \in Ends : op'[x].pc = "write" => op'[x].n >= 1
    BY <2>1, <2>2, OpUpdate
  <2> QED
    BY <2>1, <2>3, <2>4, <2>5 DEF TypeInv, TypeOK, device, chans
<1>2. CASE UserRecv(e)
  <2>1. CASE FlowPost(e)
    BY <2>1, FlowType
  <2>2. CASE ~Flows(e)
    <3> DEFINE h == Head(inq[e].buf)
               w == [u EXCEPT !.seen = Append(u.seen, h)]
    <3>1. /\ inq[e].buf # <<>>
          /\ inq' = [inq EXCEPT ![e] = Pop(inq[e])]
          /\ usr' = [usr EXCEPT ![e] = w]
      BY <1>2, <2>2 DEF UserRecv
    <3>2. h \in Nat /\ Pop(inq[e]) \in Chan(Nat)
      BY <1>0, <3>1, ChanFacts
    <3>3. Append(u.seen, h) \in Seq(Nat)
      BY <1>0, <3>2
    <3>4. w \in UserState
      BY <1>0, <3>3 DEF UserState
    <3>5. UNCHANGED <<device, muxes, outq, flow, pending, uin, procs>>
      BY <1>2, <2>2 DEF UserRecv
    <3> HIDE DEF w
    <3> QED
      BY <3>1, <3>2, <3>4, <3>5 DEF TypeInv, TypeOK, device, muxes, procs
  <2> QED
    BY <1>2, <2>1, <2>2 DEF UserRecv
<1>3. CASE UserEOF(e)
  <2>1. \/ usr' = [usr EXCEPT ![e] = [u EXCEPT !.end = "cut"]]
        \/ usr' = [usr EXCEPT ![e] = [u EXCEPT !.end = "ended"]]
    BY <1>3 DEF UserEOF
  <2>2. [u EXCEPT !.end = "cut"] \in UserState /\ [u EXCEPT !.end = "ended"] \in UserState
    BY <1>0 DEF UserState
  <2>3. UNCHANGED <<device, muxes, chans, procs>>
    BY <1>3 DEF UserEOF
  <2> QED
    BY <2>1, <2>2, <2>3 DEF TypeInv, TypeOK, device, muxes, chans, procs
<1>4. CASE UserSend(e)
  <2>1. /\ outq' = [outq EXCEPT ![e] = Push(outq[e], u.sent + 1)]
        /\ usr' = [usr EXCEPT ![e] = [u EXCEPT !.sent = u.sent + 1]]
    BY <1>4 DEF UserSend
  <2>2. u.sent + 1 \in Nat
    BY <1>0
  <2>3. Push(outq[e], u.sent + 1) \in Chan(Nat)
    BY <1>0, <2>2, ChanFacts
  <2>4. [u EXCEPT !.sent = u.sent + 1] \in UserState
    BY <1>0, <2>2 DEF UserState
  <2>5. UNCHANGED <<device, muxes, inq, flow, pending, uin, procs>>
    BY <1>4 DEF UserSend
  <2> QED
    BY <2>1, <2>3, <2>4, <2>5 DEF TypeInv, TypeOK, device, muxes, procs
<1>5. ASSUME NEW b \in BOOLEAN, UserClose(e, b) PROVE TypeInv'
  <2>1. /\ outq' = [outq EXCEPT ![e] = CloseChan(outq[e], b)]
        /\ UNCHANGED <<device, muxes, inq, flow, pending, uin, procs, usr>>
    BY <1>5 DEF UserClose
  <2>2. CloseChan(outq[e], b) \in Chan(Nat)
    BY <1>0, ChanFacts
  <2> QED
    BY <2>1, <2>2 DEF TypeInv, TypeOK, device, muxes, procs
<1>6. CASE UserQuit(e)
  <2>1. CloseChan(inq[e], TRUE) \in Chan(Nat) /\ CloseChan(uin[e], TRUE) \in Chan(Nat)
    BY <1>0, ChanFacts
  <2>2. /\ inq' \in {inq, [inq EXCEPT ![e] = CloseChan(inq[e], TRUE)]}
        /\ uin' \in {uin, [uin EXCEPT ![e] = CloseChan(uin[e], TRUE)]}
        /\ usr' = [usr EXCEPT ![e] = [u EXCEPT !.end = "cut"]]
        /\ UNCHANGED <<device, muxes, outq, flow, pending, procs>>
    BY <1>6 DEF UserQuit
  <2>3. [u EXCEPT !.end = "cut"] \in UserState
    BY <1>0 DEF UserState
  <2>4. inq' \in [Ends -> Chan(Nat)] /\ uin' \in [Ends -> Chan(Nat)]
    BY <2>1, <2>2 DEF TypeInv, TypeOK
  <2> QED
    BY <2>2, <2>3, <2>4 DEF TypeInv, TypeOK, device, muxes, procs
<1> QED
  BY <1>1, <1>2, <1>3, <1>4, <1>5, <1>6 DEF Users, Out, Rpc

\* What the user of a Mux does to it keeps the types.
LEMMA SideType ==
    ASSUME TypeInv, NEW s \in Sides, UserAccept(s) \/ UserRefuse(s) \/ Close(s)
    PROVE  TypeInv'
<1>0. minq[s] \in Chan(Tags)
  BY SideTypes
<1>1. CASE UserAccept(s)
  <2> DEFINE e == <<s, Head(minq[s].buf)>>
             w == [usr[e] EXCEPT !.has = TRUE]
  <2>1. minq[s].buf # <<>> /\ minq' = [minq EXCEPT ![s] = Pop(minq[s])]
    BY <1>1 DEF UserAccept
  <2>2. Head(minq[s].buf) \in Tags /\ Pop(minq[s]) \in Chan(Tags)
    BY <1>0, <2>1, ChanFacts
  <2>3. e \in Ends
    BY <2>2, EndsFacts
  <2>4. w \in UserState
    BY <2>3, EndTypes DEF UserState
  <2>5. usr' = [usr EXCEPT ![e] = w]
    BY <1>1 DEF UserAccept
  <2>6. UNCHANGED <<device, dm, mapped, chans, procs>>
    BY <1>1 DEF UserAccept
  <2> HIDE DEF w, e
  <2> QED
    BY <2>1, <2>2, <2>3, <2>4, <2>5, <2>6 DEF TypeInv, TypeOK, device, chans, procs
<1>2. CASE UserRefuse(s)
  <2>1. CloseChan(minq[s], TRUE) \in Chan(Tags)
    BY <1>0, ChanFacts
  <2> QED
    BY <1>2, <2>1 DEF UserRefuse, TypeInv, TypeOK, device, chans, procs
<1>3. CASE Close(s)
  <2>1. CloseMux(s) /\ UNCHANGED <<wire, link, dm, pending, uin, procs, usr>>
    BY <1>3 DEF Close
  <2> QED
    BY <2>1, CloseMuxType DEF TypeInv, TypeOK, procs
<1> QED
  BY <1>1, <1>2, <1>3

\* The type invariant is inductive.
LEMMA TypeStep == TypeInv /\ [Next]_vars => TypeInv'
<1> SUFFICES ASSUME TypeInv, [Next]_vars PROVE TypeInv'
  OBVIOUS
<1>1. ASSUME NEW e \in Ends, Goroutines(e) PROVE TypeInv'
  BY <1>1, OutType, FlowType DEF Goroutines
<1>2. ASSUME NEW s \in Sides, Demux(s) PROVE TypeInv'
  BY <1>2, DemuxReadType, DemuxRestType DEF Demux
<1>3. CASE Break
  BY <1>3 DEF Break, TypeInv, TypeOK, muxes, chans, procs
<1>4. CASE UNCHANGED vars
  BY <1>4 DEF vars, TypeInv, TypeOK, device, muxes, chans, procs
<1> QED
  BY <1>1, <1>2, <1>3, <1>4, UserType, SideType DEF Next

\* Every variable keeps its type; in particular out never takes credit it does
\* not have (nmsgs is never negative), nor a ticket that is not there.
THEOREM TypeCorrect == Spec => []TypeOK
<1>1. Init => TypeInv
  BY InitType DEF TypeInv, Init
<1>2. TypeInv => TypeOK
  BY DEF TypeInv
<1> QED
  BY <1>1, <1>2, TypeStep, PTL DEF Spec
=============================================================================
