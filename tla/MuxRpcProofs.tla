---------------------------- MODULE MuxRpcProofs -----------------------------
(***************************************************************************)
(* Replies of Rpc streams, for any number of streams and any nbuf: they    *)
(* are never taken for streams that the peer opens, if nothing cuts them.  *)
(*                                                                         *)
(* The caller's end is in its Mux.tags until the first message of the      *)
(* reply was read, since only that one would make a connection: an end is  *)
(* dropped when out sends an error, which only comes from the user, the    *)
(* device or conn.in, and conn.in gives one only to what comes in it.      *)
(***************************************************************************)
EXTENDS MuxFlowProofs

\* Users and the network do nothing that cuts a stream, or a Mux, before its
\* end, but that readers may quit.
Orderly == UserMay \subseteq {"quit", "empty", "late"}

\* t is a stream opened with Rpc, by the end c; the other end is p.
Call(t, c, p) ==
    /\ t \in Rpcs
    /\ c = <<Opener[t], t>>
    /\ p = <<Other(Opener[t]), t>>

\* Neither Mux hangs up.
Calm ==
    /\ link
    /\ \A s \in Sides : /\ up[s] /\ minq[s].open
                        /\ dm[s].pc \notin {"close", "done"}

\* The goroutine in out has the first message of its stream still to send.
WillFirst(e) == op[e].first /\ op[e].pc \notin {"drop", "done"}

\* The first message of the reply was sent, if it will ever be, and read.
Passed(t, p) ==
    /\ ~WillFirst(p)
    /\ \A i \in Slots(wire[p[1]], t) : ~wire[p[1]][i].first

\* One message of the request has the first bit, and makes the callee's end.
Request(t, c, p) ==
    /\ fp[c].pc = "off" /\ ~op[c].reply
    /\ op[c].pc = "off" => op[c].first
    /\ WillFirst(c) => fp[p].pc = "off" /\ Slots(wire[c[1]], t) = {}
    /\ \A i \in Slots(wire[c[1]], t) : wire[c[1]][i].first => fp[p].pc = "off"
    /\ \A i, j \in Slots(wire[c[1]], t) :
          i # j /\ wire[c[1]][i].first => ~wire[c[1]][j].first

\* The reply starts once that end is made, and nothing but grants is sent
\* before its first message, which is the only one with the first bit.
Reply(t, p) ==
    /\ op[p].pc = "off" => op[p].first
    /\ fp[p].pc = "off" => op[p].pc = "off"
    /\ WillFirst(p) => \A i \in Slots(wire[p[1]], t) : wire[p[1]][i].kind = "flow"
    /\ fp[p].pc = "off" => Slots(wire[p[1]], t) = {}
    /\ \A i \in Slots(wire[p[1]], t) :
          wire[p[1]][i].kind = "flow" => ~wire[p[1]][i].first
    /\ \A i, j \in Slots(wire[p[1]], t) :
          i < j /\ wire[p[1]][j].first => wire[p[1]][i].kind = "flow"

\* What the two goroutines in demux are doing with it.
Making(t, c, p) ==
    /\ dm[c[1]].tag = t => dm[c[1]].pc # "accept"
    /\ dm[c[1]].tag = t /\ dm[c[1]].pc = "deliver" => Passed(t, p)
    /\ dm[p[1]].tag = t /\ dm[p[1]].pc = "accept" => op[p].pc = "off" /\ fp[p].pc # "off"

\* The caller keeps its end for the first message of the reply.
Kept(t, c, p) ==
    \/ Passed(t, p)
    \/ /\ op[c].pc = "off" \/ c \in mapped
       /\ op[c].pc # "drop" /\ ~outq[c].bad

CallInv(t, c, p) ==
    Request(t, c, p) /\ Reply(t, p) /\ Making(t, c, p) /\ Kept(t, c, p)

\* The invariant of Rpc streams.
PhantomInv ==
    /\ FlowInv /\ Calm /\ NoPhantom
    /\ \A t \in Tags : \A c, p \in Ends : Call(t, c, p) => CallInv(t, c, p)

-----------------------------------------------------------------------------
(* Steps that do not send on the two ends of a stream, nor make them.      *)

LEMMA CallFacts ==
    ASSUME NEW t \in Tags, NEW c \in Ends, NEW p \in Ends, Call(t, c, p)
    PROVE  /\ c[1] \in Sides /\ p[1] \in Sides /\ c[2] = t /\ p[2] = t
           /\ p[1] = Other(c[1]) /\ c[1] = Other(p[1]) /\ c[1] # p[1] /\ c # p
           /\ c = <<c[1], t>> /\ p = <<p[1], t>> /\ t \in Rpcs
           /\ IsOpener(c) /\ ~IsOpener(p) /\ IsRpc(c) /\ IsRpc(p)
           /\ \A e \in Ends : e[2] = t => e \in {c, p}
BY MuxAssumption
   DEF MuxAssumption, Call, Ends, Sides, Other, IsOpener, IsRpc

\* out has as much to send as it had.
StaysOut(e) ==
    /\ WillFirst(e)' <=> WillFirst(e)
    /\ op'[e].pc = "off" => op[e].pc = "off" /\ (op'[e].first <=> op[e].first)
StaysCaller(t, c, p) ==
    /\ StaysOut(c)
    /\ op'[c].reply => op[c].reply
    /\ fp'[c].pc = "off" <=> fp[c].pc = "off"
    /\ \/ Passed(t, p)
       \/ /\ op'[c].pc = "off" \/ c \in mapped'
          /\ op'[c].pc # "drop" /\ ~outq'[c].bad
StaysCallee(p) ==
    /\ StaysOut(p)
    /\ fp'[p].pc = "off" <=> fp[p].pc = "off"
    /\ fp'[p].pc = "off" => op'[p].pc = "off"
StaysMaking(t, c, p) ==
    /\ dm'[c[1]].tag = t => dm'[c[1]].pc # "accept"
    /\ dm'[c[1]].tag = t /\ dm'[c[1]].pc = "deliver" => Passed(t, p) \/ Passed(t, p)'
    /\ dm'[p[1]].tag = t /\ dm'[p[1]].pc = "accept" => op'[p].pc = "off" /\ fp'[p].pc # "off"
Stays(t, c, p) ==
    StaysCaller(t, c, p) /\ StaysCallee(p) /\ StaysMaking(t, c, p) /\ SameWires(t)

\* Messages that were in the wire are as they were, and in their order.
LEMMA Shrunk ==
    ASSUME NEW q \in Seq(Msg), NEW q2 \in Seq(Msg), NEW t, Shrinks(q2, q, t)
    PROVE  \E k \in {0, 1} : \A i \in Slots(q2, t) :
              i \in Nat /\ i + k \in Slots(q, t) /\ q2[i] = q[i + k]
<1>1. \A i \in Slots(q2, t) : i \in Nat
  BY DEF Slots
<1> QED
  BY <1>1 DEF Shrinks

LEMMA PassedStays ==
    ASSUME TypeInv, TypeInv', NEW t, NEW p \in Ends, StaysOut(p), SameWires(t), Passed(t, p)
    PROVE  Passed(t, p)'
<1> DEFINE q == wire[p[1]]
           q2 == wire'[p[1]]
<1>1. p[1] \in Sides
  BY EndsFacts
<1>2. q \in Seq(Msg) /\ q2 \in Seq(Msg) /\ Shrinks(q2, q, t)
  BY <1>1 DEF TypeInv, TypeOK, SameWires
<1>3. \A i \in Slots(q, t) : ~q[i].first
  BY DEF Passed
<1> HIDE DEF q, q2
<1>4. \A i \in Slots(q2, t) : ~q2[i].first
  BY <1>2, <1>3, Shrunk
<1>5. ~WillFirst(p)'
  BY DEF StaysOut, Passed
<1> QED
  BY <1>4, <1>5 DEF Passed, q2

LEMMA RequestStays ==
    ASSUME TypeInv, TypeInv', NEW t \in Tags, NEW c \in Ends, NEW p \in Ends,
           CallInv(t, c, p), Stays(t, c, p)
    PROVE  Request(t, c, p)'
<1> DEFINE q == wire[c[1]]
           q2 == wire'[c[1]]
<1>1. c[1] \in Sides
  BY EndsFacts
<1>2. q \in Seq(Msg) /\ q2 \in Seq(Msg) /\ Shrinks(q2, q, t)
  BY <1>1 DEF TypeInv, TypeOK, SameWires, Stays
<1>3. /\ WillFirst(c) => fp[p].pc = "off" /\ Slots(q, t) = {}
      /\ \A i \in Slots(q, t) : q[i].first => fp[p].pc = "off"
      /\ \A i, j \in Slots(q, t) : i # j /\ q[i].first => ~q[j].first
      /\ fp[c].pc = "off" /\ ~op[c].reply /\ (op[c].pc = "off" => op[c].first)
  BY DEF CallInv, Request
<1>4. /\ WillFirst(c)' <=> WillFirst(c)
      /\ op'[c].pc = "off" => op[c].pc = "off" /\ (op'[c].first <=> op[c].first)
      /\ op'[c].reply => op[c].reply
      /\ fp'[c].pc = "off" <=> fp[c].pc = "off"
      /\ fp'[p].pc = "off" <=> fp[p].pc = "off"
  BY DEF Stays, StaysCaller, StaysCallee, StaysOut
<1> HIDE DEF q, q2
<1>5. PICK k \in {0, 1} : \A i \in Slots(q2, t) :
              i \in Nat /\ i + k \in Slots(q, t) /\ q2[i] = q[i + k]
  BY <1>2, Shrunk
<1>6. WillFirst(c)' => fp'[p].pc = "off" /\ Slots(q2, t) = {}
  BY <1>3, <1>4, <1>5
<1>7. \A i \in Slots(q2, t) : q2[i].first => fp'[p].pc = "off"
  BY <1>3, <1>4, <1>5
<1>8. ASSUME NEW i \in Slots(q2, t), NEW j \in Slots(q2, t), i # j, q2[i].first PROVE ~q2[j].first
  <2>1. i + k # j + k
    BY <1>5, <1>8
  <2> QED
    BY <1>3, <1>5, <1>8, <2>1
<1>9. fp'[c].pc = "off" /\ ~op'[c].reply /\ (op'[c].pc = "off" => op'[c].first)
  BY <1>3, <1>4
<1> QED
  BY <1>6, <1>7, <1>8, <1>9 DEF Request, q2

LEMMA ReplyStays ==
    ASSUME TypeInv, TypeInv', NEW t \in Tags, NEW c \in Ends, NEW p \in Ends,
           CallInv(t, c, p), Stays(t, c, p)
    PROVE  Reply(t, p)'
<1> DEFINE q == wire[p[1]]
           q2 == wire'[p[1]]
<1>1. p[1] \in Sides
  BY EndsFacts
<1>2. q \in Seq(Msg) /\ q2 \in Seq(Msg) /\ Shrinks(q2, q, t)
  BY <1>1 DEF TypeInv, TypeOK, SameWires, Stays
<1>3. /\ op[p].pc = "off" => op[p].first
      /\ WillFirst(p) => \A i \in Slots(q, t) : q[i].kind = "flow"
      /\ fp[p].pc = "off" => Slots(q, t) = {}
      /\ \A i \in Slots(q, t) : q[i].kind = "flow" => ~q[i].first
      /\ \A i, j \in Slots(q, t) : i < j /\ q[j].first => q[i].kind = "flow"
  BY DEF CallInv, Reply
<1>4. /\ WillFirst(p)' <=> WillFirst(p)
      /\ op'[p].pc = "off" => op[p].pc = "off" /\ (op'[p].first <=> op[p].first)
      /\ fp'[p].pc = "off" <=> fp[p].pc = "off"
      /\ fp'[p].pc = "off" => op'[p].pc = "off"
  BY DEF Stays, StaysCallee, StaysOut
<1> HIDE DEF q, q2
<1>5. PICK k \in {0, 1} : \A i \in Slots(q2, t) :
              i \in Nat /\ i + k \in Slots(q, t) /\ q2[i] = q[i + k]
  BY <1>2, Shrunk
<1>6. WillFirst(p)' => \A i \in Slots(q2, t) : q2[i].kind = "flow"
  BY <1>3, <1>4, <1>5
<1>7. fp'[p].pc = "off" => Slots(q2, t) = {}
  BY <1>3, <1>4, <1>5
<1>8. \A i \in Slots(q2, t) : q2[i].kind = "flow" => ~q2[i].first
  BY <1>3, <1>5
<1>9. ASSUME NEW i \in Slots(q2, t), NEW j \in Slots(q2, t), i < j, q2[j].first
      PROVE  q2[i].kind = "flow"
  <2>1. i + k < j + k
    BY <1>5, <1>9
  <2> QED
    BY <1>3, <1>5, <1>9, <2>1
<1>10. op'[p].pc = "off" => op'[p].first
  BY <1>3, <1>4
<1> QED
  BY <1>4, <1>6, <1>7, <1>8, <1>9, <1>10 DEF Reply, q2

LEMMA CallStays ==
    ASSUME TypeInv, TypeInv', NEW t \in Tags, NEW c \in Ends, NEW p \in Ends,
           CallInv(t, c, p), Stays(t, c, p)
    PROVE  CallInv(t, c, p)'
<1>1. Request(t, c, p)' /\ Reply(t, p)'
  BY RequestStays, ReplyStays
<1>2. Passed(t, p) => Passed(t, p)'
  BY PassedStays DEF Stays, StaysCallee
<1>3. Making(t, c, p)'
  BY <1>2 DEF Making, Stays, StaysMaking
<1>4. Kept(t, c, p)'
  BY <1>2 DEF Kept, Stays, StaysCaller
<1> QED
  BY <1>1, <1>3, <1>4 DEF CallInv

-----------------------------------------------------------------------------
(* Steps that leave what a stream has to send alone.                       *)

\* demux does not start to deliver to t, nor to make an end of it.
DemuxAside(t) ==
    \A s \in Sides : \/ dm'[s] = dm[s] \/ dm'[s].tag # t
                     \/ dm'[s].pc \notin {"accept", "deliver"}
\* The caller keeps its end if it has to.
CallerKept(t, c, p) ==
    \/ Passed(t, p)
    \/ /\ c \in mapped => c \in mapped'
       /\ outq'[c].bad => outq[c].bad
SameFlows(c, p) ==
    (fp'[c].pc = "off" <=> fp[c].pc = "off") /\ (fp'[p].pc = "off" <=> fp[p].pc = "off")

LEMMA Aside ==
    ASSUME TypeInv, TypeInv', NEW t \in Tags, NEW c \in Ends, NEW p \in Ends,
           Call(t, c, p), CallInv(t, c, p), SameWires(t), DemuxAside(t),
           SameFlows(c, p), op'[c] = op[c], op'[p] = op[p], CallerKept(t, c, p)
    PROVE  CallInv(t, c, p)'
<1>1. StaysOut(c) /\ StaysOut(p)
  BY DEF StaysOut, WillFirst
<1>2. StaysCaller(t, c, p)
  BY <1>1 DEF StaysCaller, CallerKept, SameFlows, CallInv, Kept
<1>3. StaysCallee(p)
  BY <1>1 DEF StaysCallee, SameFlows, CallInv, Reply
<1>4. StaysMaking(t, c, p)
  <2>1. c[1] \in Sides /\ p[1] \in Sides
    BY CallFacts
  <2>2. /\ dm'[c[1]] = dm[c[1]] \/ dm'[c[1]].tag # t \/ dm'[c[1]].pc \notin {"accept", "deliver"}
        /\ dm'[p[1]] = dm[p[1]] \/ dm'[p[1]].tag # t \/ dm'[p[1]].pc \notin {"accept", "deliver"}
    BY <2>1 DEF DemuxAside
  <2> QED
    BY <2>2 DEF StaysMaking, CallInv, Making, SameFlows
<1> QED
  BY <1>1, <1>2, <1>3, <1>4, CallStays DEF Stays

\* out, between two messages: it only moves, and takes messages or tickets.
LEMMA OutMoves ==
    ASSUME TypeInv, TypeInv', NEW t \in Tags, NEW c \in Ends, NEW p \in Ends,
           Call(t, c, p), CallInv(t, c, p), NEW e \in Ends,
           \/ OutFirst(e) \/ OutRecv(e) \/ OutCredit(e)
           \/ OutWrite(e) /\ op[e].msg \in Discards
    PROVE  CallInv(t, c, p)'
<1>1. /\ wire' = wire /\ dm' = dm /\ fp' = fp /\ mapped' = mapped
      /\ \A x \in Ends : x # e => op'[x] = op[x]
  BY DEF OutFirst, OutRecv, OutCredit, OutWrite, device, muxes, TypeInv, TypeOK
<1>2. \A x \in Ends : outq'[x].bad = outq[x].bad
  <2>1. outq' = outq \/ outq' = [outq EXCEPT ![e] = Pop(outq[e])]
    BY DEF OutFirst, OutRecv, OutCredit, OutWrite
  <2>2. \A x \in Ends : outq'[x] = outq[x] \/ outq'[x] = Pop(outq[x])
    BY <2>1 DEF TypeInv, TypeOK
  <2>3. \A x \in Ends : Pop(outq[x]).bad = outq[x].bad
    BY EndTypes DEF Pop, Chan
  <2> QED
    BY <2>2, <2>3
<1>3. /\ op[e].pc \in {"first", "recv", "credit", "write"}
      /\ op'[e].pc \in {"recv", "credit", "write", "end"}
      /\ op'[e].first = op[e].first /\ op'[e].reply = op[e].reply
  <2>1. op[e] \in OpState
    BY EndTypes
  <2>2. CASE OutFirst(e)
    <3>1. op'[e] = [op[e] EXCEPT !.pc = "recv", !.n = Half] /\ op[e].pc = "first"
      BY <2>2 DEF OutFirst, TypeInv, TypeOK
    <3> QED
      BY <2>1, <3>1 DEF OpState
  <2>3. CASE OutRecv(e)
    <3>1. /\ op[e].pc = "recv"
          /\ \/ \E b \in {"credit", "write"} :
                  op'[e] = [op[e] EXCEPT !.msg = Head(outq[e].buf), !.pc = b]
             \/ op'[e] = [op[e] EXCEPT !.pc = "end"]
      BY <2>3 DEF OutRecv, TypeInv, TypeOK
    <3> QED
      BY <2>1, <3>1 DEF OpState
  <2>4. CASE OutCredit(e)
    <3>1. op'[e] = [op[e] EXCEPT !.pc = "write", !.n = op[e].n + Half] /\ op[e].pc = "credit"
      BY <2>4 DEF OutCredit, TypeInv, TypeOK
    <3> QED
      BY <2>1, <3>1 DEF OpState
  <2>5. CASE OutWrite(e) /\ op[e].msg \in Discards
    <3>1. op'[e] = [op[e] EXCEPT !.pc = "recv", !.n = op[e].n - 1] /\ op[e].pc = "write"
      BY <2>5 DEF OutWrite, TypeInv, TypeOK
    <3> QED
      BY <2>1, <3>1 DEF OpState
  <2> QED
    BY <2>2, <2>3, <2>4, <2>5
<1>4. StaysOut(c) /\ StaysOut(p)
  BY <1>1, <1>3 DEF StaysOut, WillFirst
<1>5. /\ op'[c].reply = op[c].reply
      /\ op'[c].pc = "off" <=> op[c].pc = "off"
      /\ op'[c].pc = "drop" <=> op[c].pc = "drop"
  BY <1>1, <1>3
<1>6. StaysCaller(t, c, p)
  BY <1>1, <1>2, <1>4, <1>5 DEF StaysCaller, CallInv, Kept
<1>7. op'[p].pc = "off" <=> op[p].pc = "off"
  BY <1>1, <1>3
<1>8. StaysCallee(p) /\ StaysMaking(t, c, p)
  BY <1>1, <1>4, <1>7 DEF StaysCallee, StaysMaking, CallInv, Reply, Making
<1>9. SameWires(t)
  BY <1>1, WireSame DEF SameWires
<1> QED
  BY <1>6, <1>8, <1>9, CallStays DEF Stays

-----------------------------------------------------------------------------
(* Messages that are sent.                                                 *)

\* out sends m on e, and then has sent the first message.
Sends(e, m) ==
    /\ wire' = [wire EXCEPT ![e[1]] = Append(wire[e[1]], m)]
    /\ op[e].pc \in {"write", "end"} /\ m.first = op[e].first /\ m.kind # "flow"
    /\ \A x \in Ends : x # e => op'[x] = op[x]
    /\ ~WillFirst(e)' /\ op'[e].pc # "off" /\ op'[e].reply = op[e].reply
    /\ op'[e].pc = "drop" => ~Keeps(e)
    /\ fp' = fp /\ dm' = dm /\ mapped' = mapped /\ outq' = outq

LEMMA CallerSends ==
    ASSUME TypeInv, TypeInv', NEW t \in Tags, NEW c \in Ends, NEW p \in Ends,
           Call(t, c, p), CallInv(t, c, p), NEW m \in Msg, m.tag = t, Sends(c, m)
    PROVE  CallInv(t, c, p)'
<1> DEFINE q == wire[c[1]]
           q2 == wire'[c[1]]
           k == Len(q) + 1
<1>0. c[1] \in Sides /\ p[1] \in Sides /\ c[1] # p[1] /\ c # p /\ IsRpc(c)
  BY CallFacts
<1>1. q \in Seq(Msg) /\ q2 = Append(q, m) /\ wire'[p[1]] = wire[p[1]]
  BY <1>0 DEF Sends, TypeInv, TypeOK
<1>2. Grows(q2, q, t, m, k)
  BY <1>1, AppendGrows
<1> HIDE DEF q, q2, k
<1>3. /\ Slots(q2, t) = Slots(q, t) \cup {k} /\ q2[k] = m
      /\ \A i \in Slots(q, t) : i # k /\ q2[i] = q[i]
  BY <1>2 DEF Grows
<1>4. /\ m.first => fp[p].pc = "off" /\ Slots(q, t) = {}
      /\ \A i \in Slots(q, t) : q[i].first => fp[p].pc = "off"
      /\ \A i, j \in Slots(q, t) : i # j /\ q[i].first => ~q[j].first
      /\ fp[c].pc = "off" /\ ~op[c].reply
  BY DEF CallInv, Request, Sends, WillFirst, q
<1>5. \A i \in Slots(q2, t) : q2[i].first => fp[p].pc = "off"
  BY <1>3, <1>4
<1>6. ASSUME NEW i \in Slots(q2, t), NEW j \in Slots(q2, t), i # j, q2[i].first
      PROVE  ~q2[j].first
  BY <1>3, <1>4, <1>6
<1>7. Request(t, c, p)'
  BY <1>4, <1>5, <1>6 DEF Request, Sends, q2
<1>8. op'[p] = op[p] /\ fp' = fp /\ dm' = dm
  BY <1>0 DEF Sends
<1>9. Reply(t, p)'
  BY <1>1, <1>8 DEF Reply, CallInv, WillFirst
<1>10. Passed(t, p)' <=> Passed(t, p)
  BY <1>1, <1>8 DEF Passed, WillFirst
<1>11. Making(t, c, p)'
  BY <1>8, <1>10 DEF Making, CallInv
<1>12. Kept(t, c, p)'
  BY <1>0, <1>4, <1>10 DEF Kept, CallInv, Sends, Keeps
<1> QED
  BY <1>7, <1>9, <1>11, <1>12 DEF CallInv

LEMMA CalleeSends ==
    ASSUME TypeInv, TypeInv', NEW t \in Tags, NEW c \in Ends, NEW p \in Ends,
           Call(t, c, p), CallInv(t, c, p), NEW m \in Msg, m.tag = t, Sends(p, m)
    PROVE  CallInv(t, c, p)'
<1> DEFINE q == wire[p[1]]
           q2 == wire'[p[1]]
           k == Len(q) + 1
<1>0. c[1] \in Sides /\ p[1] \in Sides /\ c[1] # p[1] /\ c # p
  BY CallFacts
<1>1. q \in Seq(Msg) /\ q2 = Append(q, m) /\ wire'[c[1]] = wire[c[1]]
  BY <1>0 DEF Sends, TypeInv, TypeOK
<1>2. Grows(q2, q, t, m, k)
  BY <1>1, AppendGrows
<1> HIDE DEF q, q2, k
<1>3. /\ Slots(q2, t) = Slots(q, t) \cup {k} /\ q2[k] = m /\ k \in Nat
      /\ \A i \in Slots(q, t) : i \in Nat /\ i < k /\ q2[i] = q[i]
  BY <1>2 DEF Grows
<1>4. /\ m.first <=> WillFirst(p)
      /\ WillFirst(p) => \A i \in Slots(q, t) : q[i].kind = "flow"
      /\ \A i \in Slots(q, t) : q[i].kind = "flow" => ~q[i].first
      /\ \A i, j \in Slots(q, t) : i < j /\ q[j].first => q[i].kind = "flow"
      /\ fp[p].pc # "off" /\ m.kind # "flow"
  BY DEF CallInv, Reply, Sends, WillFirst, q
<1>5. \A i \in Slots(q2, t) : q2[i].kind = "flow" => ~q2[i].first
  BY <1>3, <1>4
<1>6. ASSUME NEW i \in Slots(q2, t), NEW j \in Slots(q2, t), i < j, q2[j].first
      PROVE  q2[i].kind = "flow"
  <2>1. i \in Slots(q, t)
    BY <1>3, <1>6
  <2>2. CASE j = k
    BY <1>3, <1>4, <1>6, <2>1, <2>2
  <2>3. CASE j \in Slots(q, t)
    BY <1>3, <1>4, <1>6, <2>1, <2>3
  <2> QED
    BY <1>3, <2>2, <2>3
<1>7. Reply(t, p)'
  BY <1>4, <1>5, <1>6 DEF Reply, Sends, q2
<1>8. op'[c] = op[c] /\ fp' = fp /\ dm' = dm /\ outq' = outq /\ mapped' = mapped
  BY <1>0 DEF Sends
<1>9. Request(t, c, p)'
  BY <1>1, <1>8 DEF Request, CallInv, WillFirst
<1>10. Passed(t, p) => Passed(t, p)'
  BY <1>3, <1>4 DEF Passed, Sends, q, q2
<1>11. op[p].pc # "off"
  BY DEF Sends
<1>12. Making(t, c, p)'
  BY <1>8, <1>10, <1>11 DEF Making, CallInv
<1>13. Kept(t, c, p)'
  BY <1>8, <1>10 DEF Kept, CallInv
<1> QED
  BY <1>7, <1>9, <1>12, <1>13 DEF CallInv

LEMMA OtherSends ==
    ASSUME TypeInv, TypeInv', NEW t \in Tags, NEW c \in Ends, NEW p \in Ends,
           Call(t, c, p), CallInv(t, c, p), NEW e \in Ends, e \notin {c, p},
           NEW m \in Msg, m.tag = e[2], Sends(e, m)
    PROVE  CallInv(t, c, p)'
<1>1. e[2] # t /\ e[1] \in Sides
  BY CallFacts, EndsFacts
<1>2. wire' = [wire EXCEPT ![e[1]] = Append(wire[e[1]], m)]
  BY DEF Sends
<1>3. SameWires(t)
  BY <1>1, <1>2, WireAppend DEF SameWires
<1>4. /\ SameFlows(c, p) /\ DemuxAside(t) /\ CallerKept(t, c, p)
      /\ op'[c] = op[c] /\ op'[p] = op[p]
  BY DEF Sends, SameFlows, DemuxAside, CallerKept
<1> QED
  BY <1>3, <1>4, Aside

\* Without a hang up every write to the device is done.
LEMMA CalmWrites ==
    ASSUME Calm, NEW e \in Ends PROVE CanWrite(e[1]) /\ ~CanFail(e[1])
BY EndsFacts DEF Calm, CanWrite, CanFail

\* The goroutine in out sends, at most, the message that it has.
LEMMA OutSends ==
    ASSUME TypeInv, TypeInv', Calm, Orderly, NEW e \in Ends,
           (OutWrite(e) /\ op[e].msg \notin Discards) \/ OutEnd(e)
    PROVE  \E m \in Msg : m.tag = e[2] /\ Sends(e, m)
<1>0. /\ op[e] \in OpState /\ outq[e].bad \in BOOLEAN /\ e[2] \in Tags
      /\ ~CanFail(e[1]) /\ "encode" \notin UserMay
  BY EndTypes, ChanFacts, EndsFacts, CalmWrites DEF Orderly
<1>1. CASE OutWrite(e) /\ op[e].msg \notin Discards
  <2> DEFINE m == DataMsg(e, op[e].first, op[e].msg)
  <2>1. m \in Msg /\ m.tag = e[2] /\ m.first = op[e].first /\ m.kind # "flow"
    BY <1>0 DEF DataMsg, Msg, OpState
  <2>2. /\ wire' = [wire EXCEPT ![e[1]] = Append(wire[e[1]], m)] /\ op[e].pc = "write"
        /\ op' = [op EXCEPT ![e].pc = "recv", ![e].n = op[e].n - 1, ![e].first = FALSE]
        /\ fp' = fp /\ dm' = dm /\ mapped' = mapped /\ outq' = outq
    BY <1>0, <1>1 DEF OutWrite, muxes
  <2> HIDE DEF m
  <2>3. /\ \A x \in Ends : x # e => op'[x] = op[x]
        /\ op'[e] = [op[e] EXCEPT !.pc = "recv", !.n = op[e].n - 1, !.first = FALSE]
    BY <2>2 DEF TypeInv, TypeOK
  <2>4. /\ op'[e].pc = "recv" /\ ~op'[e].first /\ op'[e].reply = op[e].reply
    BY <1>0, <2>3 DEF OpState
  <2> QED
    BY <2>1, <2>2, <2>3, <2>4 DEF Sends, WillFirst
<1>2. CASE OutEnd(e)
  <2> DEFINE m == EndMsg(e, op[e].first, outq[e].bad)
             a == IF Keeps(e) THEN "done" ELSE "drop"
  <2>1. m \in Msg /\ m.tag = e[2] /\ m.first = op[e].first /\ m.kind # "flow"
    BY <1>0 DEF EndMsg, Msg, OpState
  <2>2. /\ wire' = [wire EXCEPT ![e[1]] = Append(wire[e[1]], m)] /\ op[e].pc = "end"
        /\ op' = [op EXCEPT ![e].bad = outq[e].bad, ![e].pc = a]
        /\ fp' = fp /\ dm' = dm /\ mapped' = mapped /\ outq' = outq
    BY <1>0, <1>2 DEF OutEnd, muxes, chans
  <2>3. a \in {"done", "drop"} /\ (a = "drop" => ~Keeps(e))
    OBVIOUS
  <2> HIDE DEF m, a
  <2>4. /\ \A x \in Ends : x # e => op'[x] = op[x]
        /\ op'[e] = [op[e] EXCEPT !.bad = outq[e].bad, !.pc = a]
    BY <2>2 DEF TypeInv, TypeOK
  <2>5. /\ op'[e].pc = a /\ op'[e].reply = op[e].reply
    BY <1>0, <2>4 DEF OpState
  <2> QED
    BY <2>1, <2>2, <2>3, <2>4, <2>5 DEF Sends, WillFirst
<1> QED
  BY <1>1, <1>2

LEMMA CallSends ==
    ASSUME TypeInv, TypeInv', Calm, Orderly,
           NEW t \in Tags, NEW c \in Ends, NEW p \in Ends,
           Call(t, c, p), CallInv(t, c, p), NEW e \in Ends,
           (OutWrite(e) /\ op[e].msg \notin Discards) \/ OutEnd(e)
    PROVE  CallInv(t, c, p)'
<1>1. PICK m \in Msg : m.tag = e[2] /\ Sends(e, m)
  BY OutSends
<1>2. c[2] = t /\ p[2] = t
  BY CallFacts
<1>3. CASE e = c
  <2>1. m.tag = t /\ Sends(c, m)
    BY <1>1, <1>2, <1>3, Zenon
  <2> QED
    BY <2>1, CallerSends
<1>4. CASE e = p
  <2>1. m.tag = t /\ Sends(p, m)
    BY <1>1, <1>2, <1>4, Zenon
  <2> QED
    BY <2>1, CalleeSends
<1>5. CASE e \notin {c, p}
  BY <1>1, <1>5, OtherSends
<1> QED
  BY <1>3, <1>4, <1>5

\* The caller drops its end only when it does not need it.
LEMMA CallDrops ==
    ASSUME TypeInv, TypeInv', NEW t \in Tags, NEW c \in Ends, NEW p \in Ends,
           Call(t, c, p), CallInv(t, c, p), NEW e \in Ends, OutDrop(e)
    PROVE  CallInv(t, c, p)'
<1>1. /\ wire' = wire /\ dm' = dm /\ fp' = fp /\ op[e].pc = "drop"
      /\ CloseConns({e}, op[e].bad)
      /\ \A x \in Ends : x # e => op'[x] = op[x]
      /\ op'[e] = [op[e] EXCEPT !.pc = "done"]
  BY DEF OutDrop, device, TypeInv, TypeOK
<1>2. op'[e].pc = "done" /\ op'[e].first = op[e].first /\ op'[e].reply = op[e].reply
  BY <1>1, EndTypes DEF OpState
<1>3. StaysOut(c) /\ StaysOut(p)
  BY <1>1, <1>2 DEF StaysOut, WillFirst
<1>4. /\ op'[c].reply = op[c].reply
      /\ op'[c].pc = "off" <=> op[c].pc = "off"
      /\ op'[p].pc = "off" <=> op[p].pc = "off"
  BY <1>1, <1>2
<1>5. Passed(t, p) \/ (e # c /\ (c \in mapped => c \in mapped') /\ outq'[c] = outq[c])
  <2>1. CASE e = c
    BY <1>1, <2>1 DEF CallInv, Kept
  <2>2. CASE e # c
    BY <1>1, <2>2 DEF CloseConns
  <2> QED
    BY <2>1, <2>2
<1>6. StaysCaller(t, c, p)
  BY <1>1, <1>3, <1>4, <1>5 DEF StaysCaller, CallInv, Kept
<1>7. StaysCallee(p) /\ StaysMaking(t, c, p)
  BY <1>1, <1>3, <1>4 DEF StaysCallee, StaysMaking, CallInv, Reply, Making
<1>8. SameWires(t)
  BY <1>1, WireSame DEF SameWires
<1> QED
  BY <1>6, <1>7, <1>8, CallStays DEF Stays

-----------------------------------------------------------------------------
(* flowproc and the tickets.                                               *)

\* flowproc of the callee sends a grant, which never has the first bit.
LEMMA CalleeGrants ==
    ASSUME TypeInv, TypeInv', NEW t \in Tags, NEW c \in Ends, NEW p \in Ends,
           Call(t, c, p), CallInv(t, c, p), NEW m \in Msg, m.tag = t,
           m.kind = "flow", ~m.first, fp[p].pc # "off", fp'[p].pc # "off",
           wire' = [wire EXCEPT ![p[1]] = Append(wire[p[1]], m)],
           op' = op, dm' = dm, mapped' = mapped, outq' = outq, fp'[c] = fp[c]
    PROVE  CallInv(t, c, p)'
<1> DEFINE q == wire[p[1]]
           q2 == wire'[p[1]]
           k == Len(q) + 1
<1>0. c[1] \in Sides /\ p[1] \in Sides /\ c[1] # p[1] /\ c # p
  BY CallFacts
<1>1. q \in Seq(Msg) /\ q2 = Append(q, m) /\ wire'[c[1]] = wire[c[1]]
  BY <1>0 DEF TypeInv, TypeOK
<1>2. Grows(q2, q, t, m, k)
  BY <1>1, AppendGrows
<1> HIDE DEF q, q2, k
<1>3. /\ Slots(q2, t) = Slots(q, t) \cup {k} /\ q2[k] = m /\ k \in Nat
      /\ \A i \in Slots(q, t) : i \in Nat /\ i < k /\ q2[i] = q[i]
  BY <1>2 DEF Grows
<1>4. /\ WillFirst(p) => \A i \in Slots(q, t) : q[i].kind = "flow"
      /\ \A i \in Slots(q, t) : q[i].kind = "flow" => ~q[i].first
      /\ \A i, j \in Slots(q, t) : i < j /\ q[j].first => q[i].kind = "flow"
      /\ op[p].pc = "off" => op[p].first
  BY DEF CallInv, Reply, q
<1>5. /\ \A i \in Slots(q2, t) : q2[i].kind = "flow" => ~q2[i].first
      /\ WillFirst(p) => \A i \in Slots(q2, t) : q2[i].kind = "flow"
  BY <1>3, <1>4
<1>6. ASSUME NEW i \in Slots(q2, t), NEW j \in Slots(q2, t), i < j, q2[j].first
      PROVE  q2[i].kind = "flow"
  <2>1. j \in Slots(q, t)
    BY <1>3, <1>6
  <2>2. i \in Slots(q, t)
    BY <1>3, <1>6, <2>1
  <2> QED
    BY <1>3, <1>4, <1>6, <2>1, <2>2
<1>7. WillFirst(p)' <=> WillFirst(p)
  BY DEF WillFirst
<1>8. Reply(t, p)'
  BY <1>4, <1>5, <1>6, <1>7 DEF Reply, q2
<1>9. Request(t, c, p)'
  <2>1. fp[p].pc # "off" <=> fp'[p].pc # "off"
    OBVIOUS
  <2> QED
    BY <1>1, <2>1 DEF Request, CallInv, WillFirst
<1>10. Passed(t, p) => Passed(t, p)'
  BY <1>3, <1>7 DEF Passed, q, q2
<1>11. Making(t, c, p)'
  BY <1>10 DEF Making, CallInv
<1>12. Kept(t, c, p)'
  BY <1>10 DEF Kept, CallInv
<1> QED
  BY <1>8, <1>9, <1>11, <1>12 DEF CallInv

LEMMA CallFlows ==
    ASSUME TypeInv, TypeInv', NEW t \in Tags, NEW c \in Ends, NEW p \in Ends,
           Call(t, c, p), CallInv(t, c, p), NEW e \in Ends,
           GoTicket(e) \/ FlowRecv(e) \/ FlowPost(e) \/ FlowQuit(e) \/ FlowGrant(e)
    PROVE  CallInv(t, c, p)'
<1> DEFINE m == FlowMsg(e, Len(usr[e].seen))
<1>1. /\ op' = op /\ dm' = dm /\ mapped' = mapped /\ outq' = outq
      /\ wire' = wire \/ (FlowGrant(e) /\ wire' = [wire EXCEPT ![e[1]] = Append(wire[e[1]], m)])
  BY DEF GoTicket, FlowRecv, FlowPost, FlowQuit, FlowGrant, muxes, chans, procs, device
<1>2. m \in Msg /\ m.tag = e[2] /\ m.kind = "flow" /\ ~m.first /\ e[1] \in Sides
  BY EndsFacts, Numbers DEF Seen, FlowMsg, Msg
<1> HIDE DEF m
<1>3. /\ \A x \in Ends : x # e => fp'[x] = fp[x]
      /\ fp' = fp \/ (fp[e].pc # "off" /\ fp'[e].pc # "off")
  <2>1. CASE GoTicket(e)
    BY <2>1 DEF GoTicket, procs
  <2>2. CASE ~GoTicket(e)
    <3>0. fp[e] \in FpState
      BY EndTypes
    <3>1. CASE FlowRecv(e)
      <4>1. /\ fp[e].pc = "recv" /\ \A x \in Ends : x # e => fp'[x] = fp[x]
            /\ \/ fp'[e] = [fp[e] EXCEPT !.pc = "send", !.msg = Head(inq[e].buf)]
               \/ fp'[e] = [fp[e] EXCEPT !.pc = "done"]
        BY <3>1 DEF FlowRecv, TypeInv, TypeOK
      <4> QED
        BY <3>0, <4>1 DEF FpState
    <3>2. CASE FlowPost(e)
      <4>1. /\ fp[e].pc = "send" /\ \A x \in Ends : x # e => fp'[x] = fp[x]
            /\ \E v \in {"grant", "recv"} : fp'[e] = [fp[e] EXCEPT !.n = fp[e].n + 1, !.pc = v]
        BY <3>2 DEF FlowPost, TypeInv, TypeOK
      <4> QED
        BY <3>0, <4>1 DEF FpState
    <3>3. CASE FlowQuit(e)
      <4>1. /\ fp[e].pc = "send" /\ \A x \in Ends : x # e => fp'[x] = fp[x]
            /\ fp'[e] = [fp[e] EXCEPT !.pc = "done"]
        BY <3>3 DEF FlowQuit, TypeInv, TypeOK
      <4> QED
        BY <3>0, <4>1 DEF FpState
    <3>4. CASE FlowGrant(e)
      <4>1. /\ fp[e].pc = "grant" /\ \A x \in Ends : x # e => fp'[x] = fp[x]
            /\ fp'[e] = [fp[e] EXCEPT !.pc = "recv", !.n = 0]
        BY <3>4 DEF FlowGrant, TypeInv, TypeOK
      <4> QED
        BY <3>0, <4>1 DEF FpState
    <3> QED
      BY <2>2, <3>1, <3>2, <3>3, <3>4
  <2> QED
    BY <2>1, <2>2
<1>4. SameFlows(c, p) /\ DemuxAside(t) /\ CallerKept(t, c, p)
  BY <1>1, <1>3 DEF SameFlows, DemuxAside, CallerKept
<1>5. CASE wire' = wire
  <2>1. SameWires(t)
    BY <1>5, WireSame DEF SameWires
  <2> QED
    BY <1>1, <1>4, <2>1, Aside
<1>6. CASE FlowGrant(e) /\ wire' = [wire EXCEPT ![e[1]] = Append(wire[e[1]], m)]
  <2>1. e # c
    BY <1>6 DEF FlowGrant, CallInv, Request
  <2>2. CASE e = p
    <3>1. fp[p].pc # "off" /\ fp'[p].pc # "off" /\ m.tag = t
      BY <1>2, <1>3, <1>6, <2>2, CallFacts DEF FlowGrant
    <3>2. fp'[c] = fp[c]
      BY <1>3, <2>1
    <3>3. wire' = [wire EXCEPT ![p[1]] = Append(wire[p[1]], m)]
      BY <1>6, <2>2
    <3> QED
      BY <1>1, <1>2, <3>1, <3>2, <3>3, CalleeGrants
  <2>3. CASE e \notin {c, p}
    <3>1. m.tag # t
      BY <1>2, <2>3, CallFacts
    <3>2. SameWires(t)
      BY <1>2, <1>6, <3>1, WireAppend DEF SameWires
    <3> QED
      BY <1>1, <1>4, <3>2, Aside
  <2> QED
    BY <2>1, <2>2, <2>3
<1> QED
  BY <1>1, <1>5, <1>6

-----------------------------------------------------------------------------
(* demux.                                                                  *)

\* Only the callee's demux makes an end for t, and only once.
LEMMA CallMade ==
    ASSUME TypeInv, TypeInv', NEW t \in Tags, NEW c \in Ends, NEW p \in Ends,
           Call(t, c, p), CallInv(t, c, p), NEW s \in Sides, DemuxNew(s),
           Got(s).tag = t
    PROVE  CallInv(t, c, p)'
<1>0. /\ c[1] \in Sides /\ p[1] \in Sides /\ c[1] # p[1] /\ c # p
      /\ p[1] = Other(c[1]) /\ c[1] = Other(p[1]) /\ c[2] = t /\ p[2] = t
      /\ c = <<c[1], t>> /\ p = <<p[1], t>>
  BY CallFacts
<1>1. GotEnd(s) \in {c, p} /\ ReadMsg(s) /\ Got(s).first /\ GotEnd(s) \notin mapped
  BY <1>0 DEF GotEnd, DemuxNew, Sides
<1>2. GotEnd(s) # c
  <2> SUFFICES ASSUME GotEnd(s) = c PROVE FALSE
    OBVIOUS
  <2> DEFINE q == wire[p[1]]
  <2>1. 1 \in Slots(q, t) /\ q[1].first
    <3>1. Drops(wire'[Other(s)], wire[Other(s)], t, Got(s)) /\ s = c[1]
      BY <1>0, <1>1, Reads
    <3> QED
      BY <1>0, <1>1, <3>1 DEF Drops
  <2>2. ~Passed(t, p) /\ fp[p].pc # "off"
    BY <2>1 DEF Passed, CallInv, Reply
  <2>3. op[c].pc = "off" /\ op[c].first
    BY <1>1, <2>2 DEF CallInv, Kept, Request
  <2> QED
    BY <2>2, <2>3 DEF CallInv, Request, WillFirst
<1>3. GotEnd(s) = p
  BY <1>1, <1>2
<1> DEFINE q == wire[c[1]]
           q2 == wire'[c[1]]
<1>4. s = p[1] /\ Drops(q2, q, t, Got(s)) /\ wire'[p[1]] = wire[p[1]]
  <2>1. s = p[1] /\ Drops(wire'[Other(s)], wire[Other(s)], t, Got(s)) /\ wire'[s] = wire[s]
    BY <1>0, <1>1, <1>3, Reads
  <2> QED
    BY <1>0, <2>1
<1>5. /\ op' = op /\ mapped' = mapped \cup {p} /\ outq'[c] = outq[c]
      /\ fp'[c] = fp[c] /\ fp'[p].pc = "recv"
      /\ dm'[p[1]] = [dm[p[1]] EXCEPT !.pc = "accept", !.tag = t] /\ dm'[c[1]] = dm[c[1]]
  BY <1>0, <1>3, <1>4 DEF DemuxNew, TypeInv, TypeOK
<1> HIDE DEF q, q2
<1>6. /\ 1 \in Slots(q, t) /\ q[1].first
      /\ \A i \in Slots(q2, t) : /\ i \in Nat /\ 1 < i + 1
                                 /\ i + 1 \in Slots(q, t) /\ q2[i] = q[i + 1]
  BY <1>1, <1>4 DEF Drops
<1>7. /\ WillFirst(c) => fp[p].pc = "off" /\ Slots(q, t) = {}
      /\ \A i \in Slots(q, t) : q[i].first => fp[p].pc = "off"
      /\ \A i, j \in Slots(q, t) : i # j /\ q[i].first => ~q[j].first
      /\ fp[c].pc = "off" /\ ~op[c].reply /\ (op[c].pc = "off" => op[c].first)
  BY DEF CallInv, Request, q
<1>8. ~WillFirst(c) /\ fp[p].pc = "off"
  BY <1>6, <1>7
<1>9. \A i \in Slots(q2, t) : ~q2[i].first
  <2> SUFFICES ASSUME NEW i \in Slots(q2, t) PROVE ~q2[i].first
    OBVIOUS
  <2>1. i + 1 \in Slots(q, t) /\ 1 # i + 1 /\ q2[i] = q[i + 1]
    BY <1>6
  <2> QED
    BY <1>6, <1>7, <2>1
<1>10. Request(t, c, p)'
  BY <1>5, <1>7, <1>8, <1>9 DEF Request, WillFirst, q2
<1>11. Reply(t, p)'
  BY <1>4, <1>5, <1>8 DEF Reply, CallInv, WillFirst
<1>12. Passed(t, p)' <=> Passed(t, p)
  BY <1>4, <1>5 DEF Passed, WillFirst
<1>13. Making(t, c, p)'
  BY <1>5, <1>8, <1>12 DEF Making, CallInv, Reply
<1>14. Kept(t, c, p)'
  BY <1>5, <1>12 DEF Kept, CallInv
<1> QED
  BY <1>10, <1>11, <1>13, <1>14 DEF CallInv

\* What the caller's demux delivers was sent after the first message, or is
\* that message.
LEMMA CallerReads ==
    ASSUME TypeInv, TypeInv', NEW t \in Tags, NEW c \in Ends, NEW p \in Ends,
           Call(t, c, p), CallInv(t, c, p), NEW s \in Sides, ReadMsg(s),
           GotEnd(s) = c, Got(s).kind # "flow", op' = op
    PROVE  Passed(t, p)'
<1> DEFINE q == wire[p[1]]
           q2 == wire'[p[1]]
<1>1. Drops(q2, q, t, Got(s))
  <2>1. c[2] = t /\ p[1] = Other(c[1])
    BY CallFacts
  <2>2. s = c[1] /\ Drops(wire'[Other(s)], wire[Other(s)], t, Got(s))
    BY <2>1, Reads
  <2> QED
    BY <2>1, <2>2
<1>2. /\ WillFirst(p) => \A i \in Slots(q, t) : q[i].kind = "flow"
      /\ \A i, j \in Slots(q, t) : i < j /\ q[j].first => q[i].kind = "flow"
  BY DEF CallInv, Reply
<1> HIDE DEF q, q2
<1>3. /\ 1 \in Slots(q, t) /\ q[1].kind # "flow"
      /\ \A i \in Slots(q2, t) : 1 < i + 1 /\ i + 1 \in Slots(q, t) /\ q2[i] = q[i + 1]
  BY <1>1 DEF Drops
<1>4. ~WillFirst(p)'
  BY <1>2, <1>3 DEF WillFirst
<1>5. \A i \in Slots(q2, t) : ~q2[i].first
  BY <1>2, <1>3
<1> QED
  BY <1>4, <1>5 DEF Passed, q2

\* demux reads a message: this is all that it does to the ends of t.
LEMMA CallReads ==
    ASSUME TypeInv, TypeInv', NEW t \in Tags, NEW c \in Ends, NEW p \in Ends,
           Call(t, c, p), CallInv(t, c, p), NEW s \in Sides,
           DemuxDiscard(s) \/ DemuxNew(s) \/ DemuxGrant(s) \/ DemuxEnd(s) \/ DemuxData(s)
    PROVE  CallInv(t, c, p)'
<1> DEFINE g == GotEnd(s)
<1>0. /\ ReadMsg(s) /\ g \in Ends /\ g[1] = s /\ g[2] = Got(s).tag /\ op' = op
      /\ c[1] \in Sides /\ p[1] \in Sides /\ c[1] # p[1] /\ c[2] = t /\ p[2] = t /\ IsRpc(c)
  <2>1. ReadMsg(s) /\ op' = op
    BY DEF DemuxDiscard, DemuxNew, DemuxGrant, DemuxEnd, DemuxData, procs
  <2>2. wire[Other(s)] \in Seq(Msg) /\ wire[Other(s)] # <<>>
    BY <2>1, SideTypes, EndsFacts DEF ReadMsg
  <2>3. Got(s) \in Msg
    BY <2>2 DEF Got
  <2>4. Got(s).tag \in Tags
    BY <2>3 DEF Msg
  <2> QED
    BY <2>1, <2>4, EndsFacts, CallFacts DEF GotEnd
<1> HIDE DEF g
<1>1. SameWires(t)
  BY <1>0, WireTail DEF SameWires
<1>2. CASE DemuxNew(s)
  <2>1. CASE Got(s).tag = t
    BY <1>2, <2>1, CallMade
  <2>2. CASE Got(s).tag # t
    <3>0. g # c /\ g # p
      BY <1>0, <2>2
    <3>1. /\ fp'[c] = fp[c] /\ fp'[p] = fp[p] /\ mapped' = mapped \cup {g}
          /\ outq'[c] = outq[c]
      BY <1>2, <3>0 DEF DemuxNew, g, TypeInv, TypeOK
    <3>2. /\ dm'[s] = [dm[s] EXCEPT !.pc = "accept", !.tag = Got(s).tag]
          /\ \A z \in Sides : z # s => dm'[z] = dm[z]
      BY <1>2 DEF DemuxNew, TypeInv, TypeOK
    <3>3. dm'[s].tag = Got(s).tag
      BY <3>2, SideTypes DEF DmState
    <3>4. DemuxAside(t) /\ SameFlows(c, p) /\ CallerKept(t, c, p)
      BY <2>2, <3>1, <3>2, <3>3 DEF DemuxAside, SameFlows, CallerKept
    <3> QED
      BY <1>0, <1>1, <3>4, Aside
  <2> QED
    BY <2>1, <2>2
<1>3. CASE DemuxDiscard(s) \/ DemuxGrant(s)
  <2>1. fp' = fp /\ mapped' = mapped /\ dm' = dm /\ outq' = outq
    BY <1>3 DEF DemuxDiscard, DemuxGrant, muxes, chans, procs
  <2>2. DemuxAside(t) /\ SameFlows(c, p) /\ CallerKept(t, c, p)
    BY <2>1 DEF DemuxAside, SameFlows, CallerKept
  <2> QED
    BY <1>0, <1>1, <2>2, Aside
<1>4. CASE DemuxEnd(s)
  <2>1. fp' = fp /\ dm' = dm
    BY <1>4 DEF DemuxEnd, procs
  <2>2. (c \in mapped => c \in mapped') /\ outq'[c] = outq[c]
    <3>1. CASE ~IsRpc(g) /\ CloseConns({g}, Got(s).bad)
      <4>1. c # g
        BY <1>0, <3>1
      <4> QED
        BY <3>1, <4>1 DEF CloseConns
    <3>2. CASE UNCHANGED <<mapped, outq>>
      BY <3>2
    <3> QED
      BY <1>4, <3>1, <3>2 DEF DemuxEnd, g
  <2>3. DemuxAside(t) /\ SameFlows(c, p) /\ CallerKept(t, c, p)
    BY <2>1, <2>2 DEF DemuxAside, SameFlows, CallerKept
  <2> QED
    BY <1>0, <1>1, <2>3, Aside
<1>5. CASE DemuxData(s)
  <2>1. fp' = fp /\ mapped' = mapped /\ outq' = outq /\ Got(s).kind = "data"
    BY <1>5 DEF DemuxData, chans, procs
  <2>2. /\ \A z \in Sides : z # s => dm'[z] = dm[z]
        /\ dm' = dm \/ dm'[s] = [pc |-> "deliver", tag |-> Got(s).tag, dat |-> Got(s).dat]
    BY <1>5 DEF DemuxData, TypeInv, TypeOK
  <2>3. StaysOut(c) /\ StaysOut(p)
    BY <1>0 DEF StaysOut, WillFirst
  <2>4. StaysCaller(t, c, p) /\ StaysCallee(p)
    BY <1>0, <2>1, <2>3 DEF StaysCaller, StaysCallee, CallInv, Kept, Reply
  <2>5. g = c => Passed(t, p)'
    BY <1>0, <2>1, CallerReads DEF g
  <2>6. c[1] = s /\ Got(s).tag = t => g = c
    BY <1>0, CallFacts, EndsFacts
  <2>7. StaysMaking(t, c, p)
    BY <1>0, <2>1, <2>2, <2>5, <2>6 DEF StaysMaking, CallInv, Making
  <2> QED
    BY <1>1, <2>4, <2>7, CallStays DEF Stays
<1> QED
  BY <1>2, <1>3, <1>4, <1>5

\* demux goes on with a message that it read.
LEMMA CallRest ==
    ASSUME TypeInv, TypeInv', NEW t \in Tags, NEW c \in Ends, NEW p \in Ends,
           Call(t, c, p), CallInv(t, c, p), NEW s \in Sides,
           DemuxAccept(s) \/ DemuxDeliver(s) \/ DemuxClosed(s)
    PROVE  CallInv(t, c, p)'
<1> DEFINE e == <<s, dm[s].tag>>
<1>0. /\ c[1] \in Sides /\ p[1] \in Sides /\ c[1] # p[1] /\ c # p
      /\ c = <<c[1], t>> /\ p = <<p[1], t>> /\ t \in Rpcs
      /\ e \in Ends /\ dm[s] \in DmState
  <2>1. dm[s] \in DmState
    BY SideTypes
  <2>2. dm[s].tag \in Tags
    BY <2>1 DEF DmState
  <2> QED
    BY <2>1, <2>2, CallFacts, EndsFacts
<1>1. /\ wire' = wire /\ fp' = fp
      /\ dm'[s] = [dm[s] EXCEPT !.pc = "read"]
      /\ \A z \in Sides : z # s => dm'[z] = dm[z]
  BY DEF DemuxAccept, DemuxDeliver, DemuxClosed, device, procs, TypeInv, TypeOK
<1>2. dm'[s].pc = "read"
  BY <1>0, <1>1 DEF DmState
<1>3. SameWires(t) /\ DemuxAside(t) /\ SameFlows(c, p)
  BY <1>1, <1>2, WireSame DEF SameWires, DemuxAside, SameFlows
<1>4. CASE DemuxAccept(s)
  <2>1. mapped' = mapped /\ outq' = outq /\ dm[s].pc = "accept"
    BY <1>4 DEF DemuxAccept, chans
  <2>2. e # c
    BY <1>0, <2>1 DEF CallInv, Making
  <2>3. CASE e # p
    <3>1. op'[c] = op[c] /\ op'[p] = op[p]
      BY <1>4, <2>2, <2>3 DEF DemuxAccept, TypeInv, TypeOK
    <3>2. CallerKept(t, c, p)
      BY <2>1 DEF CallerKept
    <3> QED
      BY <1>3, <3>1, <3>2, Aside
  <2>4. CASE e = p
    <3>1. op[p].pc = "off" /\ op[p].first /\ fp[p].pc # "off" /\ s = p[1] /\ dm[s].tag = t
      BY <1>0, <2>1, <2>4 DEF CallInv, Making, Reply
    <3>2. /\ op'[c] = op[c]
          /\ op'[p] = [pc |-> "first", msg |-> 0, n |-> 0, first |-> TRUE,
                       reply |-> TRUE, bad |-> FALSE]
      BY <1>0, <1>4, <2>4, <3>1 DEF DemuxAccept, TypeInv, TypeOK
    <3>3. StaysOut(c) /\ StaysOut(p)
      BY <3>1, <3>2 DEF StaysOut, WillFirst
    <3>4. StaysCaller(t, c, p)
      BY <1>1, <2>1, <3>2, <3>3 DEF StaysCaller, CallInv, Kept
    <3>5. StaysCallee(p)
      <4>1. op'[p].pc = "first"
        BY <3>2
      <4> QED
        BY <1>1, <3>1, <3>3, <4>1 DEF StaysCallee
    <3>6. StaysMaking(t, c, p)
      BY <1>0, <1>1, <1>2, <3>1 DEF StaysMaking, CallInv, Making
    <3> QED
      BY <1>3, <3>4, <3>5, <3>6, CallStays DEF Stays
  <2> QED
    BY <2>3, <2>4
<1>5. CASE DemuxDeliver(s)
  <2>1. mapped' = mapped /\ outq' = outq /\ op' = op
    BY <1>5 DEF DemuxDeliver, procs
  <2>2. CallerKept(t, c, p)
    BY <2>1 DEF CallerKept
  <2> QED
    BY <1>3, <2>1, <2>2, Aside
<1>6. CASE DemuxClosed(s)
  <2>1. op' = op /\ CloseConns({e}, inq[e].bad) /\ dm[s].pc = "deliver"
    BY <1>6 DEF DemuxClosed, procs
  <2>2. e = c => Passed(t, p)
    BY <1>0, <2>1 DEF CallInv, Making
  <2>3. e # c => (c \in mapped => c \in mapped') /\ outq'[c] = outq[c]
    BY <2>1 DEF CloseConns
  <2>4. CallerKept(t, c, p)
    BY <2>2, <2>3 DEF CallerKept
  <2> QED
    BY <1>3, <2>1, <2>4, Aside
<1> QED
  BY <1>4, <1>5, <1>6

-----------------------------------------------------------------------------
(* Users, and the whole step.                                              *)

LEMMA CallOpens ==
    ASSUME TypeInv, TypeInv', NEW t \in Tags, NEW c \in Ends, NEW p \in Ends,
           Call(t, c, p), CallInv(t, c, p), NEW e \in Ends, Open(e)
    PROVE  CallInv(t, c, p)'
<1>1. /\ wire' = wire /\ dm' = dm /\ fp' = fp /\ outq' = outq
      /\ mapped' = mapped \cup {e} /\ op[e].pc = "off" /\ IsOpener(e)
      /\ \A x \in Ends : x # e => op'[x] = op[x]
      /\ op'[e] = [op[e] EXCEPT !.pc = "first"]
  BY DEF Open, device, chans, TypeInv, TypeOK
<1>2. op'[e].pc = "first" /\ op'[e].first = op[e].first /\ op'[e].reply = op[e].reply
  BY <1>1, EndTypes DEF OpState
<1>3. SameWires(t) /\ DemuxAside(t) /\ SameFlows(c, p)
  BY <1>1, WireSame DEF SameWires, DemuxAside, SameFlows
<1>4. e # p /\ op'[p] = op[p]
  BY <1>1, CallFacts
<1>5. StaysOut(c) /\ StaysOut(p)
  BY <1>1, <1>2, <1>4 DEF StaysOut, WillFirst
<1>6. StaysCaller(t, c, p)
  BY <1>1, <1>2, <1>5 DEF StaysCaller, CallInv, Kept
<1>7. StaysCallee(p) /\ StaysMaking(t, c, p)
  BY <1>1, <1>4, <1>5 DEF StaysCallee, StaysMaking, CallInv, Reply, Making
<1> QED
  BY <1>3, <1>6, <1>7, CallStays DEF Stays

LEMMA CallUsers ==
    ASSUME TypeInv, TypeInv', NEW t \in Tags, NEW c \in Ends, NEW p \in Ends,
           Call(t, c, p), CallInv(t, c, p),
           \/ \E e \in Ends : \/ UserRecv(e) /\ ~Flows(e)
                              \/ UserEOF(e) \/ UserSend(e) \/ UserQuit(e)
                              \/ UserClose(e, FALSE)
           \/ \E s \in Sides : UserAccept(s)
           \/ UNCHANGED vars
    PROVE  CallInv(t, c, p)'
<1>1. wire' = wire /\ dm' = dm /\ fp' = fp /\ op' = op /\ mapped' = mapped
  BY DEF UserRecv, UserEOF, UserSend, UserQuit, UserClose, UserAccept, vars,
         device, muxes, procs
<1>2. outq'[c].bad => outq[c].bad
  <2>1. \/ outq' = outq
        \/ \E e \in Ends : outq' = [outq EXCEPT ![e] = Push(outq[e], usr[e].sent + 1)]
        \/ \E e \in Ends : outq' = [outq EXCEPT ![e] = CloseChan(outq[e], FALSE)]
    BY DEF UserRecv, UserEOF, UserSend, UserQuit, UserClose, UserAccept, vars, chans
  <2>2. \/ outq'[c] = outq[c] \/ outq'[c] = Push(outq[c], usr[c].sent + 1)
        \/ outq'[c] = CloseChan(outq[c], FALSE)
    BY <2>1 DEF TypeInv, TypeOK
  <2>3. /\ CloseChan(outq[c], FALSE).bad => outq[c].bad
        /\ \A k : Push(outq[c], k).bad = outq[c].bad
    BY EndTypes DEF CloseChan, Push, Chan
  <2> QED
    BY <2>2, <2>3
<1>3. SameWires(t)
  BY <1>1, WireSame DEF SameWires
<1>4. DemuxAside(t) /\ SameFlows(c, p) /\ CallerKept(t, c, p)
  BY <1>1, <1>2 DEF DemuxAside, SameFlows, CallerKept
<1> QED
  BY <1>1, <1>3, <1>4, Aside

\* What may happen while no user and no device cuts anything.
CalmNext ==
    \/ \E e \in Ends : Goroutines(e)
    \/ \E e \in Ends : \/ Open(e) \/ UserRecv(e) \/ UserEOF(e) \/ UserSend(e)
                       \/ UserQuit(e) \/ UserClose(e, FALSE)
    \/ \E s \in Sides : \/ DemuxDiscard(s) \/ DemuxNew(s) \/ DemuxGrant(s)
                        \/ DemuxEnd(s) \/ DemuxData(s)
    \/ \E s \in Sides : DemuxAccept(s) \/ DemuxDeliver(s) \/ DemuxClosed(s)
    \/ \E s \in Sides : UserAccept(s)
    \/ UNCHANGED vars

LEMMA CalmSteps ==
    ASSUME TypeInv, Calm, Orderly, [Next]_vars PROVE CalmNext
<1>1. ~Break /\ \A s \in Sides : ~UserRefuse(s) /\ ~Close(s)
  BY DEF Orderly, Break, UserRefuse, Close
<1>2. \A e \in Ends : ~UserClose(e, TRUE)
  BY DEF Orderly, UserClose
<1>3. \A s \in Sides : ~DemuxRefused(s) /\ ~DemuxEOF(s) /\ ~DemuxClose(s)
  BY EndsFacts DEF Calm, DemuxRefused, DemuxEOF, DemuxClose
<1>4. CASE \E e \in Ends : Goroutines(e) \/ Users(e)
  BY <1>2, <1>4 DEF CalmNext, Users, Out, Rpc
<1>5. CASE \E s \in Sides : Demux(s) \/ UserAccept(s)
  BY <1>3, <1>5 DEF CalmNext, Demux
<1>6. CASE UNCHANGED vars
  BY <1>6 DEF CalmNext
<1> QED
  BY <1>1, <1>4, <1>5, <1>6 DEF Next

LEMMA CallStep ==
    ASSUME TypeInv, TypeInv', Calm, Orderly, CalmNext,
           NEW t \in Tags, NEW c \in Ends, NEW p \in Ends,
           Call(t, c, p), CallInv(t, c, p)
    PROVE  CallInv(t, c, p)'
<1>1. CASE \E e \in Ends : Goroutines(e)
  <2>1. PICK e \in Ends : Goroutines(e)
    BY <1>1
  <2>2. CASE OutWrite(e) \/ OutEnd(e)
    BY <2>2, OutMoves, CallSends
  <2>3. CASE OutFirst(e) \/ OutRecv(e) \/ OutCredit(e)
    BY <2>3, OutMoves
  <2>4. CASE OutDrop(e)
    BY <2>4, CallDrops
  <2>5. CASE GoTicket(e) \/ FlowRecv(e) \/ FlowQuit(e) \/ FlowGrant(e)
    BY <2>5, CallFlows
  <2> QED
    BY <2>1, <2>2, <2>3, <2>4, <2>5 DEF Goroutines
<1>2. CASE \E e \in Ends : Open(e)
  BY <1>2, CallOpens
<1>3. CASE \E e \in Ends : UserRecv(e) /\ Flows(e)
  BY <1>3, CallFlows DEF UserRecv
<1>4. CASE \E s \in Sides : \/ DemuxDiscard(s) \/ DemuxNew(s) \/ DemuxGrant(s)
                            \/ DemuxEnd(s) \/ DemuxData(s)
  BY <1>4, CallReads
<1>5. CASE \E s \in Sides : DemuxAccept(s) \/ DemuxDeliver(s) \/ DemuxClosed(s)
  BY <1>5, CallRest
<1>6. CASE \/ \E e \in Ends : \/ UserRecv(e) /\ ~Flows(e)
                              \/ UserEOF(e) \/ UserSend(e) \/ UserQuit(e)
                              \/ UserClose(e, FALSE)
           \/ \E s \in Sides : UserAccept(s)
           \/ UNCHANGED vars
  BY <1>6, CallUsers
<1> QED
  BY <1>1, <1>2, <1>3, <1>4, <1>5, <1>6 DEF CalmNext

\* Nothing makes a Mux hang up.
LEMMA CalmStays ==
    ASSUME TypeInv, Calm, CalmNext PROVE Calm'
<1>1. link' = link /\ up' = up
  BY DEF CalmNext, Goroutines, OutFirst, OutRecv, OutCredit, OutWrite, OutEnd, OutDrop,
         GoTicket, FlowRecv, FlowQuit, FlowGrant, Open, UserRecv, FlowPost, UserEOF,
         UserSend, UserQuit, UserClose, DemuxDiscard, DemuxNew, DemuxGrant, DemuxEnd,
         DemuxData, DemuxAccept, DemuxDeliver, DemuxClosed, UserAccept, vars, device
<1>2. ASSUME NEW s \in Sides
      PROVE  minq'[s].open /\ dm'[s].pc \notin {"close", "done"}
  <2>0. minq[s].open /\ dm[s].pc \notin {"close", "done"} /\ minq[s] \in Chan(Tags) /\ dm[s] \in DmState
    BY SideTypes DEF Calm
  <2>1. \/ minq' = minq \/ \E z \in Sides : minq' = [minq EXCEPT ![z] = Push(minq[z], dm[z].tag)]
        \/ \E z \in Sides : minq' = [minq EXCEPT ![z] = Pop(minq[z])]
    BY DEF CalmNext, Goroutines, OutFirst, OutRecv, OutCredit, OutWrite, OutEnd, OutDrop,
         GoTicket, FlowRecv, FlowQuit, FlowGrant, Open, UserRecv, FlowPost, UserEOF,
         UserSend, UserQuit, UserClose, DemuxDiscard, DemuxNew, DemuxGrant, DemuxEnd,
         DemuxData, DemuxAccept, DemuxDeliver, DemuxClosed, UserAccept, vars, muxes
  <2>2. minq'[s] = minq[s] \/ minq'[s] = Push(minq[s], dm[s].tag) \/ minq'[s] = Pop(minq[s])
    BY <2>1 DEF TypeInv, TypeOK
  <2>3. minq'[s].open
    BY <2>0, <2>2 DEF Push, Pop, Chan
  <2>4. \/ dm' = dm
        \/ \E z \in Sides : dm' = [dm EXCEPT ![z].pc = "accept", ![z].tag = Got(z).tag]
        \/ \E z \in Sides : dm' = [dm EXCEPT ![z].pc = "read"]
        \/ \E z \in Sides : dm' = [dm EXCEPT ![z] = [pc |-> "deliver", tag |-> Got(z).tag,
                                                     dat |-> Got(z).dat]]
    BY DEF CalmNext, Goroutines, OutFirst, OutRecv, OutCredit, OutWrite, OutEnd, OutDrop,
         GoTicket, FlowRecv, FlowQuit, FlowGrant, Open, UserRecv, FlowPost, UserEOF,
         UserSend, UserQuit, UserClose, DemuxDiscard, DemuxNew, DemuxGrant, DemuxEnd,
         DemuxData, DemuxAccept, DemuxDeliver, DemuxClosed, UserAccept, vars, muxes
  <2>5. \/ dm'[s] = dm[s]
        \/ dm'[s] = [dm[s] EXCEPT !.pc = "accept", !.tag = Got(s).tag]
        \/ dm'[s] = [dm[s] EXCEPT !.pc = "read"]
        \/ dm'[s] = [pc |-> "deliver", tag |-> Got(s).tag, dat |-> Got(s).dat]
    BY <2>4 DEF TypeInv, TypeOK
  <2>6. dm'[s].pc \notin {"close", "done"}
    <3>1. CASE dm'[s] = [dm[s] EXCEPT !.pc = "accept", !.tag = Got(s).tag]
      <4>1. dm'[s].pc = "accept"
        BY <2>0, <3>1 DEF DmState
      <4> QED
        BY <4>1
    <3>2. CASE dm'[s] = [dm[s] EXCEPT !.pc = "read"]
      <4>1. dm'[s].pc = "read"
        BY <2>0, <3>2 DEF DmState
      <4> QED
        BY <4>1
    <3>3. CASE dm'[s] = [pc |-> "deliver", tag |-> Got(s).tag, dat |-> Got(s).dat]
      BY <3>3
    <3> QED
      BY <2>0, <2>5, <3>1, <3>2, <3>3
  <2> QED
    BY <2>3, <2>6
<1> QED
  BY <1>1, <1>2 DEF Calm

\* demux puts in Mux.In only what the peer opened.
LEMMA NoPhantomStep ==
    ASSUME TypeInv, PhantomInv, CalmNext PROVE NoPhantom'
<1> SUFFICES ASSUME NEW s \in Sides PROVE \A i \in DOMAIN minq'[s].buf : Opener[minq'[s].buf[i]] # s
  BY DEF NoPhantom
<1>0. minq[s] \in Chan(Tags) /\ minq[s].buf \in Seq(Tags) /\ dm[s] \in DmState
  BY SideTypes, ChanFacts
<1>1. \A i \in DOMAIN minq[s].buf : Opener[minq[s].buf[i]] # s
  BY DEF PhantomInv, NoPhantom
<1>2. CASE DemuxAccept(s)
  <2> DEFINE t == dm[s].tag
             e == <<s, t>>
             x == <<Other(s), t>>
  <2>0. t \in Tags /\ e \in Ends /\ x \in Ends
    BY <1>0, EndsFacts DEF DmState
  <2>1. Opener[t] # s
    <3> SUFFICES ASSUME Opener[t] = s PROVE FALSE
      OBVIOUS
    <3>1. dm[s].pc = "accept" /\ e[1] = s
      BY <1>2 DEF DemuxAccept
    <3>2. CASE t \in Rpcs
      <4>1. Call(t, e, x)
        BY <3>2 DEF Call
      <4>2. Making(t, e, x)
        BY <2>0, <4>1 DEF PhantomInv, CallInv
      <4> QED
        BY <3>1, <4>2 DEF Making
    <3>3. CASE t \notin Rpcs
      <4>1. OneWay(t, e, x)
        BY <2>0, <3>3 DEF OneWay
      <4>2. Roles(t, e, x)
        BY <2>0, <4>1 DEF PhantomInv, FlowInv, StreamInv
      <4> QED
        BY <3>1, <4>2 DEF Roles
    <3> QED
      BY <3>2, <3>3
  <2>2. minq'[s] = Push(minq[s], t)
    BY <1>2 DEF DemuxAccept, TypeInv, TypeOK
  <2> HIDE DEF t
  <2>3. minq'[s].buf = Append(minq[s].buf, t)
    BY <1>0, <2>2, ChanFacts
  <2> QED
    BY <1>0, <1>1, <2>0, <2>1, <2>3
<1>3. CASE UserAccept(s)
  <2>1. minq'[s] = Pop(minq[s]) /\ minq[s].buf # <<>>
    BY <1>3 DEF UserAccept, TypeInv, TypeOK
  <2>2. minq'[s].buf = Tail(minq[s].buf)
    BY <1>0, <2>1, ChanFacts
  <2> QED
    BY <1>0, <1>1, <2>1, <2>2
<1>4. CASE ~DemuxAccept(s) /\ ~UserAccept(s)
  <2>1. minq'[s] = minq[s]
    <3>1. CASE \E z \in Sides : DemuxAccept(z) \/ UserAccept(z)
      BY <1>4, <3>1 DEF DemuxAccept, UserAccept, TypeInv, TypeOK
    <3>2. CASE ~\E z \in Sides : DemuxAccept(z) \/ UserAccept(z)
      BY <3>2
         DEF CalmNext, Goroutines, OutFirst, OutRecv, OutCredit, OutWrite, OutEnd, OutDrop,
             GoTicket, FlowRecv, FlowQuit, FlowGrant, Open, UserRecv, FlowPost, UserEOF,
             UserSend, UserQuit, UserClose, DemuxDiscard, DemuxNew, DemuxGrant, DemuxEnd,
             DemuxData, DemuxDeliver, DemuxClosed, vars, muxes
    <3> QED
      BY <3>1, <3>2
  <2> QED
    BY <1>1, <2>1
<1> QED
  BY <1>2, <1>3, <1>4

\* The invariant of Rpc streams is inductive.
LEMMA PhantomStep ==
    ASSUME Orderly PROVE PhantomInv /\ [Next]_vars => PhantomInv'
<1> SUFFICES ASSUME PhantomInv, [Next]_vars PROVE PhantomInv'
  OBVIOUS
<1>1. FlowInv /\ FlowInv' /\ Calm
  BY FlowStep DEF PhantomInv
<1>2. TypeInv /\ TypeInv'
  BY <1>1 DEF FlowInv
<1>3. CalmNext
  BY <1>1, <1>2, CalmSteps
<1>4. Calm' /\ NoPhantom'
  BY <1>1, <1>2, <1>3, CalmStays, NoPhantomStep
<1>5. ASSUME NEW t \in Tags, NEW c \in Ends, NEW p \in Ends, Call(t, c, p)
      PROVE  CallInv(t, c, p)'
  <2>1. CallInv(t, c, p)
    BY <1>5 DEF PhantomInv
  <2> QED
    BY <1>1, <1>2, <1>3, <1>5, <2>1, CallStep
<1>6. \A t \in Tags : \A c, p \in Ends : Call(t, c, p)' <=> Call(t, c, p)
  BY DEF Call
<1> QED
  BY <1>1, <1>4, <1>5, <1>6 DEF PhantomInv

\* It holds when no stream is open.
LEMMA InitPhantom == Init => PhantomInv
<1> SUFFICES ASSUME Init PROVE PhantomInv
  OBVIOUS
<1>1. FlowInv
  BY InitFlow
<1>2. Calm /\ NoPhantom
  BY DEF Init, Calm, NoPhantom, NewChan
<1>3. ASSUME NEW t \in Tags, NEW c \in Ends, NEW p \in Ends, Call(t, c, p)
      PROVE  CallInv(t, c, p)
  <2>1. c[1] \in Sides /\ p[1] \in Sides
    BY <1>3, CallFacts
  <2>2. /\ op[c].pc = "off" /\ op[c].first /\ ~op[c].reply /\ fp[c].pc = "off"
        /\ op[p].pc = "off" /\ op[p].first /\ fp[p].pc = "off"
        /\ ~outq[c].bad
    BY DEF Init, NewChan
  <2>3. /\ wire[c[1]] = <<>> /\ wire[p[1]] = <<>>
        /\ dm[c[1]].pc = "read" /\ dm[p[1]].pc = "read"
    BY <2>1 DEF Init
  <2>4. Slots(<<>>, t) = {}
    BY DEF Slots
  <2>5. Request(t, c, p) /\ Reply(t, p)
    BY <2>2, <2>3, <2>4 DEF Request, Reply
  <2>6. Making(t, c, p) /\ Kept(t, c, p)
    BY <2>2, <2>3 DEF Making, Kept
  <2> QED
    BY <2>5, <2>6 DEF CallInv
<1> QED
  BY <1>1, <1>2, <1>3 DEF PhantomInv

\* While no user closes with an error and nothing hangs up, who called Rpc is
\* never given its own stream, when the reply comes, as one that the peer
\* opened: for every nbuf, and any number of streams of both kinds.
THEOREM RepliesAreReplies ==
    ASSUME Orderly PROVE Spec => []NoPhantom
<1>1. Init => PhantomInv
  BY InitPhantom
<1>2. PhantomInv /\ [Next]_vars => PhantomInv'
  BY PhantomStep
<1>3. PhantomInv => NoPhantom
  BY DEF PhantomInv
<1> QED
  BY <1>1, <1>2, <1>3, PTL DEF Spec
=============================================================================
