--------------------------- MODULE MuxFlowProofs ----------------------------
(***************************************************************************)
(* Flow control of one-way streams (Out), for any number of streams and    *)
(* any nbuf: demux never waits to deliver one of their messages.           *)
(*                                                                         *)
(* The k-th message of a stream is k, so the order of messages bounds how  *)
(* many of them there are between any two of them.  The argument: a value  *)
(* on its way to the reader is larger than the number of those that are    *)
(* ahead of it (Data) and no larger than the credit of the writer, which   *)
(* is at most 2 * Half plus what the user of the reader got (Credit).      *)
(***************************************************************************)
EXTENDS MuxProofs, Integers

\* t is a one-way stream, written by the end w and read by the end r.
OneWay(t, w, r) ==
    /\ t \in Tags \ Rpcs
    /\ w = <<Opener[t], t>>
    /\ r = <<Other(Opener[t]), t>>

\* The messages that out took from conn.out and sent, or discarded.
Taken(w) ==
    IF op[w].pc \in {"credit", "write"} THEN op[w].msg - 1 ELSE op[w].msg

\* The messages it will have sent when it uses all the credit it knows of.
Allowed(w) == Taken(w) + op[w].n + Half * (flow[w].n + pending[w])

\* The messages that the user of the reader got.
Seen(r) == Len(usr[r].seen)

Delivering(r) == dm[r[1]].pc = "deliver" /\ dm[r[1]].tag = r[2]

\* The messages that left the wire and were not dropped.
Arrived(r) ==
    Seen(r) + (IF fp[r].pc = "send" THEN 1 ELSE 0) + Len(inq[r].buf)
            + (IF Delivering(r) THEN 1 ELSE 0)

\* The positions in the wire q of the messages for t, and of its data.
Slots(q, t) == {i \in DOMAIN q : q[i].tag = t}
DataSlots(q, t) == {i \in Slots(q, t) : q[i].kind = "data"}

\* Only the writer's end runs out, only the reader's runs flowproc.
Roles(t, w, r) ==
    /\ fp[w].pc = "off"
    /\ op[r].pc = "off"
    /\ \A i \in Slots(wire[r[1]], t) :
          wire[r[1]][i].kind = "flow" /\ ~wire[r[1]][i].first
    /\ dm[w[1]].tag = t => dm[w[1]].pc \notin {"accept", "deliver"}
    /\ (r \in mapped \/ Delivering(r)) => fp[r].pc # "off"
    /\ fp[r].pc = "off" => Seen(r) = 0 /\ inq[r].buf = <<>>

\* One message has the first bit, and it makes the connection.
Firsts(t, w, r) ==
    /\ op[w].first /\ op[w].pc \notin {"drop", "done"}
          => fp[r].pc = "off" /\ Slots(wire[w[1]], t) = {}
    /\ ~op[w].first => Taken(w) >= 1
    /\ \A i \in Slots(wire[w[1]], t) : wire[w[1]][i].first => fp[r].pc = "off"
    /\ \A i, j \in Slots(wire[w[1]], t) : i # j /\ wire[w[1]][i].first =>
          /\ ~wire[w[1]][j].first
          /\ wire[w[1]][j].kind = "data" => wire[w[1]][j].dat >= 2
    /\ \A i \in Slots(wire[w[1]], t) :
          wire[w[1]][i].kind # "data" => op[w].pc \in {"drop", "done"}

\* What out takes is numbered in order.
Queue(w) ==
    /\ \A i \in 1..Len(outq[w].buf) : outq[w].buf[i] = op[w].msg + i
    /\ usr[w].sent = op[w].msg + Len(outq[w].buf)
    /\ op[w].pc \in {"off", "first"} => op[w].n = 0
    /\ op[w].pc \in {"credit", "write"} => op[w].msg >= 1

\* Messages on the wire come after the ones that arrived, in order.
Data(t, w, r) ==
    /\ op[w].pc \notin {"drop", "done"} => Arrived(r) <= Taken(w)
    /\ \A i \in DataSlots(wire[w[1]], t) :
          /\ Arrived(r) < wire[w[1]][i].dat
          /\ wire[w[1]][i].dat <= Taken(w)
          /\ wire[w[1]][i].dat <= 2 * Half + Seen(r)
    /\ \A i, j \in DataSlots(wire[w[1]], t) :
          i < j => wire[w[1]][i].dat < wire[w[1]][j].dat
    /\ Delivering(r) => /\ Arrived(r) <= dm[r[1]].dat
                        /\ dm[r[1]].dat <= Taken(w)
                        /\ dm[r[1]].dat <= 2 * Half + Seen(r)

\* The writer's credit and the grants in flight never exceed what was read.
Credit(t, w, r) ==
    /\ ~flow[w].open => ~up[w[1]] \/ op[w].pc = "done"
    /\ flow[w].open =>
          /\ Allowed(w) <= 2 * Half + Seen(r) - fp[r].n
          /\ \A i \in Slots(wire[r[1]], t) : wire[r[1]][i].dat >= Allowed(w) - Half
    /\ \A i \in Slots(wire[r[1]], t) : wire[r[1]][i].dat <= Seen(r) - fp[r].n
    /\ \A i, j \in Slots(wire[r[1]], t) :
          i < j => wire[r[1]][j].dat >= wire[r[1]][i].dat + Half
    /\ fp[r].pc = "grant" => fp[r].n = Half

StreamInv(t, w, r) ==
    /\ Roles(t, w, r)
    /\ Firsts(t, w, r)
    /\ Queue(w)
    /\ Data(t, w, r)
    /\ Credit(t, w, r)

\* The invariant of the flow control, for every one-way stream.
FlowInv ==
    /\ TypeInv
    /\ \A t \in Tags : \A w, r \in Ends : OneWay(t, w, r) => StreamInv(t, w, r)

-----------------------------------------------------------------------------

\* Every message for t in q2 is one of q1; their order is the same.
Shrinks(q2, q1, t) ==
    \E k \in {0, 1} : \A i \in Slots(q2, t) : i + k \in Slots(q1, t) /\ q2[i] = q1[i + k]

\* The two ends of a one-way stream, and no other end has its tag.
LEMMA StreamFacts ==
    ASSUME NEW t \in Tags, NEW w \in Ends, NEW r \in Ends, OneWay(t, w, r)
    PROVE  /\ w[1] \in Sides /\ r[1] \in Sides /\ w[2] = t /\ r[2] = t
           /\ r[1] = Other(w[1]) /\ w[1] = Other(r[1]) /\ w[1] # r[1] /\ w # r
           /\ w = <<w[1], t>> /\ r = <<r[1], t>>
           /\ IsOpener(w) /\ ~IsOpener(r) /\ ~IsRpc(w) /\ ~IsRpc(r)
           /\ HasOut(w) /\ ~HasOut(r) /\ ~HasIn(w) /\ HasIn(r)
           /\ \A e \in Ends : e[2] = t => e \in {w, r}
BY MuxAssumption
   DEF MuxAssumption, OneWay, Ends, Sides, Other, IsOpener, IsRpc, HasOut, HasIn

\* Writing a message of another stream leaves the messages of t alone.
LEMMA AppendShrinks ==
    ASSUME NEW q \in Seq(Msg), NEW m \in Msg, NEW t, m.tag # t
    PROVE  Shrinks(Append(q, m), q, t)
<1>1. \A i \in Slots(Append(q, m), t) : i + 0 \in Slots(q, t) /\ Append(q, m)[i] = q[i + 0]
  BY DEF Slots
<1> QED
  BY <1>1 DEF Shrinks

\* Reading a message leaves those of t behind it in their order.
LEMMA TailShrinks ==
    ASSUME NEW q \in Seq(Msg), q # <<>>, NEW t
    PROVE  Shrinks(Tail(q), q, t)
<1>1. \A i \in Slots(Tail(q), t) : i + 1 \in Slots(q, t) /\ Tail(q)[i] = q[i + 1]
  BY DEF Slots
<1> QED
  BY <1>1 DEF Shrinks

\* A wire that does not change keeps the messages of t.
LEMMA SameShrinks ==
    ASSUME NEW q \in Seq(Msg), NEW t PROVE Shrinks(q, q, t)
<1>1. \A i \in Slots(q, t) : i + 0 \in Slots(q, t) /\ q[i] = q[i + 0]
  BY DEF Slots
<1> QED
  BY <1>1 DEF Shrinks

\* All that the invariant counts is a number.
LEMMA Numbers ==
    ASSUME TypeInv, NEW w \in Ends, NEW r \in Ends
    PROVE  /\ Taken(w) \in Int /\ Allowed(w) \in Int /\ op[w].msg \in Nat
           /\ op[w].n \in Nat /\ flow[w].n \in Nat /\ pending[w] \in Nat
           /\ Seen(r) \in Nat /\ Arrived(r) \in Nat /\ Seen(r) <= Arrived(r)
           /\ Len(inq[r].buf) \in Nat
           /\ fp[r].n \in Nat /\ usr[w].sent \in Nat
           /\ \A s \in Sides : /\ dm[s].dat \in Nat
                               /\ \A i \in DOMAIN wire[s] : wire[s][i].dat \in Nat
<1>1. /\ op[w].msg \in Nat /\ op[w].n \in Nat /\ flow[w].n \in Nat
      /\ pending[w] \in Nat /\ fp[r].n \in Nat /\ usr[w].sent \in Nat
      /\ usr[r].seen \in Seq(Nat)
  BY EndTypes DEF OpState, Flow, FpState, UserState
<1>2. inq[r].buf \in Seq(Nat)
  BY EndTypes, ChanFacts
<1>3. Taken(w) \in Int
  BY <1>1 DEF Taken
<1>4. Half * (flow[w].n + pending[w]) \in Int
  BY <1>1, HalfFacts
<1>5. Allowed(w) \in Int
  BY <1>1, <1>3, <1>4 DEF Allowed
<1>6. /\ Seen(r) \in Nat /\ Arrived(r) \in Nat /\ Seen(r) <= Arrived(r)
      /\ Len(inq[r].buf) \in Nat
  <2>1. Seen(r) \in Nat /\ Len(inq[r].buf) \in Nat
    BY <1>1, <1>2 DEF Seen
  <2> QED
    BY <2>1 DEF Arrived
<1>7. ASSUME NEW s \in Sides
      PROVE  /\ dm[s].dat \in Nat
             /\ \A i \in DOMAIN wire[s] : wire[s][i].dat \in Nat
  <2>1. dm[s].dat \in Nat
    BY SideTypes DEF DmState
  <2>2. wire[s] \in Seq(Msg)
    BY SideTypes
  <2>3. \A i \in DOMAIN wire[s] : wire[s][i] \in Msg
    BY <2>2
  <2> QED
    BY <2>1, <2>3 DEF Msg
<1> QED
  BY <1>1, <1>3, <1>5, <1>6, <1>7

\* A step that adds no message for t, and no credit, keeps the invariant.
LEMMA Frame ==
    ASSUME TypeInv, TypeInv',
           NEW t \in Tags, NEW w \in Ends, NEW r \in Ends, OneWay(t, w, r),
           StreamInv(t, w, r),
           Shrinks(wire'[w[1]], wire[w[1]], t),
           Shrinks(wire'[r[1]], wire[r[1]], t),
           fp'[w].pc = "off" /\ op'[r].pc = "off",
           dm'[w[1]].tag = t => dm'[w[1]].pc \notin {"accept", "deliver"},
           r \in mapped' => r \in mapped,
           fp'[r].pc = "off" <=> fp[r].pc = "off",
           fp[r].pc = "off" => Seen(r)' = Seen(r) /\ inq'[r].buf = inq[r].buf,
           op'[w].first => op[w].first,
           ~op'[w].first => Taken(w)' >= 1,
           op[w].pc \in {"drop", "done"} => op'[w].pc \in {"drop", "done"},
           Taken(w)' >= Taken(w),
           Queue(w)',
           Arrived(r)' <= Arrived(r),
           Seen(r)' >= Seen(r),
           Delivering(r)' => Delivering(r) /\ dm'[r[1]].dat = dm[r[1]].dat,
           ~flow'[w].open => ~up'[w[1]] \/ op'[w].pc = "done",
           flow'[w].open => flow[w].open /\ Allowed(w)' = Allowed(w),
           Seen(r)' - fp'[r].n >= Seen(r) - fp[r].n,
           fp'[r].pc = "grant" => fp'[r].n = Half
    PROVE  StreamInv(t, w, r)'
<1> DEFINE W == wire[w[1]]
           R == wire[r[1]]
           W2 == wire'[w[1]]
           R2 == wire'[r[1]]
<1>0. /\ w[1] \in Sides /\ r[1] \in Sides
      /\ Taken(w) \in Int /\ Allowed(w) \in Int /\ Seen(r) \in Nat
      /\ Arrived(r) \in Nat /\ fp[r].n \in Nat /\ Half \in Nat
      /\ \A i \in DOMAIN W : W[i].dat \in Nat
      /\ \A i \in DOMAIN R : R[i].dat \in Nat
      /\ DOMAIN W \subseteq Int /\ DOMAIN R \subseteq Int
  <2>1. w[1] \in Sides /\ r[1] \in Sides
    BY StreamFacts
  <2>2. W \in Seq(Msg) /\ R \in Seq(Msg)
    BY <2>1, SideTypes
  <2>3. DOMAIN W \subseteq Int /\ DOMAIN R \subseteq Int
    BY <2>2
  <2>4. /\ Taken(w) \in Int /\ Allowed(w) \in Int /\ Seen(r) \in Nat
        /\ Arrived(r) \in Nat /\ fp[r].n \in Nat
        /\ \A s \in Sides : \A i \in DOMAIN wire[s] : wire[s][i].dat \in Nat
    BY Numbers
  <2> QED
    BY <2>1, <2>3, <2>4, HalfFacts
<1>1. /\ Taken(w)' \in Int /\ Allowed(w)' \in Int /\ Seen(r)' \in Nat
      /\ Arrived(r)' \in Nat /\ fp'[r].n \in Nat
      /\ \A i \in DOMAIN W2 : W2[i].dat \in Nat
      /\ \A i \in DOMAIN R2 : R2[i].dat \in Nat
      /\ DOMAIN W2 \subseteq Int /\ DOMAIN R2 \subseteq Int
  <2>1. W2 \in Seq(Msg) /\ R2 \in Seq(Msg)
    BY <1>0 DEF TypeInv, TypeOK
  <2>2. /\ op'[w] \in OpState /\ fp'[r] \in FpState /\ usr'[r] \in UserState
        /\ inq'[r] \in Chan(Nat) /\ flow'[w] \in Flow /\ pending'[w] \in Nat
    BY DEF TypeInv, TypeOK
  <2>3. Taken(w)' \in Int
    BY <2>2 DEF Taken, OpState
  <2>4. Half * (flow'[w].n + pending'[w]) \in Int
    BY <2>2, HalfFacts DEF Flow
  <2>5. Allowed(w)' \in Int
    BY <2>2, <2>3, <2>4 DEF Allowed, OpState
  <2>6. usr'[r].seen \in Seq(Nat) /\ inq'[r].buf \in Seq(Nat) /\ fp'[r].n \in Nat
    BY <2>2, ChanFacts DEF UserState, FpState
  <2>7. Seen(r)' \in Nat
    BY <2>6 DEF Seen
  <2>8. Arrived(r)' \in Nat
    <3>1. Len(inq'[r].buf) \in Nat
      BY <2>6
    <3> QED
      BY <2>7, <3>1 DEF Arrived
  <2>9. /\ \A i \in DOMAIN W2 : W2[i] \in Msg
        /\ \A i \in DOMAIN R2 : R2[i] \in Msg
    BY <2>1
  <2>10. /\ \A i \in DOMAIN W2 : W2[i].dat \in Nat
         /\ \A i \in DOMAIN R2 : R2[i].dat \in Nat
    BY <2>9 DEF Msg
  <2> QED
    BY <2>1, <2>3, <2>5, <2>6, <2>7, <2>8, <2>10
<1>2. PICK k \in {0, 1} :
          \A i \in Slots(W2, t) : i + k \in Slots(W, t) /\ W2[i] = W[i + k]
  BY DEF Shrinks
<1>3. PICK j \in {0, 1} :
          \A i \in Slots(R2, t) : i + j \in Slots(R, t) /\ R2[i] = R[i + j]
  BY DEF Shrinks
<1>4. /\ Slots(W2, t) \subseteq Int /\ Slots(R2, t) \subseteq Int
      /\ \A i \in DataSlots(W2, t) : i + k \in DataSlots(W, t)
      /\ DataSlots(W2, t) \subseteq Slots(W2, t)
  BY <1>1, <1>2 DEF Slots, DataSlots
<1> HIDE DEF W, R, W2, R2
<1>5. Roles(t, w, r)'
  BY <1>3 DEF StreamInv, Roles, R, R2
<1>6. Firsts(t, w, r)'
  <2>1. /\ op[w].first /\ op[w].pc \notin {"drop", "done"}
              => fp[r].pc = "off" /\ Slots(W, t) = {}
        /\ \A i \in Slots(W, t) : W[i].first => fp[r].pc = "off"
        /\ \A i, n \in Slots(W, t) : i # n /\ W[i].first =>
              ~W[n].first /\ (W[n].kind = "data" => W[n].dat >= 2)
        /\ \A i \in Slots(W, t) : W[i].kind # "data" => op[w].pc \in {"drop", "done"}
    BY DEF StreamInv, Firsts, W
  <2>2. op'[w].first /\ op'[w].pc \notin {"drop", "done"}
            => fp'[r].pc = "off" /\ Slots(W2, t) = {}
    BY <1>2, <2>1
  <2>3. \A i \in Slots(W2, t) : W2[i].first => fp'[r].pc = "off"
    BY <1>2, <2>1
  <2>4. ASSUME NEW i \in Slots(W2, t), NEW n \in Slots(W2, t), i # n, W2[i].first
        PROVE  ~W2[n].first /\ (W2[n].kind = "data" => W2[n].dat >= 2)
    <3>1. i + k # n + k
      <4>1. i \in Int /\ n \in Int /\ k \in Int
        BY <1>4
      <4> QED
        BY <2>4, <4>1
    <3>2. /\ i + k \in Slots(W, t) /\ n + k \in Slots(W, t)
          /\ W2[i] = W[i + k] /\ W2[n] = W[n + k]
      BY <1>2
    <3> QED
      BY <2>1, <2>4, <3>1, <3>2
  <2>5. \A i \in Slots(W2, t) : W2[i].kind # "data" => op'[w].pc \in {"drop", "done"}
    BY <1>2, <2>1
  <2> QED
    BY <2>2, <2>3, <2>4, <2>5 DEF Firsts, W2
<1>7. Data(t, w, r)'
  <2>1. /\ \A i \in DataSlots(W, t) : /\ Arrived(r) < W[i].dat
                                      /\ W[i].dat <= Taken(w)
                                      /\ W[i].dat <= 2 * Half + Seen(r)
                                      /\ W[i].dat \in Nat
        /\ \A i, n \in DataSlots(W, t) : i < n => W[i].dat < W[n].dat
    BY <1>0 DEF StreamInv, Data, W, DataSlots, Slots
  <2>2. \A i \in DataSlots(W2, t) : W2[i] = W[i + k]
    BY <1>2, <1>4
  <2>3. \A i \in DataSlots(W2, t) : /\ Arrived(r)' < W2[i].dat
                                    /\ W2[i].dat <= Taken(w)'
                                    /\ W2[i].dat <= 2 * Half + Seen(r)'
    BY <1>0, <1>1, <1>4, <2>1, <2>2
  <2>4. \A i, n \in DataSlots(W2, t) : i < n => W2[i].dat < W2[n].dat
    BY <1>4, <2>1, <2>2
  <2>5. Delivering(r)' => /\ Arrived(r)' <= dm'[r[1]].dat
                          /\ dm'[r[1]].dat <= Taken(w)'
                          /\ dm'[r[1]].dat <= 2 * Half + Seen(r)'
    <3> SUFFICES ASSUME Delivering(r)' PROVE /\ Arrived(r)' <= dm'[r[1]].dat
                                             /\ dm'[r[1]].dat <= Taken(w)'
                                             /\ dm'[r[1]].dat <= 2 * Half + Seen(r)'
      OBVIOUS
    <3>1. /\ Delivering(r) /\ dm'[r[1]].dat = dm[r[1]].dat
          /\ Arrived(r)' <= Arrived(r) /\ Taken(w)' >= Taken(w) /\ Seen(r)' >= Seen(r)
      OBVIOUS
    <3>2. /\ Arrived(r) <= dm[r[1]].dat /\ dm[r[1]].dat <= Taken(w)
          /\ dm[r[1]].dat <= 2 * Half + Seen(r)
      BY <3>1 DEF StreamInv, Data
    <3>3. dm[r[1]].dat \in Nat
      BY <1>0, Numbers
    <3> QED
      BY <1>0, <1>1, <3>1, <3>2, <3>3
  <2>6. op'[w].pc \notin {"drop", "done"} => Arrived(r)' <= Taken(w)'
    <3>1. op[w].pc \notin {"drop", "done"} => Arrived(r) <= Taken(w)
      BY DEF StreamInv, Data
    <3> QED
      BY <1>0, <1>1, <3>1
  <2> QED
    BY <2>3, <2>4, <2>5, <2>6 DEF Data, W2
<1>8. Credit(t, w, r)'
  <2>1. /\ flow[w].open =>
              /\ Allowed(w) <= 2 * Half + Seen(r) - fp[r].n
              /\ \A i \in Slots(R, t) : R[i].dat >= Allowed(w) - Half
        /\ \A i \in Slots(R, t) : R[i].dat <= Seen(r) - fp[r].n /\ R[i].dat \in Nat
        /\ \A i, n \in Slots(R, t) : i < n => R[n].dat >= R[i].dat + Half
    BY <1>0 DEF StreamInv, Credit, R, Slots
  <2>2. flow'[w].open =>
              /\ Allowed(w)' <= 2 * Half + Seen(r)' - fp'[r].n
              /\ \A i \in Slots(R2, t) : R2[i].dat >= Allowed(w)' - Half
    BY <1>0, <1>1, <1>3, <2>1
  <2>3. \A i \in Slots(R2, t) : R2[i].dat <= Seen(r)' - fp'[r].n
    BY <1>0, <1>1, <1>3, <2>1
  <2>4. \A i, n \in Slots(R2, t) : i < n => R2[n].dat >= R2[i].dat + Half
    BY <1>3, <1>4, <2>1
  <2> QED
    BY <2>2, <2>3, <2>4 DEF Credit, R2
<1> QED
  BY <1>5, <1>6, <1>7, <1>8 DEF StreamInv

\* A step that changes nothing of the stream but, perhaps, to close it.
LEMMA Quiet ==
    ASSUME TypeInv, TypeInv',
           NEW t \in Tags, NEW w \in Ends, NEW r \in Ends, OneWay(t, w, r),
           StreamInv(t, w, r),
           Shrinks(wire'[w[1]], wire[w[1]], t),
           Shrinks(wire'[r[1]], wire[r[1]], t),
           op'[w] = op[w], op'[r].pc = op[r].pc,
           fp'[w].pc = fp[w].pc, fp'[r] = fp[r],
           flow'[w].n = flow[w].n, pending'[w] = pending[w],
           flow'[w].open => flow[w].open,
           ~flow'[w].open => ~flow[w].open \/ ~up'[w[1]],
           up'[w[1]] => up[w[1]],
           outq'[w].buf = outq[w].buf, usr'[w].sent = usr[w].sent,
           usr'[r].seen = usr[r].seen, inq'[r].buf = inq[r].buf,
           r \in mapped' => r \in mapped,
           dm'[w[1]].tag = t => dm'[w[1]].pc \notin {"accept", "deliver"},
           Delivering(r)' => Delivering(r) /\ dm'[r[1]].dat = dm[r[1]].dat
    PROVE  StreamInv(t, w, r)'
<1>0. Seen(r) \in Nat /\ Len(inq[r].buf) \in Nat /\ fp[r].n \in Nat /\ Taken(w) \in Int
  BY Numbers
<1>1. Taken(w)' = Taken(w) /\ Seen(r)' = Seen(r)
  BY DEF Taken, Seen
<1>2. Arrived(r)' <= Arrived(r)
  <2>1. Len(inq'[r].buf) = Len(inq[r].buf)
    OBVIOUS
  <2> QED
    BY <1>0, <1>1, <2>1 DEF Arrived
<1>3. Queue(w)'
  BY DEF StreamInv, Queue
<1>4. Allowed(w)' = Allowed(w)
  BY <1>1 DEF Allowed
<1>5. /\ Roles(t, w, r) /\ (~op[w].first => Taken(w) >= 1)
      /\ (~flow[w].open => ~up[w[1]] \/ op[w].pc = "done")
      /\ (fp[r].pc = "grant" => fp[r].n = Half)
  BY DEF StreamInv, Firsts, Credit
<1>6. fp[w].pc = "off" /\ op[r].pc = "off"
  BY <1>5 DEF Roles
<1>7. ~flow'[w].open => ~up'[w[1]] \/ op'[w].pc = "done"
  BY <1>5
<1>8. /\ Taken(w)' >= Taken(w) /\ Seen(r)' >= Seen(r)
      /\ Seen(r)' - fp'[r].n >= Seen(r) - fp[r].n
  BY <1>0, <1>1
<1> QED
  BY <1>1, <1>2, <1>3, <1>4, <1>5, <1>6, <1>7, <1>8, Frame

\* A step that does not use the device keeps the messages of t.
LEMMA WireSame ==
    ASSUME TypeInv, wire' = wire, NEW t
    PROVE  \A s \in Sides : Shrinks(wire'[s], wire[s], t)
BY SideTypes, SameShrinks

\* A step that writes for another stream keeps the messages of t.
LEMMA WireAppend ==
    ASSUME TypeInv, NEW z \in Sides, NEW m \in Msg, NEW t, m.tag # t,
           wire' = [wire EXCEPT ![z] = Append(wire[z], m)]
    PROVE  \A s \in Sides : Shrinks(wire'[s], wire[s], t)
<1> SUFFICES ASSUME NEW s \in Sides PROVE Shrinks(wire'[s], wire[s], t)
  OBVIOUS
<1>1. wire[s] \in Seq(Msg)
  BY SideTypes
<1>2. wire'[s] = IF s = z THEN Append(wire[s], m) ELSE wire[s]
  BY DEF TypeInv, TypeOK
<1> QED
  BY <1>1, <1>2, AppendShrinks, SameShrinks

\* A step that reads the device keeps the other messages of t.
LEMMA WireTail ==
    ASSUME TypeInv, NEW z \in Sides, ReadMsg(z), NEW t
    PROVE  \A s \in Sides : Shrinks(wire'[s], wire[s], t)
<1> SUFFICES ASSUME NEW s \in Sides PROVE Shrinks(wire'[s], wire[s], t)
  OBVIOUS
<1>1. wire[s] \in Seq(Msg)
  BY SideTypes
<1>2. /\ wire'[s] = IF s = Other(z) THEN Tail(wire[s]) ELSE wire[s]
      /\ s = Other(z) => wire[s] # <<>>
  BY EndsFacts DEF TypeInv, TypeOK, ReadMsg
<1> QED
  BY <1>1, <1>2, TailShrinks, SameShrinks

\* Taking a ticket moves Half of the credit to nmsgs.
LEMMA TicketCredit ==
    ASSUME TypeInv, NEW w \in Ends, TakeTicket(w), pending'[w] = pending[w]
    PROVE  /\ flow'[w].open = flow[w].open
           /\ flow[w].open => Half * (flow'[w].n + pending'[w])
                                 = Half * (flow[w].n + pending[w]) - Half
<1>0. flow[w] \in Flow /\ flow[w].n \in Nat /\ pending[w] \in Nat /\ Half \in Nat
  BY EndTypes, HalfFacts DEF Flow
<1>1. CASE flow' = flow /\ ~flow[w].open
  BY <1>1
<1>2. CASE flow' = [flow EXCEPT ![w].n = @ - 1]
  <2>1. flow'[w] = [flow[w] EXCEPT !.n = flow[w].n - 1]
    BY <1>2 DEF TypeInv, TypeOK
  <2>2. flow'[w].open = flow[w].open /\ flow'[w].n = flow[w].n - 1
    BY <1>0, <2>1 DEF Flow
  <2>3. \A a, h \in Int : h * (a - 1) = h * a - h
    OBVIOUS
  <2>4. flow'[w].n + pending'[w] = (flow[w].n + pending[w]) - 1
    BY <1>0, <2>2
  <2> QED
    BY <1>0, <2>2, <2>3, <2>4
<1> QED
  BY <1>1, <1>2 DEF TakeTicket

\* The parts of Quiet, by the variables they are about.
SameProcs(w, r) ==
    op'[w] = op[w] /\ op'[r] = op[r] /\ fp'[w] = fp[w] /\ fp'[r] = fp[r]
SameUsers(w, r) == usr'[w].sent = usr[w].sent /\ usr'[r].seen = usr[r].seen
SameChans(w, r) ==
    /\ flow'[w].n = flow[w].n /\ pending'[w] = pending[w]
    /\ outq'[w].buf = outq[w].buf /\ inq'[r].buf = inq[r].buf
Closing(w) ==
    /\ flow'[w].open => flow[w].open
    /\ ~flow'[w].open => ~flow[w].open \/ ~up'[w[1]]
    /\ up'[w[1]] => up[w[1]]
SameSides(t, w, r) ==
    /\ r \in mapped' => r \in mapped
    /\ dm'[w[1]].tag = t => dm'[w[1]].pc \notin {"accept", "deliver"}
    /\ Delivering(r)' => Delivering(r) /\ dm'[r[1]].dat = dm[r[1]].dat
SameWires(t) == \A s \in Sides : Shrinks(wire'[s], wire[s], t)

\* Steps that leave a stream alone, but for closing it, keep its invariant.
LEMMA Untouched ==
    ASSUME TypeInv, TypeInv',
           NEW t \in Tags, NEW w \in Ends, NEW r \in Ends, OneWay(t, w, r),
           StreamInv(t, w, r),
           SameProcs(w, r), SameUsers(w, r), SameChans(w, r), Closing(w),
           SameSides(t, w, r), SameWires(t)
    PROVE  StreamInv(t, w, r)'
<1>1. w[1] \in Sides /\ r[1] \in Sides
  BY StreamFacts
<1> QED
  BY <1>1, Quiet
     DEF SameProcs, SameUsers, SameChans, Closing, SameSides, SameWires

\* demux and the map of tags are as before for a stream that only closes.
LEMMA SidesKept ==
    ASSUME NEW t, NEW w, NEW r, StreamInv(t, w, r), dm' = dm, mapped' \subseteq mapped
    PROVE  SameSides(t, w, r)
BY DEF StreamInv, Roles, SameSides, Delivering

\* closeConn of another end, or of the reader's, or of the writer's once the
\* device is closed.
LEMMA ConnsClosed ==
    ASSUME TypeInv, TypeInv', NEW S \in SUBSET Ends, NEW b, CloseConns(S, b),
           NEW w \in Ends, NEW r \in Ends, pending' = pending,
           w \in S => ~up'[w[1]], up'[w[1]] => up[w[1]]
    PROVE  SameChans(w, r) /\ Closing(w) /\ mapped' \subseteq mapped
<1>1. /\ flow'[w] = IF w \in S THEN [flow[w] EXCEPT !.open = FALSE] ELSE flow[w]
      /\ mapped' \subseteq mapped
      /\ outq'[w] = IF w \in S THEN CloseChan(outq[w], b) ELSE outq[w]
      /\ inq'[r] = IF r \in S THEN CloseChan(inq[r], b) ELSE inq[r]
  BY DEF CloseConns
<1>2. flow'[w].n = flow[w].n /\ (w \notin S => flow'[w] = flow[w])
      /\ (w \in S => ~flow'[w].open)
  BY <1>1, EndTypes DEF Flow
<1>3. outq'[w].buf = outq[w].buf /\ inq'[r].buf = inq[r].buf
  BY <1>1 DEF CloseChan
<1> QED
  BY <1>1, <1>2, <1>3 DEF SameChans, Closing

\* out of another stream.
LEMMA OutOther ==
    ASSUME TypeInv, TypeInv',
           NEW t \in Tags, NEW w \in Ends, NEW r \in Ends, OneWay(t, w, r),
           StreamInv(t, w, r), NEW e \in Ends, e # w,
           \/ OutFirst(e) \/ OutRecv(e) \/ OutCredit(e)
           \/ OutWrite(e) \/ OutEnd(e) \/ OutDrop(e)
    PROVE  StreamInv(t, w, r)'
<1>1. e # r /\ e[2] # t /\ e[1] \in Sides
  <2>1. op[r].pc = "off" /\ op[e].pc # "off"
    BY DEF StreamInv, Roles, OutFirst, OutRecv, OutCredit, OutWrite, OutEnd, OutDrop
  <2>2. e # r
    BY <2>1
  <2>3. \A x \in Ends : x[2] = t => x \in {w, r}
    BY StreamFacts
  <2> QED
    BY <2>2, <2>3, EndsFacts
<1>2. SameProcs(w, r) /\ SameUsers(w, r)
  <2>1. op'[w] = op[w] /\ op'[r] = op[r]
    BY <1>1 DEF TypeInv, TypeOK, OutFirst, OutRecv, OutCredit, OutWrite, OutEnd, OutDrop
  <2>2. fp' = fp /\ usr' = usr
    BY DEF OutFirst, OutRecv, OutCredit, OutWrite, OutEnd, OutDrop
  <2> QED
    BY <2>1, <2>2 DEF SameProcs, SameUsers
<1>3. SameChans(w, r) /\ Closing(w) /\ SameSides(t, w, r)
  <2>1. CASE OutDrop(e)
    <3>1. CloseConns({e}, op[e].bad) /\ pending' = pending /\ up' = up /\ dm' = dm
      BY <2>1 DEF OutDrop, device
    <3>2. {e} \in SUBSET Ends /\ w \notin {e}
      OBVIOUS
    <3> QED
      BY <3>1, <3>2, ConnsClosed, SidesKept
  <2>2. CASE ~OutDrop(e)
    <3>1. mapped' = mapped /\ dm' = dm /\ up' = up /\ inq' = inq /\ pending' = pending
      BY <2>2 DEF OutFirst, OutRecv, OutCredit, OutWrite, OutEnd, device, muxes, chans
    <3>2. flow'[w] = flow[w] /\ outq'[w] = outq[w]
      BY <2>2
         DEF TypeInv, TypeOK, OutFirst, OutRecv, OutCredit, OutWrite, OutEnd,
             TakeTicket, chans
    <3> QED
      BY <3>1, <3>2, SidesKept DEF SameChans, Closing
  <2> QED
    BY <2>1, <2>2
<1>4. SameWires(t)
  <2> DEFINE d == DataMsg(e, op[e].first, op[e].msg)
             n == EndMsg(e, op[e].first, outq[e].bad)
  <2>1. \/ wire' = wire
        \/ wire' = [wire EXCEPT ![e[1]] = Append(wire[e[1]], d)]
        \/ wire' = [wire EXCEPT ![e[1]] = Append(wire[e[1]], n)]
    BY DEF OutFirst, OutRecv, OutCredit, OutWrite, OutEnd, OutDrop, device
  <2>2. d \in Msg /\ n \in Msg /\ d.tag # t /\ n.tag # t
    <3>1. op[e] \in OpState /\ outq[e].bad \in BOOLEAN /\ e[2] \in Tags
      BY EndTypes, ChanFacts, EndsFacts
    <3> QED
      BY <1>1, <3>1 DEF DataMsg, EndMsg, Msg, OpState
  <2> HIDE DEF d, n
  <2> QED
    BY <1>1, <2>1, <2>2, WireSame, WireAppend DEF SameWires
<1> QED
  BY <1>2, <1>3, <1>4, Untouched

\* out of this stream, but for what it writes.
LEMMA OutQuiet ==
    ASSUME TypeInv, TypeInv',
           NEW t \in Tags, NEW w \in Ends, NEW r \in Ends, OneWay(t, w, r),
           StreamInv(t, w, r),
           OutFirst(w) \/ OutRecv(w) \/ OutCredit(w) \/ OutDrop(w)
    PROVE  StreamInv(t, w, r)'
<1>0. /\ w[1] \in Sides /\ r[1] \in Sides /\ w # r
      /\ op[w] \in OpState /\ op[w].msg \in Nat /\ op[w].n \in Nat
      /\ outq[w].buf \in Seq(Nat) /\ Half \in Nat
      /\ Half * (flow[w].n + pending[w]) \in Int /\ Taken(w) \in Int
      /\ Seen(r) \in Nat /\ fp[r].n \in Nat /\ Arrived(r) \in Nat
  <2>1. w[1] \in Sides /\ r[1] \in Sides /\ w # r
    BY StreamFacts
  <2>2. op[w] \in OpState /\ outq[w].buf \in Seq(Nat)
    BY EndTypes, ChanFacts
  <2>3. /\ op[w].msg \in Nat /\ op[w].n \in Nat /\ Taken(w) \in Int
        /\ flow[w].n \in Nat /\ pending[w] \in Nat
        /\ Seen(r) \in Nat /\ fp[r].n \in Nat /\ Arrived(r) \in Nat
    BY Numbers
  <2>4. Half * (flow[w].n + pending[w]) \in Int
    BY <2>3, HalfFacts
  <2> QED
    BY <2>1, <2>2, <2>3, <2>4, HalfFacts
<1>1. /\ fp' = fp /\ usr' = usr /\ pending' = pending /\ dm' = dm /\ wire' = wire
      /\ up' = up /\ mapped' \subseteq mapped /\ inq'[r] = inq[r] /\ op'[r] = op[r]
  BY <1>0 DEF OutFirst, OutRecv, OutCredit, OutDrop, CloseConns, device, muxes, chans,
              TypeInv, TypeOK
<1>2. Seen(r)' = Seen(r) /\ Arrived(r)' = Arrived(r) /\ (Delivering(r)' <=> Delivering(r))
  BY <1>1 DEF Seen, Arrived, Delivering
<1>3. SameWires(t)
  BY <1>1, WireSame DEF SameWires
<1>4. /\ Roles(t, w, r) /\ (~op[w].first => Taken(w) >= 1) /\ Queue(w)
      /\ (~flow[w].open => ~up[w[1]] \/ op[w].pc = "done")
      /\ (fp[r].pc = "grant" => fp[r].n = Half)
  BY DEF StreamInv, Firsts, Credit
<1>5. /\ Taken(w)' = Taken(w) /\ op'[w].first = op[w].first /\ Queue(w)'
      /\ op[w].pc \notin {"drop", "done"} \/ op'[w].pc = "done"
      /\ ~flow'[w].open => ~up'[w[1]] \/ op'[w].pc = "done"
      /\ flow'[w].open => flow[w].open /\ Allowed(w)' = Allowed(w)
  <2>1. CASE OutFirst(w)
    <3>1. /\ op[w].pc = "first"
          /\ op'[w] = [op[w] EXCEPT !.pc = "recv", !.n = Half]
          /\ outq' = outq
      BY <2>1 DEF OutFirst, TypeInv, TypeOK
    <3>2. /\ op'[w].pc = "recv" /\ op'[w].n = Half
          /\ op'[w].msg = op[w].msg /\ op'[w].first = op[w].first
      BY <1>0, <3>1 DEF OpState
    <3>3. op[w].n = 0
      BY <1>4, <3>1 DEF Queue
    <3>4. /\ flow'[w].open = flow[w].open
          /\ flow[w].open => Half * (flow'[w].n + pending'[w])
                                 = Half * (flow[w].n + pending[w]) - Half
      BY <1>1, <2>1, TicketCredit DEF OutFirst
    <3>5. Taken(w)' = Taken(w)
      BY <3>1, <3>2 DEF Taken
    <3>6. flow[w].open => Allowed(w)' = Allowed(w)
      BY <1>0, <3>2, <3>3, <3>4, <3>5 DEF Allowed
    <3>7. Queue(w)'
      BY <1>1, <1>4, <3>1, <3>2 DEF Queue
    <3> QED
      BY <1>1, <1>4, <3>1, <3>2, <3>4, <3>5, <3>6, <3>7
  <2>2. CASE OutCredit(w)
    <3>1. /\ op[w].pc = "credit"
          /\ op'[w] = [op[w] EXCEPT !.pc = "write", !.n = op[w].n + Half]
          /\ outq' = outq
      BY <2>2 DEF OutCredit, TypeInv, TypeOK
    <3>2. /\ op'[w].pc = "write" /\ op'[w].n = op[w].n + Half
          /\ op'[w].msg = op[w].msg /\ op'[w].first = op[w].first
      BY <1>0, <3>1 DEF OpState
    <3>4. /\ flow'[w].open = flow[w].open
          /\ flow[w].open => Half * (flow'[w].n + pending'[w])
                                 = Half * (flow[w].n + pending[w]) - Half
      BY <1>1, <2>2, TicketCredit DEF OutCredit
    <3>5. Taken(w)' = Taken(w)
      BY <3>1, <3>2 DEF Taken
    <3>6. flow[w].open => Allowed(w)' = Allowed(w)
      BY <1>0, <3>2, <3>4, <3>5 DEF Allowed
    <3>7. Queue(w)'
      BY <1>1, <1>4, <3>1, <3>2 DEF Queue
    <3> QED
      BY <1>1, <1>4, <3>1, <3>2, <3>4, <3>5, <3>6, <3>7
  <2>3. CASE OutDrop(w)
    <3>1. /\ op[w].pc = "drop"
          /\ op'[w] = [op[w] EXCEPT !.pc = "done"]
          /\ outq'[w] = CloseChan(outq[w], op[w].bad)
          /\ flow'[w] = [flow[w] EXCEPT !.open = FALSE]
      BY <2>3 DEF OutDrop, CloseConns, TypeInv, TypeOK
    <3>2. /\ op'[w].pc = "done" /\ op'[w].n = op[w].n
          /\ op'[w].msg = op[w].msg /\ op'[w].first = op[w].first
      BY <1>0, <3>1 DEF OpState
    <3>3. ~flow'[w].open
      BY <3>1, EndTypes DEF Flow
    <3>4. outq'[w].buf = outq[w].buf
      BY <3>1 DEF CloseChan
    <3>5. Taken(w)' = Taken(w)
      BY <3>1, <3>2 DEF Taken
    <3>7. Queue(w)'
      BY <1>1, <1>4, <3>1, <3>2, <3>4 DEF Queue
    <3> QED
      BY <3>2, <3>3, <3>5, <3>7
  <2>4. CASE OutRecv(w)
    <3>1. flow' = flow /\ op[w].pc = "recv"
      BY <2>4 DEF OutRecv
    <3>2. CASE outq[w].buf # <<>>
      <4> DEFINE h == Head(outq[w].buf)
      <4>1. /\ outq'[w] = Pop(outq[w])
            /\ op'[w] = [op[w] EXCEPT !.msg = h,
                            !.pc = IF NoCredit(w) THEN "credit" ELSE "write"]
        BY <2>4, <3>2 DEF OutRecv, Drained, TypeInv, TypeOK
      <4>2. h = op[w].msg + 1
        BY <1>0, <1>4, <3>2 DEF Queue
      <4>3. /\ op'[w].msg = op[w].msg + 1 /\ op'[w].n = op[w].n
            /\ op'[w].pc \in {"credit", "write"} /\ op'[w].first = op[w].first
        BY <1>0, <4>1, <4>2 DEF OpState
      <4>4. outq'[w].buf = Tail(outq[w].buf)
        BY <4>1, EndTypes, ChanFacts
      <4>5. Taken(w)' = Taken(w)
        BY <1>0, <3>1, <4>3 DEF Taken
      <4>6. Queue(w)'
        <5>1. /\ Len(outq'[w].buf) = Len(outq[w].buf) - 1
              /\ \A i \in 1..Len(outq'[w].buf) : outq'[w].buf[i] = outq[w].buf[i + 1]
              /\ Len(outq[w].buf) \in Nat
          BY <1>0, <3>2, <4>4
        <5>2. ASSUME NEW i \in 1..Len(outq'[w].buf)
              PROVE  outq'[w].buf[i] = op'[w].msg + i
          <6>1. i + 1 \in 1..Len(outq[w].buf) /\ i \in Nat
            BY <5>1
          <6>2. outq[w].buf[i + 1] = op[w].msg + (i + 1)
            BY <1>4, <6>1 DEF Queue
          <6>3. outq'[w].buf[i] = outq[w].buf[i + 1]
            BY <5>1
          <6>4. op[w].msg + (i + 1) = op'[w].msg + i
            <7>1. op[w].msg \in Nat /\ op'[w].msg = op[w].msg + 1
              BY <1>0, <4>3
            <7> QED
              BY <6>1, <7>1
          <6> QED
            BY <6>2, <6>3, <6>4
        <5>3. usr'[w].sent = op'[w].msg + Len(outq'[w].buf)
          <6>1. usr[w].sent = op[w].msg + Len(outq[w].buf)
            BY <1>4 DEF Queue
          <6>2. op[w].msg \in Nat /\ op'[w].msg = op[w].msg + 1 /\ usr' = usr
            BY <1>0, <1>1, <4>3
          <6>3. \A a, b \in Nat : a + b = (a + 1) + (b - 1)
            OBVIOUS
          <6>4. op[w].msg + Len(outq[w].buf) = (op[w].msg + 1) + (Len(outq[w].buf) - 1)
            BY <5>1, <6>2, <6>3
          <6> QED
            BY <5>1, <6>1, <6>2, <6>4, Zenon
        <5>4. op'[w].pc \notin {"off", "first"} /\ op'[w].msg >= 1
          BY <1>0, <4>3
        <5> QED
          BY <5>2, <5>3, <5>4 DEF Queue
      <4>7. Allowed(w)' = Allowed(w)
        BY <1>1, <3>1, <4>3, <4>5 DEF Allowed
      <4> QED
        BY <1>1, <1>4, <3>1, <4>3, <4>5, <4>6, <4>7
    <3>3. CASE outq[w].buf = <<>>
      <4>1. outq' = outq /\ op'[w] = [op[w] EXCEPT !.pc = "end"]
        BY <2>4, <3>3 DEF OutRecv, TypeInv, TypeOK
      <4>2. /\ op'[w].msg = op[w].msg /\ op'[w].n = op[w].n
            /\ op'[w].pc = "end" /\ op'[w].first = op[w].first
        BY <1>0, <4>1 DEF OpState
      <4>3. Taken(w)' = Taken(w)
        BY <3>1, <4>2 DEF Taken
      <4>4. Queue(w)'
        BY <1>1, <1>4, <3>1, <4>1, <4>2 DEF Queue
      <4>5. Allowed(w)' = Allowed(w)
        BY <1>1, <3>1, <4>2, <4>3 DEF Allowed
      <4> QED
        BY <1>1, <1>4, <3>1, <4>2, <4>3, <4>4, <4>5
    <3> QED
      BY <3>2, <3>3
  <2> QED
    BY <2>1, <2>2, <2>3, <2>4
<1>6. /\ fp'[w].pc = "off" /\ op'[r].pc = "off"
      /\ dm'[w[1]].tag = t => dm'[w[1]].pc \notin {"accept", "deliver"}
  BY <1>1, <1>4 DEF Roles
<1>7. /\ Taken(w)' >= Taken(w) /\ Arrived(r)' <= Arrived(r) /\ Seen(r)' >= Seen(r)
      /\ Seen(r)' - fp'[r].n >= Seen(r) - fp[r].n
  BY <1>0, <1>1, <1>2, <1>5
<1>8. op[w].pc \in {"drop", "done"} => op'[w].pc \in {"drop", "done"}
  BY <1>5
<1> QED
  BY <1>0, <1>1, <1>2, <1>3, <1>4, <1>5, <1>6, <1>7, <1>8, Frame DEF SameWires

\* q2 is q with m, a message for t, in its last position k.
Grows(q2, q, t, m, k) ==
    /\ k \in Nat /\ Slots(q2, t) = Slots(q, t) \cup {k} /\ q2[k] = m
    /\ \A i \in Slots(q, t) : i \in Nat /\ i < k /\ q2[i] = q[i]
    /\ DataSlots(q, t) \subseteq Slots(q, t)
    /\ DataSlots(q2, t) \subseteq DataSlots(q, t) \cup {k}
    /\ m.kind # "data" => DataSlots(q2, t) \subseteq DataSlots(q, t)

\* Writing a message adds it behind the others of its stream.
LEMMA AppendGrows ==
    ASSUME NEW q \in Seq(Msg), NEW m \in Msg
    PROVE  Grows(Append(q, m), q, m.tag, m, Len(q) + 1)
<1> DEFINE q2 == Append(q, m)
           k == Len(q) + 1
           t == m.tag
<1>1. /\ k \in Nat /\ DOMAIN q2 = DOMAIN q \cup {k} /\ q2[k] = m
      /\ \A i \in DOMAIN q : i \in Nat /\ i < k /\ q2[i] = q[i]
  OBVIOUS
<1> HIDE DEF q2, k
<1>2. Slots(q2, t) = Slots(q, t) \cup {k}
  BY <1>1 DEF Slots
<1>3. \A i \in Slots(q, t) : i \in Nat /\ i < k /\ q2[i] = q[i]
  BY <1>1 DEF Slots
<1>4. /\ DataSlots(q, t) \subseteq Slots(q, t)
      /\ DataSlots(q2, t) \subseteq DataSlots(q, t) \cup {k}
      /\ m.kind # "data" => DataSlots(q2, t) \subseteq DataSlots(q, t)
  BY <1>1, <1>2, <1>3 DEF DataSlots
<1>5. Grows(q2, q, t, m, k)
  BY <1>1, <1>2, <1>3, <1>4 DEF Grows
<1> QED
  BY <1>5 DEF q2, k

\* out writes a message of this stream.
LEMMA WriterSends ==
    ASSUME TypeInv, TypeInv',
           NEW t \in Tags, NEW w \in Ends, NEW r \in Ends, OneWay(t, w, r),
           StreamInv(t, w, r),
           NEW m \in Msg, m.tag = t, m.kind # "flow",
           wire' = [wire EXCEPT ![w[1]] = Append(wire[w[1]], m)],
           op'[r] = op[r], fp' = fp, usr' = usr, dm' = dm, mapped' = mapped,
           inq' = inq, flow' = flow, up' = up,
           op[w].pc \notin {"drop", "done"},
           m.first = op[w].first,
           op'[w].first => op'[w].pc \in {"drop", "done"},
           ~op'[w].first => Taken(w)' >= 1,
           Taken(w)' >= Taken(w),
           m.kind = "data" => /\ m.dat = Taken(w) + 1 /\ m.dat = Taken(w)'
                              /\ m.dat <= 2 * Half + Seen(r),
           m.kind = "end" => op'[w].pc \in {"drop", "done"},
           Queue(w)', flow[w].open, Allowed(w)' = Allowed(w)
    PROVE  StreamInv(t, w, r)'
<1> DEFINE W == wire[w[1]]
           W2 == wire'[w[1]]
           k == Len(W) + 1
<1>0. /\ w[1] \in Sides /\ r[1] \in Sides /\ w[1] # r[1] /\ W \in Seq(Msg)
      /\ Taken(w) \in Int /\ Allowed(w) \in Int /\ Seen(r) \in Nat
      /\ Arrived(r) \in Nat /\ fp[r].n \in Nat /\ Half \in Nat /\ m.dat \in Nat
      /\ \A i \in DOMAIN W : W[i].dat \in Nat
      /\ dm[r[1]].dat \in Nat /\ Taken(w)' \in Int
  <2>1. w[1] \in Sides /\ r[1] \in Sides /\ w[1] # r[1]
    BY StreamFacts
  <2>2. W \in Seq(Msg)
    BY <2>1, SideTypes
  <2>3. m.dat \in Nat
    BY DEF Msg
  <2>4. op'[w].msg \in Nat
    BY DEF TypeInv, TypeOK, OpState
  <2>5. Taken(w)' \in Int
    BY <2>4 DEF Taken
  <2> QED
    BY <2>1, <2>2, <2>3, <2>5, Numbers, HalfFacts
<1>1. W2 = Append(W, m) /\ wire'[r[1]] = wire[r[1]]
  BY <1>0 DEF TypeInv, TypeOK
<1> HIDE DEF W, W2, k
<1>2. /\ k \in Nat /\ Slots(W2, t) = Slots(W, t) \cup {k} /\ W2[k] = m
      /\ \A i \in Slots(W, t) : i \in Nat /\ i < k /\ W2[i] = W[i]
      /\ DataSlots(W, t) \subseteq Slots(W, t)
      /\ DataSlots(W2, t) \subseteq DataSlots(W, t) \cup {k}
      /\ m.kind # "data" => DataSlots(W2, t) \subseteq DataSlots(W, t)
  <2>1. Grows(Append(W, m), W, m.tag, m, Len(W) + 1)
    BY <1>0, AppendGrows
  <2>2. Grows(W2, W, t, m, k)
    BY <1>1, <2>1 DEF k
  <2> QED
    BY <2>2 DEF Grows
<1>3. Slots(W, t) \subseteq DOMAIN W
  BY DEF Slots
<1>4. /\ Seen(r)' = Seen(r) /\ Arrived(r)' = Arrived(r)
      /\ Delivering(r)' = Delivering(r)
  BY DEF Seen, Arrived, Delivering
<1>5. Roles(t, w, r)'
  BY <1>1, <1>4 DEF StreamInv, Roles
<1>6. Firsts(t, w, r)'
  <2>1. /\ op[w].first => fp[r].pc = "off" /\ Slots(W, t) = {}
        /\ ~op[w].first => Taken(w) >= 1
        /\ \A i \in Slots(W, t) : W[i].first => fp[r].pc = "off"
        /\ \A i, n \in Slots(W, t) : i # n /\ W[i].first =>
              ~W[n].first /\ (W[n].kind = "data" => W[n].dat >= 2)
        /\ \A i \in Slots(W, t) : W[i].kind # "data" => op[w].pc \in {"drop", "done"}
    BY DEF StreamInv, Firsts, W
  <2>2. \A i \in Slots(W2, t) : W2[i].first => fp'[r].pc = "off"
    BY <1>2, <2>1
  <2>3. \A i \in Slots(W2, t) : W2[i].kind # "data" => op'[w].pc \in {"drop", "done"}
    BY <1>2, <2>1 DEF Msg
  <2>4. ASSUME NEW i \in Slots(W2, t), NEW n \in Slots(W2, t), i # n, W2[i].first
        PROVE  ~W2[n].first /\ (W2[n].kind = "data" => W2[n].dat >= 2)
    <3>1. CASE op[w].first
      BY <1>2, <2>1, <2>4, <3>1
    <3>2. CASE ~op[w].first
      <4>1. i \in Slots(W, t) /\ W2[i] = W[i]
        BY <1>2, <2>4, <3>2
      <4>2. CASE n \in Slots(W, t)
        BY <1>2, <2>1, <2>4, <4>1, <4>2
      <4>3. CASE n = k
        <5>1. m.kind = "data" => m.dat >= 2
          BY <1>0, <2>1, <3>2
        <5> QED
          BY <1>2, <3>2, <4>3, <5>1
      <4> QED
        BY <1>2, <4>2, <4>3
    <3> QED
      BY <3>1, <3>2
  <2> QED
    BY <2>2, <2>3, <2>4 DEF Firsts, W2
<1>7. Data(t, w, r)'
  <2>1. /\ Arrived(r) <= Taken(w)
        /\ \A i \in DataSlots(W, t) : /\ Arrived(r) < W[i].dat
                                      /\ W[i].dat <= Taken(w)
                                      /\ W[i].dat <= 2 * Half + Seen(r)
                                      /\ W[i].dat \in Nat
        /\ \A i, n \in DataSlots(W, t) : i < n => W[i].dat < W[n].dat
        /\ Delivering(r) => /\ Arrived(r) <= dm[r[1]].dat
                            /\ dm[r[1]].dat <= Taken(w)
                            /\ dm[r[1]].dat <= 2 * Half + Seen(r)
    BY <1>0, <1>2, <1>3 DEF StreamInv, Data, W
  <2>2. \A i \in DataSlots(W2, t) : \/ i \in DataSlots(W, t) /\ W2[i] = W[i] /\ i < k
                                    \/ i = k /\ W2[i] = m /\ m.kind = "data"
    BY <1>2
  <2>3. m.kind = "data" => /\ Arrived(r) < m.dat /\ m.dat <= Taken(w)'
                           /\ m.dat <= 2 * Half + Seen(r) /\ Taken(w) < m.dat
    BY <1>0, <2>1
  <2>4. \A i \in DataSlots(W2, t) : /\ Arrived(r)' < W2[i].dat
                                    /\ W2[i].dat <= Taken(w)'
                                    /\ W2[i].dat <= 2 * Half + Seen(r)'
    <3>1. \A i \in DataSlots(W, t) : W[i].dat <= Taken(w)'
      BY <1>0, <2>1
    <3> QED
      BY <1>4, <2>1, <2>2, <2>3, <3>1
  <2>5. ASSUME NEW i \in DataSlots(W2, t), NEW n \in DataSlots(W2, t), i < n
        PROVE  W2[i].dat < W2[n].dat
    <3>1. CASE n \in DataSlots(W, t)
      <4>1. i # k
        BY <1>2, <2>5, <3>1
      <4>2. i \in DataSlots(W, t) /\ W2[i] = W[i] /\ W2[n] = W[n]
        BY <1>2, <2>2, <3>1, <4>1
      <4> QED
        BY <2>1, <2>5, <3>1, <4>2
    <3>2. CASE n = k /\ W2[n] = m /\ m.kind = "data"
      <4>1. i \in DataSlots(W, t) /\ W2[i] = W[i]
        BY <1>2, <2>2, <2>5, <3>2
      <4>2. W[i].dat <= Taken(w) /\ W[i].dat \in Nat
        BY <2>1, <4>1
      <4> QED
        BY <1>0, <2>3, <3>2, <4>1, <4>2
    <3> QED
      BY <2>2, <3>1, <3>2
  <2>6. Delivering(r)' => /\ Arrived(r)' <= dm'[r[1]].dat
                          /\ dm'[r[1]].dat <= Taken(w)'
                          /\ dm'[r[1]].dat <= 2 * Half + Seen(r)'
    BY <1>0, <1>4, <2>1
  <2>7. Arrived(r)' <= Taken(w)'
    BY <1>0, <1>4, <2>1
  <2> QED
    BY <2>4, <2>5, <2>6, <2>7 DEF Data, W2
<1>8. Credit(t, w, r)'
  BY <1>1, <1>4 DEF StreamInv, Credit
<1> QED
  BY <1>5, <1>6, <1>7, <1>8 DEF StreamInv

\* out writes the message it took.
LEMMA OutWrites ==
    ASSUME TypeInv, TypeInv',
           NEW t \in Tags, NEW w \in Ends, NEW r \in Ends, OneWay(t, w, r),
           StreamInv(t, w, r), OutWrite(w)
    PROVE  StreamInv(t, w, r)'
<1>0. /\ w[1] \in Sides /\ r[1] \in Sides /\ w # r /\ w[2] = t
      /\ op[w] \in OpState /\ op[w].msg \in Nat /\ op[w].n \in Nat /\ Half \in Nat
      /\ Seen(r) \in Nat /\ fp[r].n \in Nat /\ Arrived(r) \in Nat /\ Taken(w) \in Int
      /\ op[w].n >= 1 /\ op[w].pc = "write"
  <2>1. w[1] \in Sides /\ r[1] \in Sides /\ w # r /\ w[2] = t
    BY StreamFacts
  <2>2. op[w].n >= 1 /\ op[w].pc = "write"
    BY DEF OutWrite, TypeInv
  <2> QED
    BY <2>1, <2>2, EndTypes, Numbers, HalfFacts
<1>1. /\ fp' = fp /\ usr' = usr /\ pending' = pending /\ dm' = dm /\ flow' = flow
      /\ up' = up /\ mapped' = mapped /\ inq' = inq /\ op'[r] = op[r]
  BY <1>0 DEF OutWrite, muxes, TypeInv, TypeOK
<1>2. /\ Roles(t, w, r) /\ Queue(w) /\ (fp[r].pc = "grant" => fp[r].n = Half)
      /\ (~flow[w].open => ~up[w[1]])
      /\ (flow[w].open => Allowed(w) <= 2 * Half + Seen(r) - fp[r].n)
  BY <1>0 DEF StreamInv, Credit
<1>3. op[w].msg >= 1 /\ Taken(w) = op[w].msg - 1
  BY <1>0, <1>2 DEF Queue, Taken
<1>4. /\ op'[w].msg = op[w].msg /\ op'[w].n = op[w].n - 1
      /\ op'[w].pc \in {"recv", "end"} /\ outq'[w].buf = outq[w].buf
  <2>1. \/ op'[w] = [op[w] EXCEPT !.pc = "recv", !.n = op[w].n - 1]
        \/ op'[w] = [op[w] EXCEPT !.pc = "recv", !.n = op[w].n - 1, !.first = FALSE]
        \/ op'[w] = [op[w] EXCEPT !.pc = "end", !.n = op[w].n - 1, !.first = FALSE]
    BY DEF OutWrite, TypeInv, TypeOK
  <2>2. \/ outq'[w] = outq[w]
        \/ outq'[w] = CloseChan(outq[w], TRUE)
    BY DEF OutWrite, TypeInv, TypeOK
  <2>3. outq'[w].buf = outq[w].buf
    BY <2>2 DEF CloseChan
  <2> QED
    BY <1>0, <2>1, <2>3 DEF OpState
<1>5. Taken(w)' = op[w].msg /\ Taken(w)' = Taken(w) + 1
  BY <1>0, <1>3, <1>4 DEF Taken
<1>6. Queue(w)'
  BY <1>1, <1>2, <1>4 DEF Queue
<1>7. Allowed(w)' = Allowed(w)
  <2>1. Half * (flow[w].n + pending[w]) \in Int
    BY <1>0, Numbers
  <2>2. Half * (flow'[w].n + pending'[w]) = Half * (flow[w].n + pending[w])
    BY <1>1
  <2> QED
    BY <1>0, <1>4, <1>5, <2>1, <2>2 DEF Allowed
<1>8. /\ Seen(r)' = Seen(r) /\ Arrived(r)' = Arrived(r)
      /\ (Delivering(r)' <=> Delivering(r))
  BY <1>1 DEF Seen, Arrived, Delivering
<1>9. CASE wire' = wire
  <2>1. SameWires(t)
    BY <1>9, WireSame DEF SameWires
  <2>2. op'[w].first => op[w].first
    <3>1. \/ op'[w] = [op[w] EXCEPT !.pc = "recv", !.n = op[w].n - 1]
          \/ op'[w] = [op[w] EXCEPT !.pc = "recv", !.n = op[w].n - 1, !.first = FALSE]
          \/ op'[w] = [op[w] EXCEPT !.pc = "end", !.n = op[w].n - 1, !.first = FALSE]
      BY DEF OutWrite, TypeInv, TypeOK
    <3> QED
      BY <1>0, <3>1 DEF OpState
  <2>3. /\ Taken(w)' >= Taken(w) /\ Taken(w)' >= 1
        /\ Arrived(r)' <= Arrived(r) /\ Seen(r)' >= Seen(r)
        /\ Seen(r)' - fp'[r].n >= Seen(r) - fp[r].n
    BY <1>0, <1>1, <1>3, <1>5, <1>8
  <2>4. /\ fp'[w].pc = "off" /\ op'[r].pc = "off"
        /\ dm'[w[1]].tag = t => dm'[w[1]].pc \notin {"accept", "deliver"}
    BY <1>1, <1>2 DEF Roles
  <2>5. op[w].pc \notin {"drop", "done"}
    BY <1>0
  <2> QED
    BY <1>0, <1>1, <1>2, <1>6, <1>7, <1>8, <2>1, <2>2, <2>3, <2>4, <2>5, Frame
       DEF SameWires
<1>10. CASE wire' # wire
  <2> DEFINE m == DataMsg(w, op[w].first, op[w].msg)
  <2>1. /\ wire' = [wire EXCEPT ![w[1]] = Append(wire[w[1]], m)]
        /\ op'[w] = [op[w] EXCEPT !.pc = "recv", !.n = op[w].n - 1, !.first = FALSE]
        /\ CanWrite(w[1])
    BY <1>10 DEF OutWrite, TypeInv, TypeOK
  <2>2. /\ m \in Msg /\ m.tag = t /\ m.kind = "data" /\ m.dat = op[w].msg
        /\ m.first = op[w].first
    <3>1. w[2] \in Tags /\ op[w].first \in BOOLEAN
      BY <1>0 DEF OpState
    <3> QED
      BY <1>0, <3>1 DEF DataMsg, Msg
  <2> HIDE DEF m
  <2>3. ~op'[w].first
    BY <1>0, <2>1 DEF OpState
  <2>4. flow[w].open
    BY <1>2, <2>1 DEF CanWrite
  <2>5. Taken(w) + 1 <= Allowed(w)
    <3>1. flow[w].n + pending[w] \in Nat
      BY Numbers
    <3>2. \A a, b \in Nat : a * b >= 0 /\ a * b \in Int
      OBVIOUS
    <3>3. Half * (flow[w].n + pending[w]) >= 0 /\ Half * (flow[w].n + pending[w]) \in Int
      BY <1>0, <3>1, <3>2
    <3> QED
      BY <1>0, <3>3 DEF Allowed
  <2>6. /\ m.dat = Taken(w) + 1 /\ m.dat = Taken(w)' /\ m.dat <= 2 * Half + Seen(r)
        /\ Taken(w)' >= 1 /\ Taken(w)' >= Taken(w)
    <3>1. Allowed(w) \in Int /\ Allowed(w) <= 2 * Half + Seen(r) - fp[r].n
      BY <1>2, <2>4, Numbers
    <3>2. Taken(w) + 1 <= 2 * Half + Seen(r)
      BY <1>0, <2>5, <3>1
    <3>3. m.dat = Taken(w) + 1 /\ m.dat = Taken(w)'
      BY <1>5, <2>2
    <3>4. Taken(w)' >= 1 /\ Taken(w)' >= Taken(w)
      BY <1>0, <1>3, <1>5
    <3> QED
      BY <3>2, <3>3, <3>4
  <2>7. op[w].pc \notin {"drop", "done"} /\ m.kind # "flow" /\ m.kind # "end"
    BY <1>0, <2>2
  <2> QED
    BY <1>1, <1>6, <1>7, <2>1, <2>2, <2>3, <2>4, <2>6, <2>7, WriterSends
<1> QED
  BY <1>9, <1>10

\* out writes the end of the stream.
LEMMA OutEnds ==
    ASSUME TypeInv, TypeInv',
           NEW t \in Tags, NEW w \in Ends, NEW r \in Ends, OneWay(t, w, r),
           StreamInv(t, w, r), OutEnd(w)
    PROVE  StreamInv(t, w, r)'
<1>0. /\ w[1] \in Sides /\ r[1] \in Sides /\ w # r /\ w[2] = t /\ ~IsRpc(w)
      /\ op[w] \in OpState /\ Half \in Nat
      /\ Seen(r) \in Nat /\ fp[r].n \in Nat /\ Arrived(r) \in Nat /\ Taken(w) \in Int
      /\ op[w].pc = "end"
  <2>1. w[1] \in Sides /\ r[1] \in Sides /\ w # r /\ w[2] = t /\ ~IsRpc(w)
    BY StreamFacts
  <2>2. op[w].pc = "end"
    BY DEF OutEnd
  <2> QED
    BY <2>1, <2>2, EndTypes, Numbers, HalfFacts
<1>1. /\ fp' = fp /\ usr' = usr /\ pending' = pending /\ dm' = dm /\ flow' = flow
      /\ up' = up /\ mapped' = mapped /\ inq' = inq /\ outq' = outq /\ op'[r] = op[r]
  BY <1>0 DEF OutEnd, muxes, chans, TypeInv, TypeOK
<1>2. /\ Roles(t, w, r) /\ Queue(w) /\ (fp[r].pc = "grant" => fp[r].n = Half)
      /\ (~flow[w].open => ~up[w[1]]) /\ (~op[w].first => Taken(w) >= 1)
  BY <1>0 DEF StreamInv, Credit, Firsts
<1>3. /\ op'[w].msg = op[w].msg /\ op'[w].n = op[w].n
      /\ op'[w].pc = "drop" /\ op'[w].first = op[w].first
  <2>1. \/ op'[w] = [op[w] EXCEPT !.bad = outq[w].bad, !.pc = "drop"]
        \/ op'[w] = [op[w] EXCEPT !.bad = TRUE, !.pc = "drop"]
    BY <1>0 DEF OutEnd, Keeps, TypeInv, TypeOK
  <2> QED
    BY <1>0, <2>1 DEF OpState
<1>4. Taken(w)' = Taken(w)
  BY <1>0, <1>3 DEF Taken
<1>5. Queue(w)'
  BY <1>1, <1>2, <1>3 DEF Queue
<1>6. Allowed(w)' = Allowed(w)
  BY <1>1, <1>3, <1>4 DEF Allowed
<1>7. /\ Seen(r)' = Seen(r) /\ Arrived(r)' = Arrived(r)
      /\ (Delivering(r)' <=> Delivering(r))
  BY <1>1 DEF Seen, Arrived, Delivering
<1>8. Taken(w)' >= Taken(w) /\ (~op'[w].first => Taken(w)' >= 1)
  BY <1>0, <1>2, <1>3, <1>4
<1>9. CASE wire' = wire
  <2>1. SameWires(t)
    BY <1>9, WireSame DEF SameWires
  <2>2. /\ Arrived(r)' <= Arrived(r) /\ Seen(r)' >= Seen(r)
        /\ Seen(r)' - fp'[r].n >= Seen(r) - fp[r].n
    BY <1>0, <1>1, <1>7
  <2>3. /\ fp'[w].pc = "off" /\ op'[r].pc = "off"
        /\ dm'[w[1]].tag = t => dm'[w[1]].pc \notin {"accept", "deliver"}
    BY <1>1, <1>2 DEF Roles
  <2>4. op[w].pc \notin {"drop", "done"}
    BY <1>0
  <2> QED
    BY <1>0, <1>1, <1>2, <1>3, <1>5, <1>6, <1>7, <1>8, <2>1, <2>2, <2>3, <2>4, Frame
       DEF SameWires
<1>10. CASE wire' # wire
  <2> DEFINE m == EndMsg(w, op[w].first, outq[w].bad)
  <2>1. /\ wire' = [wire EXCEPT ![w[1]] = Append(wire[w[1]], m)]
        /\ CanWrite(w[1])
    BY <1>10 DEF OutEnd, TypeInv, TypeOK
  <2>2. m \in Msg /\ m.tag = t /\ m.kind = "end" /\ m.first = op[w].first
    <3>1. w[2] \in Tags /\ op[w].first \in BOOLEAN /\ outq[w].bad \in BOOLEAN
      BY <1>0, EndTypes, ChanFacts DEF OpState
    <3> QED
      BY <1>0, <3>1 DEF EndMsg, Msg
  <2> HIDE DEF m
  <2>3. flow[w].open
    BY <1>2, <2>1 DEF CanWrite
  <2>4. /\ op[w].pc \notin {"drop", "done"} /\ op'[w].pc \in {"drop", "done"}
        /\ m.kind # "flow" /\ m.kind # "data"
    BY <1>0, <1>3, <2>2
  <2> QED
    BY <1>1, <1>5, <1>6, <1>8, <2>1, <2>2, <2>3, <2>4, WriterSends
<1> QED
  BY <1>9, <1>10

\* A ticket of demux gets to conn.flow: the credit is the same.
LEMMA Tickets ==
    ASSUME TypeInv, TypeInv',
           NEW t \in Tags, NEW w \in Ends, NEW r \in Ends, OneWay(t, w, r),
           StreamInv(t, w, r), NEW e \in Ends, GoTicket(e)
    PROVE  StreamInv(t, w, r)'
<1>0. /\ w[1] \in Sides /\ r[1] \in Sides /\ Half \in Nat
      /\ Seen(r) \in Nat /\ fp[r].n \in Nat /\ Arrived(r) \in Nat /\ Taken(w) \in Int
      /\ flow[w].n \in Nat /\ pending[w] \in Nat /\ flow[w] \in Flow
  BY StreamFacts, EndTypes, Numbers, HalfFacts
<1>1. /\ wire' = wire /\ up' = up /\ dm' = dm /\ mapped' = mapped /\ inq' = inq
      /\ outq' = outq /\ op' = op /\ fp' = fp /\ usr' = usr
  BY DEF GoTicket, device, muxes, procs
<1>2. SameWires(t)
  BY <1>1, WireSame DEF SameWires
<1>3. CASE e # w
  <2>1. flow'[w] = flow[w] /\ pending'[w] = pending[w]
    BY <1>3 DEF GoTicket, TypeInv, TypeOK
  <2>2. SameSides(t, w, r)
    BY <1>1, SidesKept
  <2> QED
    BY <1>1, <1>2, <2>1, <2>2, Untouched
       DEF SameProcs, SameUsers, SameChans, Closing
<1>4. CASE e = w
  <2>1. /\ pending[w] > 0 /\ pending'[w] = pending[w] - 1
        /\ flow'[w] = [flow[w] EXCEPT !.n = IF flow[w].open THEN flow[w].n + 1
                                                           ELSE flow[w].n]
    BY <1>4 DEF GoTicket, TypeInv, TypeOK
  <2>2. flow'[w].open = flow[w].open /\ (flow[w].open => flow'[w].n = flow[w].n + 1)
    BY <1>0, <2>1 DEF Flow
  <2>3. Taken(w)' = Taken(w) /\ Seen(r)' = Seen(r) /\ Arrived(r)' = Arrived(r)
        /\ (Delivering(r)' <=> Delivering(r))
    BY <1>1 DEF Taken, Seen, Arrived, Delivering
  <2>4. flow[w].open => flow'[w].n + pending'[w] = flow[w].n + pending[w]
    BY <1>0, <2>1, <2>2
  <2>5. flow[w].open => Allowed(w)' = Allowed(w)
    BY <1>1, <2>3, <2>4 DEF Allowed
  <2>6. /\ Taken(w)' >= Taken(w) /\ Arrived(r)' <= Arrived(r) /\ Seen(r)' >= Seen(r)
        /\ Seen(r)' - fp'[r].n >= Seen(r) - fp[r].n
    BY <1>0, <1>1, <2>3
  <2>7. /\ Roles(t, w, r) /\ Queue(w) /\ (~op[w].first => Taken(w) >= 1)
        /\ (~flow[w].open => ~up[w[1]] \/ op[w].pc = "done")
        /\ (fp[r].pc = "grant" => fp[r].n = Half)
    BY DEF StreamInv, Firsts, Credit
  <2>8. /\ fp'[w].pc = "off" /\ op'[r].pc = "off"
        /\ dm'[w[1]].tag = t => dm'[w[1]].pc \notin {"accept", "deliver"}
    BY <1>1, <2>7 DEF Roles
  <2>9. Queue(w)'
    BY <1>1, <2>7 DEF Queue
  <2> QED
    BY <1>0, <1>1, <1>2, <2>2, <2>3, <2>5, <2>6, <2>7, <2>8, <2>9, Frame DEF SameWires
<1> QED
  BY <1>3, <1>4

\* flowproc of another stream.
LEMMA FlowOther ==
    ASSUME TypeInv, TypeInv',
           NEW t \in Tags, NEW w \in Ends, NEW r \in Ends, OneWay(t, w, r),
           StreamInv(t, w, r), NEW e \in Ends, e # r,
           FlowRecv(e) \/ FlowPost(e) \/ FlowQuit(e) \/ FlowGrant(e)
    PROVE  StreamInv(t, w, r)'
<1>1. e # w /\ e[2] # t /\ e[1] \in Sides
  <2>1. fp[w].pc = "off" /\ fp[e].pc # "off"
    BY DEF StreamInv, Roles, FlowRecv, FlowPost, FlowQuit, FlowGrant
  <2>2. e # w
    BY <2>1
  <2> QED
    BY <2>2, StreamFacts, EndsFacts
<1>2. SameProcs(w, r)
  <2>1. op' = op /\ fp'[w] = fp[w] /\ fp'[r] = fp[r]
    BY <1>1 DEF FlowRecv, FlowPost, FlowQuit, FlowGrant, TypeInv, TypeOK
  <2> QED
    BY <2>1 DEF SameProcs
<1>3. SameUsers(w, r)
  <2>1. usr'[w] = usr[w] /\ usr'[r] = usr[r]
    BY <1>1 DEF FlowRecv, FlowPost, FlowQuit, FlowGrant, TypeInv, TypeOK
  <2> QED
    BY <2>1 DEF SameUsers
<1>4. SameChans(w, r) /\ Closing(w) /\ SameSides(t, w, r)
  <2>1. /\ mapped' = mapped /\ dm' = dm /\ up' = up /\ pending' = pending
        /\ flow' = flow /\ outq' = outq
    BY DEF FlowRecv, FlowPost, FlowQuit, FlowGrant, device, muxes, chans
  <2>2. inq'[r] = inq[r]
    BY DEF FlowRecv, FlowPost, FlowQuit, FlowGrant, chans, TypeInv, TypeOK
  <2> QED
    BY <2>1, <2>2, SidesKept DEF SameChans, Closing
<1>5. SameWires(t)
  <2> DEFINE m == FlowMsg(e, Len(usr[e].seen))
  <2>1. wire' = wire \/ wire' = [wire EXCEPT ![e[1]] = Append(wire[e[1]], m)]
    BY DEF FlowRecv, FlowPost, FlowQuit, FlowGrant, device
  <2>2. m \in Msg /\ m.tag # t
    <3>1. e[2] \in Tags /\ Len(usr[e].seen) \in Nat
      BY EndsFacts, Numbers DEF Seen
    <3> QED
      BY <1>1, <3>1 DEF FlowMsg, Msg
  <2> HIDE DEF m
  <2> QED
    BY <1>1, <2>1, <2>2, WireSame, WireAppend DEF SameWires
<1> QED
  BY <1>2, <1>3, <1>4, <1>5, Untouched

\* flowproc of this stream, but for a grant that is written.
LEMMA FlowQuiet ==
    ASSUME TypeInv, TypeInv',
           NEW t \in Tags, NEW w \in Ends, NEW r \in Ends, OneWay(t, w, r),
           StreamInv(t, w, r),
           FlowRecv(r) \/ FlowPost(r) \/ FlowQuit(r) \/ (FlowGrant(r) /\ wire' = wire)
    PROVE  StreamInv(t, w, r)'
<1>0. /\ w[1] \in Sides /\ r[1] \in Sides /\ w # r /\ Half \in Nat
      /\ Seen(r) \in Nat /\ fp[r].n \in Nat /\ Arrived(r) \in Nat /\ Taken(w) \in Int
      /\ fp[r] \in FpState /\ usr[r] \in UserState
      /\ inq[r].buf \in Seq(Nat) /\ Len(inq[r].buf) \in Nat
  <2>1. inq[r].buf \in Seq(Nat)
    BY EndTypes, ChanFacts
  <2> QED
    BY <2>1, StreamFacts, EndTypes, Numbers, HalfFacts
<1>1. /\ up' = up /\ dm' = dm /\ mapped' = mapped /\ flow' = flow /\ pending' = pending
      /\ outq' = outq /\ op' = op /\ fp'[w] = fp[w] /\ wire' = wire /\ usr'[w] = usr[w]
  BY <1>0 DEF FlowRecv, FlowPost, FlowQuit, FlowGrant, device, muxes, chans, TypeInv,
              TypeOK
<1>2. SameWires(t)
  BY <1>1, WireSame DEF SameWires
<1>3. /\ Roles(t, w, r) /\ Queue(w) /\ (~op[w].first => Taken(w) >= 1)
      /\ (~flow[w].open => ~up[w[1]] \/ op[w].pc = "done")
      /\ (fp[r].pc = "grant" => fp[r].n = Half)
  BY DEF StreamInv, Firsts, Credit
<1>4. /\ Taken(w)' = Taken(w) /\ Allowed(w)' = Allowed(w)
      /\ (Delivering(r)' <=> Delivering(r))
  BY <1>1 DEF Taken, Allowed, Delivering
<1>5. Queue(w)'
  BY <1>1, <1>3 DEF Queue
<1>6. /\ fp'[w].pc = "off" /\ op'[r].pc = "off"
      /\ dm'[w[1]].tag = t => dm'[w[1]].pc \notin {"accept", "deliver"}
  BY <1>1, <1>3 DEF Roles
<1>7. /\ fp[r].pc # "off" /\ fp'[r].pc # "off"
      /\ Arrived(r)' <= Arrived(r) /\ Seen(r)' >= Seen(r)
      /\ Seen(r)' - fp'[r].n >= Seen(r) - fp[r].n
      /\ fp'[r].pc = "grant" => fp'[r].n = Half
  <2>1. CASE FlowRecv(r)
    <3>1. fp[r].pc = "recv" /\ usr' = usr
      BY <2>1 DEF FlowRecv
    <3>2. Seen(r)' = Seen(r)
      BY <3>1 DEF Seen
    <3>3. CASE inq[r].buf # <<>>
      <4>1. /\ inq'[r] = Pop(inq[r])
            /\ fp'[r] = [fp[r] EXCEPT !.pc = "send", !.msg = Head(inq[r].buf)]
        BY <2>1, <3>3 DEF FlowRecv, Drained, TypeInv, TypeOK
      <4>2. fp'[r].pc = "send" /\ fp'[r].n = fp[r].n
        BY <1>0, <4>1 DEF FpState
      <4>3. inq'[r].buf = Tail(inq[r].buf)
        BY <4>1, EndTypes, ChanFacts
      <4>4. Len(inq'[r].buf) = Len(inq[r].buf) - 1
        BY <1>0, <3>3, <4>3
      <4>5. Arrived(r)' = Arrived(r)
        <5> DEFINE d == IF Delivering(r) THEN 1 ELSE 0
        <5>1. d \in Nat /\ Len(inq[r].buf) \in Nat /\ Seen(r) \in Nat
          BY <1>0
        <5>2. Arrived(r) = Seen(r) + 0 + Len(inq[r].buf) + d
          BY <3>1 DEF Arrived
        <5>3. Arrived(r)' = Seen(r) + 1 + Len(inq'[r].buf) + d
          BY <1>4, <3>2, <4>2 DEF Arrived
        <5> HIDE DEF d
        <5> QED
          BY <4>4, <5>1, <5>2, <5>3
      <4> QED
        BY <1>0, <3>1, <3>2, <4>2, <4>5
    <3>4. CASE inq[r].buf = <<>>
      <4>1. inq' = inq /\ fp'[r] = [fp[r] EXCEPT !.pc = "done"]
        BY <2>1, <3>4 DEF FlowRecv, TypeInv, TypeOK
      <4>2. fp'[r].pc = "done" /\ fp'[r].n = fp[r].n
        BY <1>0, <4>1 DEF FpState
      <4>3. Arrived(r)' = Arrived(r)
        BY <1>4, <3>1, <3>2, <4>1, <4>2 DEF Arrived
      <4> QED
        BY <1>0, <3>1, <3>2, <4>2, <4>3
    <3> QED
      BY <3>3, <3>4
  <2>2. CASE FlowPost(r)
    <3>1. /\ fp[r].pc = "send" /\ inq' = inq
          /\ usr'[r] = [usr[r] EXCEPT !.seen = Append(usr[r].seen, fp[r].msg)]
          /\ fp'[r] = [fp[r] EXCEPT !.n = fp[r].n + 1,
                          !.pc = IF fp[r].n + 1 = Half THEN "grant" ELSE "recv"]
      BY <2>2 DEF FlowPost, chans, TypeInv, TypeOK
    <3>2. /\ fp'[r].n = fp[r].n + 1
          /\ fp'[r].pc = IF fp[r].n + 1 = Half THEN "grant" ELSE "recv"
      BY <1>0, <3>1 DEF FpState
    <3>3. Seen(r)' = Seen(r) + 1
      <4>1. usr'[r].seen = Append(usr[r].seen, fp[r].msg) /\ usr[r].seen \in Seq(Nat)
        BY <1>0, <3>1 DEF UserState
      <4> QED
        BY <4>1 DEF Seen
    <3>4. Arrived(r)' = Arrived(r)
      <4>1. fp'[r].pc # "send"
        BY <3>2
      <4> QED
        BY <1>0, <1>4, <3>1, <3>3, <4>1 DEF Arrived
    <3> QED
      BY <1>0, <3>1, <3>2, <3>3, <3>4
  <2>3. CASE FlowQuit(r)
    <3>1. /\ fp[r].pc = "send" /\ usr' = usr
          /\ inq'[r] = CloseChan(inq[r], uin[r].bad)
          /\ fp'[r] = [fp[r] EXCEPT !.pc = "done"]
      BY <2>3 DEF FlowQuit, TypeInv, TypeOK
    <3>2. fp'[r].pc = "done" /\ fp'[r].n = fp[r].n /\ inq'[r].buf = inq[r].buf
      BY <1>0, <3>1 DEF FpState, CloseChan
    <3>3. Seen(r)' = Seen(r)
      BY <3>1 DEF Seen
    <3>4. Arrived(r)' <= Arrived(r)
      BY <1>0, <1>4, <3>1, <3>2, <3>3 DEF Arrived
    <3> QED
      BY <1>0, <3>1, <3>2, <3>3, <3>4
  <2>4. CASE FlowGrant(r)
    <3>1. /\ fp[r].pc = "grant" /\ usr' = usr /\ inq' = inq
          /\ fp'[r] = [fp[r] EXCEPT !.pc = "recv", !.n = 0]
      BY <2>4 DEF FlowGrant, chans, TypeInv, TypeOK
    <3>2. fp'[r].pc = "recv" /\ fp'[r].n = 0
      BY <1>0, <3>1 DEF FpState
    <3>3. Seen(r)' = Seen(r)
      BY <3>1 DEF Seen
    <3>4. Arrived(r)' = Arrived(r)
      BY <1>4, <3>1, <3>2, <3>3 DEF Arrived
    <3> QED
      BY <1>0, <3>1, <3>2, <3>3, <3>4
  <2> QED
    BY <2>1, <2>2, <2>3, <2>4
<1>8. Taken(w)' >= Taken(w)
  BY <1>0, <1>4
<1> QED
  BY <1>0, <1>1, <1>2, <1>3, <1>4, <1>5, <1>6, <1>7, <1>8, Frame DEF SameWires

\* flowproc of this stream grants the writer Half more messages.
LEMMA ReaderGrants ==
    ASSUME TypeInv, TypeInv',
           NEW t \in Tags, NEW w \in Ends, NEW r \in Ends, OneWay(t, w, r),
           StreamInv(t, w, r), FlowGrant(r), wire' # wire
    PROVE  StreamInv(t, w, r)'
<1> DEFINE R == wire[r[1]]
           R2 == wire'[r[1]]
           k == Len(R) + 1
           m == FlowMsg(r, Seen(r))
<1>0. /\ w[1] \in Sides /\ r[1] \in Sides /\ w # r /\ w[1] # r[1] /\ Half \in Nat
      /\ Seen(r) \in Nat /\ fp[r].n \in Nat /\ Allowed(w) \in Int
      /\ fp[r] \in FpState /\ R \in Seq(Msg) /\ \A i \in DOMAIN R : R[i].dat \in Nat
  <2>1. w[1] \in Sides /\ r[1] \in Sides /\ w # r /\ w[1] # r[1]
    BY StreamFacts
  <2> QED
    BY <2>1, EndTypes, SideTypes, Numbers, HalfFacts
<1>1. /\ up' = up /\ dm' = dm /\ mapped' = mapped /\ flow' = flow /\ pending' = pending
      /\ outq' = outq /\ op' = op /\ fp'[w] = fp[w] /\ usr' = usr /\ inq' = inq
      /\ fp[r].pc = "grant" /\ fp'[r] = [fp[r] EXCEPT !.pc = "recv", !.n = 0]
      /\ wire' = [wire EXCEPT ![r[1]] = Append(R, m)]
  BY <1>0 DEF FlowGrant, muxes, chans, TypeInv, TypeOK, Seen
<1>2. fp'[r].pc = "recv" /\ fp'[r].n = 0 /\ fp[r].n = Half
  BY <1>0, <1>1 DEF FpState, StreamInv, Credit
<1>3. m \in Msg /\ m.tag = t /\ m.kind = "flow" /\ ~m.first /\ m.dat = Seen(r)
  BY <1>0, StreamFacts DEF FlowMsg, Msg
<1>4. R2 = Append(R, m) /\ wire'[w[1]] = wire[w[1]]
  BY <1>0, <1>1 DEF TypeInv, TypeOK
<1> HIDE DEF R, R2, k, m
<1>5. Grows(R2, R, t, m, k)
  <2>1. Grows(Append(R, m), R, m.tag, m, Len(R) + 1)
    BY <1>0, <1>3, AppendGrows
  <2> QED
    BY <1>3, <1>4, <2>1 DEF k
<1>6. /\ k \in Nat /\ Slots(R2, t) = Slots(R, t) \cup {k} /\ R2[k] = m
      /\ \A i \in Slots(R, t) : i \in Nat /\ i < k /\ R2[i] = R[i] /\ R[i].dat \in Nat
  <2>1. Slots(R, t) \subseteq DOMAIN R
    BY DEF Slots
  <2> QED
    BY <1>0, <1>5, <2>1 DEF Grows
<1>7. /\ Taken(w)' = Taken(w) /\ Allowed(w)' = Allowed(w) /\ Seen(r)' = Seen(r)
      /\ Delivering(r)' = Delivering(r)
  BY <1>1 DEF Taken, Allowed, Seen, Delivering
<1>8. Arrived(r)' = Arrived(r)
  BY <1>1, <1>2, <1>7 DEF Arrived
<1>9. Roles(t, w, r)'
  <2>1. \A i \in Slots(R, t) : R[i].kind = "flow" /\ ~R[i].first
    BY DEF StreamInv, Roles, R
  <2>2. \A i \in Slots(R2, t) : R2[i].kind = "flow" /\ ~R2[i].first
    BY <1>3, <1>6, <2>1
  <2> QED
    BY <1>1, <1>2, <1>7, <2>2 DEF StreamInv, Roles, R2
<1>10. Firsts(t, w, r)'
  <2>1. Firsts(t, w, r)
    BY DEF StreamInv
  <2> QED
    BY <1>1, <1>2, <1>4, <1>7, <2>1 DEF Firsts
<1>11. Queue(w)'
  BY <1>1 DEF StreamInv, Queue
<1>12. Data(t, w, r)'
  BY <1>1, <1>4, <1>7, <1>8 DEF StreamInv, Data
<1>13. Credit(t, w, r)'
  <2>1. /\ (~flow[w].open => ~up[w[1]] \/ op[w].pc = "done")
        /\ flow[w].open =>
              /\ Allowed(w) <= 2 * Half + Seen(r) - Half
              /\ \A i \in Slots(R, t) : R[i].dat >= Allowed(w) - Half
        /\ \A i \in Slots(R, t) : R[i].dat <= Seen(r) - Half
        /\ \A i, n \in Slots(R, t) : i < n => R[n].dat >= R[i].dat + Half
    BY <1>2 DEF StreamInv, Credit, R
  <2>2. flow'[w].open => Allowed(w)' <= 2 * Half + Seen(r)' - fp'[r].n
    BY <1>0, <1>1, <1>2, <1>7, <2>1
  <2>3. flow[w].open => m.dat >= Allowed(w) - Half
    BY <1>0, <1>3, <2>1
  <2>4. flow'[w].open => \A i \in Slots(R2, t) : R2[i].dat >= Allowed(w)' - Half
    BY <1>1, <1>6, <1>7, <2>1, <2>3
  <2>5. \A i \in Slots(R2, t) : R2[i].dat <= Seen(r)' - fp'[r].n
    <3>1. \A i \in Slots(R, t) : R[i].dat <= Seen(r)
      BY <1>0, <1>6, <2>1
    <3>2. m.dat <= Seen(r) /\ Seen(r)' - fp'[r].n = Seen(r)
      BY <1>0, <1>2, <1>3, <1>7
    <3> QED
      BY <1>6, <3>1, <3>2
  <2>6. ASSUME NEW i \in Slots(R2, t), NEW n \in Slots(R2, t), i < n
        PROVE  R2[n].dat >= R2[i].dat + Half
    <3>1. i \in Slots(R, t) /\ R2[i] = R[i]
      BY <1>6, <2>6
    <3>2. CASE n \in Slots(R, t)
      BY <1>6, <2>1, <2>6, <3>1, <3>2
    <3>3. CASE n = k
      <4>1. R[i].dat <= Seen(r) - Half /\ R[i].dat \in Nat
        BY <1>6, <2>1, <3>1
      <4> QED
        BY <1>0, <1>3, <1>6, <3>1, <3>3, <4>1
    <3> QED
      BY <1>6, <3>2, <3>3
  <2>7. (~flow'[w].open => ~up'[w[1]] \/ op'[w].pc = "done") /\ fp'[r].pc # "grant"
    BY <1>1, <1>2, <2>1
  <2> QED
    BY <2>2, <2>4, <2>5, <2>6, <2>7 DEF Credit, R2
<1> QED
  BY <1>9, <1>10, <1>11, <1>12, <1>13 DEF StreamInv

\* demux reads a message that does not matter to this stream.
LEMMA DemuxOther ==
    ASSUME TypeInv, TypeInv',
           NEW t \in Tags, NEW w \in Ends, NEW r \in Ends, OneWay(t, w, r),
           StreamInv(t, w, r), NEW s \in Sides,
           \/ DemuxDiscard(s)
           \/ DemuxNew(s) /\ Got(s).tag # t
           \/ DemuxGrant(s) /\ GotEnd(s) # w
           \/ DemuxEnd(s) /\ GotEnd(s) # w
           \/ DemuxData(s) /\ Got(s).tag # t
    PROVE  StreamInv(t, w, r)'
<1> DEFINE g == GotEnd(s)
<1>0. /\ w[1] \in Sides /\ r[1] \in Sides /\ w # r /\ w[2] = t /\ r[2] = t
      /\ ReadMsg(s) /\ g \in Ends /\ g[1] = s /\ g[2] = Got(s).tag
      /\ Got(s).tag \in Tags
  <2>1. w[1] \in Sides /\ r[1] \in Sides /\ w # r /\ w[2] = t /\ r[2] = t
    BY StreamFacts
  <2>2. ReadMsg(s)
    BY DEF DemuxDiscard, DemuxNew, DemuxGrant, DemuxEnd, DemuxData
  <2>3. wire[Other(s)] \in Seq(Msg) /\ wire[Other(s)] # <<>>
    BY <2>2, SideTypes, EndsFacts DEF ReadMsg
  <2>4. Got(s) \in Msg
    BY <2>3 DEF Got
  <2>5. Got(s).tag \in Tags
    BY <2>4 DEF Msg
  <2> QED
    BY <2>1, <2>2, <2>5, EndsFacts DEF GotEnd
<1> HIDE DEF g
<1>1. SameWires(t)
  BY <1>0, WireTail DEF SameWires
<1>2. /\ op' = op /\ usr' = usr /\ up' = up
  BY DEF DemuxDiscard, DemuxNew, DemuxGrant, DemuxEnd, DemuxData, procs
<1>3. CASE DemuxDiscard(s)
  <2>1. /\ fp' = fp /\ mapped' = mapped /\ dm' = dm /\ inq' = inq /\ outq' = outq
        /\ flow' = flow /\ pending' = pending
    BY <1>3 DEF DemuxDiscard, muxes, chans, procs
  <2> QED
    BY <1>1, <1>2, <2>1, SidesKept, Untouched
       DEF SameProcs, SameUsers, SameChans, Closing
<1>4. CASE DemuxNew(s) /\ Got(s).tag # t
  <2>0. g # w /\ g # r
    BY <1>0, <1>4
  <2>1. /\ fp'[w] = fp[w] /\ fp'[r] = fp[r] /\ mapped' = mapped \cup {g}
        /\ inq'[r] = inq[r] /\ outq'[w] = outq[w] /\ flow'[w] = flow[w]
        /\ pending' = pending
    BY <1>4, <2>0 DEF DemuxNew, g, TypeInv, TypeOK
  <2>2. /\ dm'[s] = [dm[s] EXCEPT !.pc = "accept", !.tag = Got(s).tag]
        /\ \A z \in Sides : z # s => dm'[z] = dm[z]
    BY <1>4 DEF DemuxNew, TypeInv, TypeOK
  <2>3. dm'[s].tag = Got(s).tag
    BY <2>2, SideTypes DEF DmState
  <2>4. Roles(t, w, r)
    BY DEF StreamInv
  <2>5. SameSides(t, w, r)
    <3>1. r \in mapped' => r \in mapped
      BY <2>0, <2>1
    <3>2. dm'[w[1]].tag = t => dm'[w[1]].pc \notin {"accept", "deliver"}
      BY <1>0, <1>4, <2>2, <2>3, <2>4 DEF Roles
    <3>3. Delivering(r)' => Delivering(r) /\ dm'[r[1]].dat = dm[r[1]].dat
      BY <1>0, <1>4, <2>2, <2>3 DEF Delivering
    <3> QED
      BY <3>1, <3>2, <3>3 DEF SameSides
  <2> QED
    BY <1>1, <1>2, <2>1, <2>5, Untouched DEF SameProcs, SameUsers, SameChans, Closing
<1>5. CASE DemuxGrant(s) /\ g # w
  <2>1. /\ fp' = fp /\ mapped' = mapped /\ dm' = dm /\ inq' = inq /\ outq' = outq
        /\ flow' = flow /\ pending'[w] = pending[w]
    BY <1>5 DEF DemuxGrant, NewTicket, muxes, procs, g, TypeInv, TypeOK
  <2> QED
    BY <1>1, <1>2, <2>1, SidesKept, Untouched
       DEF SameProcs, SameUsers, SameChans, Closing
<1>6. CASE DemuxEnd(s) /\ g # w
  <2>1. fp' = fp /\ dm' = dm /\ pending' = pending
    BY <1>6 DEF DemuxEnd, procs
  <2>2. SameChans(w, r) /\ Closing(w) /\ mapped' \subseteq mapped
    <3>1. CASE CloseConns({g}, Got(s).bad)
      <4>1. {g} \in SUBSET Ends /\ w \notin {g}
        BY <1>0, <1>6
      <4> QED
        BY <1>2, <2>1, <3>1, <4>1, ConnsClosed
    <3>2. CASE ~CloseConns({g}, Got(s).bad)
      <4>1. /\ flow'[w] = flow[w] /\ outq' = outq /\ mapped' = mapped
            /\ inq'[r] = IF g = r THEN CloseChan(inq[r], Got(s).bad) ELSE inq[r]
        BY <1>6, <3>2 DEF DemuxEnd, g, TypeInv, TypeOK
      <4>2. inq'[r].buf = inq[r].buf
        BY <4>1 DEF CloseChan
      <4> QED
        BY <1>2, <2>1, <4>1, <4>2 DEF SameChans, Closing
    <3> QED
      BY <3>1, <3>2
  <2> QED
    BY <1>1, <1>2, <2>1, <2>2, SidesKept, Untouched DEF SameProcs, SameUsers
<1>7. CASE DemuxData(s) /\ Got(s).tag # t
  <2>1. /\ fp' = fp /\ mapped' = mapped /\ inq' = inq /\ outq' = outq
        /\ flow' = flow /\ pending' = pending
    BY <1>7 DEF DemuxData, chans, procs
  <2>2. /\ dm' = dm \/ dm'[s].tag = Got(s).tag
        /\ \A z \in Sides : z # s => dm'[z] = dm[z]
    BY <1>7 DEF DemuxData, TypeInv, TypeOK
  <2>3. Roles(t, w, r)
    BY DEF StreamInv
  <2>4. SameSides(t, w, r)
    <3>1. dm'[w[1]].tag = t => dm'[w[1]].pc \notin {"accept", "deliver"}
      BY <1>0, <1>7, <2>2, <2>3 DEF Roles
    <3>2. Delivering(r)' => Delivering(r) /\ dm'[r[1]].dat = dm[r[1]].dat
      BY <1>0, <1>7, <2>2 DEF Delivering
    <3> QED
      BY <2>1, <3>1, <3>2 DEF SameSides
  <2> QED
    BY <1>1, <1>2, <2>1, <2>4, Untouched DEF SameProcs, SameUsers, SameChans, Closing
<1> QED
  BY <1>3, <1>4, <1>5, <1>6, <1>7 DEF g

\* q2 is q without its first message, m, which is for t.
Drops(q2, q, t, m) ==
    /\ 1 \in Slots(q, t) /\ q[1] = m
    /\ \A i \in Slots(q2, t) : /\ i \in Nat /\ 1 < i + 1
                               /\ i + 1 \in Slots(q, t) /\ q2[i] = q[i + 1]
    /\ \A i \in DataSlots(q2, t) : i \in Slots(q2, t) /\ i + 1 \in DataSlots(q, t)
    /\ m.kind = "data" => 1 \in DataSlots(q, t)

\* Reading a message takes the first one of its stream.
LEMMA HeadDrops ==
    ASSUME NEW q \in Seq(Msg), q # <<>>
    PROVE  Drops(Tail(q), q, Head(q).tag, Head(q))
<1> DEFINE q2 == Tail(q)
           t == Head(q).tag
<1>1. /\ 1 \in DOMAIN q /\ q[1] = Head(q)
      /\ \A i \in DOMAIN q2 : /\ i \in Nat /\ 1 < i + 1
                              /\ i + 1 \in DOMAIN q /\ q2[i] = q[i + 1]
  OBVIOUS
<1> HIDE DEF q2
<1>2. 1 \in Slots(q, t)
  BY <1>1 DEF Slots
<1>3. \A i \in Slots(q2, t) : /\ i \in Nat /\ 1 < i + 1
                              /\ i + 1 \in Slots(q, t) /\ q2[i] = q[i + 1]
  BY <1>1 DEF Slots
<1>4. \A i \in DataSlots(q2, t) : i \in Slots(q2, t) /\ i + 1 \in DataSlots(q, t)
  BY <1>3 DEF DataSlots
<1>5. Head(q).kind = "data" => 1 \in DataSlots(q, t)
  BY <1>1, <1>2 DEF DataSlots
<1>6. Drops(q2, q, t, Head(q))
  BY <1>1, <1>2, <1>3, <1>4, <1>5 DEF Drops
<1> QED
  BY <1>6 DEF q2

\* What demux reads for the end x, of the stream t.
LEMMA Reads ==
    ASSUME TypeInv, NEW t \in Tags, NEW x \in Ends, x[2] = t,
           NEW s \in Sides, ReadMsg(s), GotEnd(s) = x
    PROVE  /\ s = x[1] /\ Got(s) \in Msg /\ Got(s).tag = t
           /\ Drops(wire'[Other(s)], wire[Other(s)], t, Got(s))
           /\ wire'[s] = wire[s] /\ dm[s].pc = "read"
<1>1. /\ wire[Other(s)] \in Seq(Msg) /\ wire[Other(s)] # <<>> /\ dm[s].pc = "read"
      /\ Other(s) \in Sides /\ Other(s) # s
  BY SideTypes, EndsFacts DEF ReadMsg
<1>2. Got(s) \in Msg /\ s = x[1] /\ Got(s).tag = t
  BY <1>1 DEF Got, GotEnd
<1>3. wire'[Other(s)] = Tail(wire[Other(s)]) /\ wire'[s] = wire[s]
  BY <1>1 DEF ReadMsg, TypeInv, TypeOK
<1>4. Drops(Tail(wire[Other(s)]), wire[Other(s)], Got(s).tag, Got(s))
  BY <1>1, HeadDrops DEF Got
<1> QED
  BY <1>1, <1>2, <1>3, <1>4

\* The writer gets a grant, and nothing else.
LEMMA WriterGets ==
    ASSUME TypeInv, TypeInv',
           NEW t \in Tags, NEW w \in Ends, NEW r \in Ends, OneWay(t, w, r),
           StreamInv(t, w, r), NEW s \in Sides, GotEnd(s) = w,
           DemuxNew(s) \/ DemuxGrant(s) \/ DemuxEnd(s) \/ DemuxData(s)
    PROVE  StreamInv(t, w, r)'
<1> DEFINE R == wire[r[1]]
           R2 == wire'[r[1]]
<1>0. /\ w[1] \in Sides /\ r[1] \in Sides /\ w # r /\ w[1] # r[1] /\ w[2] = t
      /\ r[1] = Other(w[1]) /\ Half \in Nat
      /\ Seen(r) \in Nat /\ fp[r].n \in Nat /\ Allowed(w) \in Int /\ Taken(w) \in Int
      /\ op[w].n \in Nat /\ flow[w].n \in Nat /\ pending[w] \in Nat
      /\ R \in Seq(Msg) /\ \A i \in DOMAIN R : R[i].dat \in Nat
  <2>1. /\ w[1] \in Sides /\ r[1] \in Sides /\ w # r /\ w[1] # r[1] /\ w[2] = t
        /\ r[1] = Other(w[1])
    BY StreamFacts
  <2> QED
    BY <2>1, SideTypes, Numbers, HalfFacts
<1>1. ReadMsg(s)
  BY DEF DemuxNew, DemuxGrant, DemuxEnd, DemuxData
<1>2. s = w[1] /\ Drops(R2, R, t, Got(s)) /\ wire'[w[1]] = wire[w[1]]
  BY <1>0, <1>1, Reads
<1>3. Got(s).kind = "flow" /\ ~Got(s).first
  BY <1>2 DEF Drops, StreamInv, Roles
<1>4. DemuxGrant(s)
  BY <1>3 DEF DemuxNew, DemuxEnd, DemuxData
<1>5. /\ up' = up /\ dm' = dm /\ mapped' = mapped /\ flow' = flow
      /\ pending'[w] = pending[w] + 1
      /\ outq' = outq /\ op' = op /\ fp' = fp /\ usr' = usr /\ inq' = inq
  BY <1>4 DEF DemuxGrant, NewTicket, muxes, procs, TypeInv, TypeOK
<1>6. /\ 1 \in Slots(R, t)
      /\ \A i \in Slots(R2, t) : /\ i \in Nat /\ 1 < i + 1
                                 /\ i + 1 \in Slots(R, t) /\ R2[i] = R[i + 1]
      /\ \A i \in Slots(R, t) : R[i].dat \in Nat
  BY <1>0, <1>2 DEF Drops, Slots
<1> HIDE DEF R, R2
<1>7. /\ Taken(w)' = Taken(w) /\ Seen(r)' = Seen(r)
      /\ Delivering(r)' = Delivering(r) /\ Arrived(r)' = Arrived(r)
  BY <1>5 DEF Taken, Seen, Delivering, Arrived
<1>8. Allowed(w)' = Allowed(w) + Half
  <2>0. /\ flow[w].n \in Nat /\ pending[w] \in Nat /\ Half \in Nat
        /\ op[w].n \in Nat /\ Taken(w) \in Int
    BY <1>0
  <2>1. flow'[w].n + pending'[w] = (flow[w].n + pending[w]) + 1
    <3>1. flow'[w].n = flow[w].n /\ pending'[w] = pending[w] + 1
      BY <1>5
    <3> QED
      BY <2>0, <3>1
  <2>2. \A a, h \in Nat : h * (a + 1) = h * a + h /\ h * a \in Nat
    OBVIOUS
  <2>3. /\ Half * (flow'[w].n + pending'[w]) = Half * (flow[w].n + pending[w]) + Half
        /\ Half * (flow[w].n + pending[w]) \in Nat
    <3>1. flow[w].n + pending[w] \in Nat
      BY <2>0
    <3> QED
      BY <2>0, <2>1, <2>2, <3>1
  <2>4. op'[w].n = op[w].n
    BY <1>5
  <2> QED
    BY <1>7, <2>0, <2>3, <2>4 DEF Allowed
<1>9. Roles(t, w, r)'
  <2>1. \A i \in Slots(R, t) : R[i].kind = "flow" /\ ~R[i].first
    BY DEF StreamInv, Roles, R
  <2>2. \A i \in Slots(R2, t) : R2[i].kind = "flow" /\ ~R2[i].first
    BY <1>6, <2>1
  <2> QED
    BY <1>5, <1>7, <2>2 DEF StreamInv, Roles, R2
<1>10. Firsts(t, w, r)'
  <2>1. Firsts(t, w, r)
    BY DEF StreamInv
  <2> QED
    BY <1>2, <1>5, <1>7, <2>1 DEF Firsts
<1>11. Queue(w)'
  BY <1>5 DEF StreamInv, Queue
<1>12. Data(t, w, r)'
  BY <1>2, <1>5, <1>7 DEF StreamInv, Data
<1>13. Credit(t, w, r)'
  <2>1. /\ (~flow[w].open => ~up[w[1]] \/ op[w].pc = "done")
        /\ flow[w].open => \A i \in Slots(R, t) : R[i].dat >= Allowed(w) - Half
        /\ \A i \in Slots(R, t) : R[i].dat <= Seen(r) - fp[r].n
        /\ \A i, n \in Slots(R, t) : i < n => R[n].dat >= R[i].dat + Half
        /\ (fp[r].pc = "grant" => fp[r].n = Half)
    BY DEF StreamInv, Credit, R
  <2>2. flow'[w].open => Allowed(w)' <= 2 * Half + Seen(r)' - fp'[r].n
    <3>1. flow[w].open => R[1].dat >= Allowed(w) - Half
      BY <1>6, <2>1
    <3>2. R[1].dat <= Seen(r) - fp[r].n /\ R[1].dat \in Nat
      BY <1>6, <2>1
    <3>3. flow[w].open => Allowed(w) + Half <= 2 * Half + Seen(r) - fp[r].n
      <4>1. Allowed(w) \in Int /\ Half \in Nat /\ Seen(r) \in Nat /\ fp[r].n \in Nat
        BY <1>0
      <4> QED
        BY <3>1, <3>2, <4>1
    <3> QED
      BY <1>5, <1>7, <1>8, <3>3
  <2>3. ASSUME flow[w].open, NEW i \in Slots(R2, t)
        PROVE  R2[i].dat >= Allowed(w)' - Half
    <3>1. R2[i].dat >= R[1].dat + Half /\ R2[i].dat \in Nat /\ R[1].dat \in Nat
      BY <1>6, <2>1
    <3>2. R[1].dat >= Allowed(w) - Half
      BY <1>6, <2>1, <2>3
    <3> QED
      BY <1>0, <1>8, <3>1, <3>2
  <2>4. \A i \in Slots(R2, t) : R2[i].dat <= Seen(r)' - fp'[r].n
    BY <1>5, <1>6, <1>7, <2>1
  <2>5. \A i, n \in Slots(R2, t) : i < n => R2[n].dat >= R2[i].dat + Half
    <3>1. \A i, n \in Slots(R2, t) : i < n => i + 1 < n + 1
      BY <1>6
    <3> QED
      BY <1>6, <2>1, <3>1
  <2> QED
    BY <1>5, <2>1, <2>2, <2>3, <2>4, <2>5 DEF Credit, R2
<1> QED
  BY <1>9, <1>10, <1>11, <1>12, <1>13 DEF StreamInv

\* What the reader's demux may assume when it reads m for this stream, and W2
\* is left to be read.
ReaderGot(t, w, r, s, m, W2) ==
    /\ s = r[1] /\ wire'[r[1]] = wire[r[1]] /\ m \in Msg /\ m.dat \in Nat
    /\ dm[s].pc = "read" /\ ~Delivering(r)
    /\ op[w].first => op[w].pc \in {"drop", "done"}
    /\ m.first => fp[r].pc = "off"
    /\ m.kind # "data" => op[w].pc \in {"drop", "done"}
    /\ m.kind = "data" => /\ Arrived(r) < m.dat /\ m.dat <= Taken(w)
                          /\ m.dat <= 2 * Half + Seen(r)
    /\ \A i \in Slots(W2, t) :
          /\ W2[i].kind # "data" => op[w].pc \in {"drop", "done"}
          /\ W2[i].first => fp[r].pc = "off"
          /\ m.first => ~W2[i].first
          /\ m.first /\ W2[i].kind = "data" => W2[i].dat >= 2
    /\ \A i, n \in Slots(W2, t) : i # n /\ W2[i].first =>
          ~W2[n].first /\ (W2[n].kind = "data" => W2[n].dat >= 2)
    /\ \A i \in DataSlots(W2, t) :
          /\ i \in Slots(W2, t) /\ W2[i].kind = "data" /\ W2[i].dat \in Nat
          /\ Arrived(r) < W2[i].dat
          /\ W2[i].dat <= Taken(w)
          /\ W2[i].dat <= 2 * Half + Seen(r)
          /\ m.kind = "data" => m.dat < W2[i].dat
    /\ \A i, n \in DataSlots(W2, t) : i < n => W2[i].dat < W2[n].dat

\* What the invariant says of a message once demux has read it.
LEMMA ReaderReads ==
    ASSUME TypeInv, TypeInv',
           NEW t \in Tags, NEW w \in Ends, NEW r \in Ends, OneWay(t, w, r),
           StreamInv(t, w, r), NEW s \in Sides, ReadMsg(s), GotEnd(s) = r
    PROVE  ReaderGot(t, w, r, s, Got(s), wire'[w[1]])
<1> DEFINE W == wire[w[1]]
           W2 == wire'[w[1]]
           m == Got(s)
<1>0. /\ r[2] = t /\ w[1] = Other(r[1]) /\ w[1] \in Sides /\ W \in Seq(Msg)
      /\ \A i \in DOMAIN W : W[i].dat \in Nat
  <2>1. r[2] = t /\ w[1] = Other(r[1]) /\ w[1] \in Sides
    BY StreamFacts
  <2> QED
    BY <2>1, SideTypes, Numbers
<1>1. /\ s = r[1] /\ m \in Msg /\ Drops(W2, W, t, m) /\ wire'[r[1]] = wire[r[1]]
      /\ dm[s].pc = "read"
  BY <1>0, Reads
<1> HIDE DEF W, W2, m
<1>2. ~Delivering(r) /\ m.dat \in Nat
  BY <1>1 DEF Delivering, Msg
<1>3. /\ 1 \in Slots(W, t) /\ W[1] = m
      /\ \A i \in Slots(W2, t) : /\ i \in Nat /\ 1 < i + 1 /\ 1 # i + 1
                                 /\ i + 1 \in Slots(W, t) /\ W2[i] = W[i + 1]
      /\ \A i \in DataSlots(W2, t) : i \in Slots(W2, t) /\ i + 1 \in DataSlots(W, t)
      /\ m.kind = "data" => 1 \in DataSlots(W, t)
  BY <1>1 DEF Drops
<1>4. \A i \in DataSlots(W, t) : i \in DOMAIN W /\ W[i].kind = "data"
  BY DEF DataSlots, Slots
<1>5. /\ op[w].first /\ op[w].pc \notin {"drop", "done"} => Slots(W, t) = {}
      /\ \A i \in Slots(W, t) : W[i].first => fp[r].pc = "off"
      /\ \A i, n \in Slots(W, t) : i # n /\ W[i].first =>
            ~W[n].first /\ (W[n].kind = "data" => W[n].dat >= 2)
      /\ \A i \in Slots(W, t) : W[i].kind # "data" => op[w].pc \in {"drop", "done"}
  BY DEF StreamInv, Firsts, W
<1>6. /\ \A i \in DataSlots(W, t) : /\ Arrived(r) < W[i].dat
                                    /\ W[i].dat <= Taken(w)
                                    /\ W[i].dat <= 2 * Half + Seen(r)
      /\ \A i, n \in DataSlots(W, t) : i < n => W[i].dat < W[n].dat
  BY DEF StreamInv, Data, W
<1>7. /\ op[w].first => op[w].pc \in {"drop", "done"}
      /\ m.first => fp[r].pc = "off"
      /\ m.kind # "data" => op[w].pc \in {"drop", "done"}
  BY <1>3, <1>5
<1>8. m.kind = "data" => /\ Arrived(r) < m.dat /\ m.dat <= Taken(w)
                         /\ m.dat <= 2 * Half + Seen(r)
  BY <1>3, <1>6
<1>9. \A i \in Slots(W2, t) :
         /\ W2[i].kind # "data" => op[w].pc \in {"drop", "done"}
         /\ W2[i].first => fp[r].pc = "off"
         /\ m.first => ~W2[i].first
         /\ m.first /\ W2[i].kind = "data" => W2[i].dat >= 2
  BY <1>3, <1>5
<1>10. ASSUME NEW i \in Slots(W2, t), NEW n \in Slots(W2, t), i # n, W2[i].first
       PROVE  ~W2[n].first /\ (W2[n].kind = "data" => W2[n].dat >= 2)
  <2>1. i + 1 # n + 1
    BY <1>3, <1>10
  <2> QED
    BY <1>3, <1>5, <1>10, <2>1
<1>11. \A i \in DataSlots(W2, t) :
          /\ i \in Slots(W2, t) /\ W2[i].kind = "data" /\ W2[i].dat \in Nat
          /\ Arrived(r) < W2[i].dat
          /\ W2[i].dat <= Taken(w)
          /\ W2[i].dat <= 2 * Half + Seen(r)
          /\ m.kind = "data" => m.dat < W2[i].dat
  BY <1>0, <1>3, <1>4, <1>6
<1>12. \A i, n \in DataSlots(W2, t) : i < n => W2[i].dat < W2[n].dat
  <2>1. \A i, n \in DataSlots(W2, t) : i < n => i + 1 < n + 1
    BY <1>3
  <2> QED
    BY <1>3, <1>6, <2>1
<1>13. ReaderGot(t, w, r, s, m, W2)
  BY <1>1, <1>2, <1>7, <1>8, <1>9, <1>10, <1>11, <1>12 DEF ReaderGot
<1> QED
  BY <1>13 DEF m, W2

\* The reader's demux makes the connection.
LEMMA ReaderNew ==
    ASSUME TypeInv, TypeInv',
           NEW t \in Tags, NEW w \in Ends, NEW r \in Ends, OneWay(t, w, r),
           StreamInv(t, w, r), NEW s \in Sides, GotEnd(s) = r, DemuxNew(s)
    PROVE  StreamInv(t, w, r)'
<1> DEFINE W2 == wire'[w[1]]
           m == Got(s)
<1>0. /\ w # r /\ w[1] # r[1] /\ w[1] \in Sides /\ r[1] \in Sides /\ Half \in Nat
      /\ Seen(r) \in Nat /\ fp[r].n \in Nat /\ Taken(w) \in Int /\ Allowed(w) \in Int
  <2>1. w # r /\ w[1] # r[1] /\ w[1] \in Sides /\ r[1] \in Sides
    BY StreamFacts
  <2> QED
    BY <2>1, Numbers, HalfFacts
<1>1. ReaderGot(t, w, r, s, m, W2)
  BY ReaderReads DEF DemuxNew
<1>2. /\ op' = op /\ usr' = usr /\ up' = up /\ fp'[w] = fp[w] /\ outq'[w] = outq[w]
      /\ flow'[w] = flow[w] /\ pending' = pending /\ m.first
      /\ fp'[r] = [pc |-> "recv", msg |-> 0, n |-> 0]
      /\ inq'[r] = Push(NewChan, m.dat)
  BY <1>0 DEF DemuxNew, NewIn, TypeInv, TypeOK
<1>3. /\ dm'[s] = [dm[s] EXCEPT !.pc = "accept", !.tag = m.tag]
      /\ \A z \in Sides : z # s => dm'[z] = dm[z]
  BY DEF DemuxNew, TypeInv, TypeOK
<1> HIDE DEF W2, m
<1>4. s = r[1] /\ wire'[r[1]] = wire[r[1]] /\ m.dat \in Nat /\ ~Delivering(r)
  BY <1>1 DEF ReaderGot
<1>5. fp[r].pc = "off" /\ Seen(r) = 0 /\ inq[r].buf = <<>>
  BY <1>1, <1>2 DEF ReaderGot, StreamInv, Roles
<1>6. fp'[r].pc = "recv" /\ fp'[r].n = 0 /\ Len(inq'[r].buf) = 1
  <2>1. NewChan \in Chan(Nat) /\ NewChan.buf = <<>>
    BY DEF NewChan, Chan
  <2>2. inq'[r].buf = Append(<<>>, m.dat)
    BY <1>2, <2>1 DEF Push
  <2> QED
    BY <1>2, <2>2
<1>7. ~Delivering(r)' /\ dm'[w[1]] = dm[w[1]]
  <2>1. dm'[s].pc = "accept"
    BY <1>3, SideTypes DEF DmState
  <2> QED
    BY <1>0, <1>3, <1>4, <2>1 DEF Delivering
<1>8. /\ Taken(w)' = Taken(w) /\ Allowed(w)' = Allowed(w) /\ Seen(r)' = 0
      /\ Arrived(r) = 0
  <2>1. Taken(w)' = Taken(w) /\ Seen(r)' = 0
    BY <1>2, <1>5 DEF Taken, Seen
  <2>2. Allowed(w)' = Allowed(w)
    BY <1>2, <2>1 DEF Allowed
  <2>3. Len(inq[r].buf) = 0 /\ fp[r].pc # "send"
    BY <1>5
  <2>4. Arrived(r) = 0
    BY <1>4, <1>5, <2>3 DEF Arrived
  <2> QED
    BY <2>1, <2>2, <2>4
<1>9. Arrived(r)' = 1
  <2>1. fp'[r].pc # "send"
    BY <1>6
  <2> QED
    BY <1>6, <1>7, <1>8, <2>1 DEF Arrived
<1>10. Roles(t, w, r)'
  BY <1>2, <1>4, <1>6, <1>7 DEF StreamInv, Roles
<1>11. Firsts(t, w, r)'
  <2>1. /\ op'[w].first => op'[w].pc \in {"drop", "done"}
        /\ \A i \in Slots(W2, t) : /\ ~W2[i].first
                                   /\ W2[i].kind # "data" => op'[w].pc \in {"drop", "done"}
    BY <1>1, <1>2 DEF ReaderGot
  <2>2. ~op'[w].first => Taken(w)' >= 1
    BY <1>2, <1>8 DEF StreamInv, Firsts
  <2>3. op'[w].first /\ op'[w].pc \notin {"drop", "done"}
            => fp'[r].pc = "off" /\ Slots(W2, t) = {}
    BY <2>1
  <2>4. \A i \in Slots(W2, t) : W2[i].first => fp'[r].pc = "off"
    BY <2>1
  <2>5. \A i, n \in Slots(W2, t) : i # n /\ W2[i].first =>
           ~W2[n].first /\ (W2[n].kind = "data" => W2[n].dat >= 2)
    BY <2>1
  <2>6. \A i \in Slots(W2, t) : W2[i].kind # "data" => op'[w].pc \in {"drop", "done"}
    BY <2>1
  <2> QED
    BY <2>2, <2>3, <2>4, <2>5, <2>6 DEF Firsts, W2
<1>12. Queue(w)'
  BY <1>2 DEF StreamInv, Queue
<1>13. Data(t, w, r)'
  <2>1. op'[w].pc \notin {"drop", "done"} => Arrived(r)' <= Taken(w)'
    <3> SUFFICES ASSUME op[w].pc \notin {"drop", "done"} PROVE 1 <= Taken(w)
      BY <1>2, <1>8, <1>9
    <3>1. Arrived(r) < m.dat /\ m.dat <= Taken(w)
      BY <1>1 DEF ReaderGot
    <3> QED
      BY <1>0, <1>4, <1>8, <3>1
  <2>2. \A i \in DataSlots(W2, t) : /\ Arrived(r)' < W2[i].dat
                                    /\ W2[i].dat <= Taken(w)'
                                    /\ W2[i].dat <= 2 * Half + Seen(r)'
    <3>1. \A i \in DataSlots(W2, t) : /\ W2[i].dat >= 2 /\ W2[i].dat \in Nat
                                      /\ W2[i].dat <= Taken(w)
                                      /\ W2[i].dat <= 2 * Half + Seen(r)
      BY <1>1, <1>2 DEF ReaderGot
    <3>2. \A i \in DataSlots(W2, t) : 1 < W2[i].dat
      BY <3>1
    <3> QED
      BY <1>5, <1>8, <1>9, <3>1, <3>2
  <2>3. \A i, n \in DataSlots(W2, t) : i < n => W2[i].dat < W2[n].dat
    BY <1>1 DEF ReaderGot
  <2> QED
    BY <1>7, <2>1, <2>2, <2>3 DEF Data, W2
<1>14. Credit(t, w, r)'
  <2> DEFINE R == wire[r[1]]
  <2>1. \A i \in Slots(R, t) : R[i].dat \in Nat
    BY <1>0, Numbers DEF Slots
  <2>2. Credit(t, w, r)
    BY DEF StreamInv
  <2>3. flow'[w].open => Allowed(w)' <= 2 * Half + Seen(r)' - fp'[r].n
    <3>1. flow[w].open => Allowed(w) <= 2 * Half + Seen(r) - fp[r].n
      BY <2>2 DEF Credit
    <3> QED
      BY <1>0, <1>2, <1>5, <1>6, <1>8, <3>1
  <2>4. \A i \in Slots(R, t) : R[i].dat <= Seen(r)' - fp'[r].n
    <3>1. \A i \in Slots(R, t) : R[i].dat <= Seen(r) - fp[r].n
      BY <2>2 DEF Credit
    <3> HIDE DEF R
    <3>2. Seen(r)' - fp'[r].n = 0 /\ Seen(r) = 0
      BY <1>5, <1>6, <1>8
    <3> QED
      BY <1>0, <2>1, <3>1, <3>2
  <2> QED
    BY <1>2, <1>4, <1>6, <1>8, <2>2, <2>3, <2>4 DEF Credit
<1> QED
  BY <1>10, <1>11, <1>12, <1>13, <1>14 DEF StreamInv

\* The reader's demux is about to deliver a message.
LEMMA ReaderData ==
    ASSUME TypeInv, TypeInv',
           NEW t \in Tags, NEW w \in Ends, NEW r \in Ends, OneWay(t, w, r),
           StreamInv(t, w, r), NEW s \in Sides, GotEnd(s) = r, DemuxData(s)
    PROVE  StreamInv(t, w, r)'
<1> DEFINE W2 == wire'[w[1]]
           m == Got(s)
<1>0. /\ w # r /\ w[1] # r[1] /\ w[1] \in Sides /\ r[1] \in Sides /\ Half \in Nat
      /\ Seen(r) \in Nat /\ Arrived(r) \in Nat /\ Taken(w) \in Int /\ r[2] = t
      /\ ~IsOpener(r)
  <2>1. /\ w # r /\ w[1] # r[1] /\ w[1] \in Sides /\ r[1] \in Sides /\ r[2] = t
        /\ ~IsOpener(r)
    BY StreamFacts
  <2> QED
    BY <2>1, Numbers, HalfFacts
<1>1. ReaderGot(t, w, r, s, m, W2) /\ m.tag = t
  BY <1>0, ReaderReads, Reads DEF DemuxData
<1>2. /\ op' = op /\ fp' = fp /\ usr' = usr /\ up' = up /\ inq' = inq /\ outq' = outq
      /\ flow' = flow /\ pending' = pending /\ mapped' = mapped
      /\ m.kind = "data" /\ r \in mapped
  BY DEF DemuxData, chans, procs
<1>3. /\ dm'[s] = [pc |-> "deliver", tag |-> m.tag, dat |-> m.dat]
      /\ \A z \in Sides : z # s => dm'[z] = dm[z]
  BY <1>0 DEF DemuxData, TypeInv, TypeOK
<1> HIDE DEF W2, m
<1>4. s = r[1] /\ wire'[r[1]] = wire[r[1]] /\ m.dat \in Nat /\ ~Delivering(r)
  BY <1>1 DEF ReaderGot
<1>5. Delivering(r)' /\ dm'[r[1]].dat = m.dat /\ dm'[w[1]] = dm[w[1]]
  BY <1>0, <1>1, <1>3, <1>4 DEF Delivering
<1>6. /\ Taken(w)' = Taken(w) /\ Allowed(w)' = Allowed(w) /\ Seen(r)' = Seen(r)
  BY <1>2 DEF Taken, Allowed, Seen
<1>7. Arrived(r)' = Arrived(r) + 1
  <2> DEFINE a == Seen(r) + (IF fp[r].pc = "send" THEN 1 ELSE 0) + Len(inq[r].buf)
  <2>1. a \in Nat
    <3>1. Len(inq[r].buf) \in Nat
      BY Numbers
    <3> QED
      BY <1>0, <3>1
  <2>2. Arrived(r) = a + 0 /\ Arrived(r)' = a + 1
    BY <1>2, <1>4, <1>5, <1>6 DEF Arrived
  <2> HIDE DEF a
  <2> QED
    BY <2>1, <2>2
<1>8. Roles(t, w, r)'
  BY <1>2, <1>4, <1>5, <1>6 DEF StreamInv, Roles
<1>9. Firsts(t, w, r)'
  <2>1. /\ op'[w].first => op'[w].pc \in {"drop", "done"}
        /\ \A i \in Slots(W2, t) : /\ W2[i].first => fp'[r].pc = "off"
                                   /\ W2[i].kind # "data" => op'[w].pc \in {"drop", "done"}
        /\ \A i, n \in Slots(W2, t) : i # n /\ W2[i].first =>
              ~W2[n].first /\ (W2[n].kind = "data" => W2[n].dat >= 2)
    BY <1>1, <1>2 DEF ReaderGot
  <2>2. ~op'[w].first => Taken(w)' >= 1
    BY <1>2, <1>6 DEF StreamInv, Firsts
  <2>3. op'[w].first /\ op'[w].pc \notin {"drop", "done"}
            => fp'[r].pc = "off" /\ Slots(W2, t) = {}
    BY <2>1
  <2>4. \A i \in Slots(W2, t) : W2[i].first => fp'[r].pc = "off"
    BY <2>1
  <2>5. \A i, n \in Slots(W2, t) : i # n /\ W2[i].first =>
           ~W2[n].first /\ (W2[n].kind = "data" => W2[n].dat >= 2)
    BY <2>1
  <2>6. \A i \in Slots(W2, t) : W2[i].kind # "data" => op'[w].pc \in {"drop", "done"}
    BY <2>1
  <2> QED
    BY <2>2, <2>3, <2>4, <2>5, <2>6 DEF Firsts, W2
<1>10. Queue(w)'
  BY <1>2 DEF StreamInv, Queue
<1>11. Data(t, w, r)'
  <2>0. Arrived(r) < m.dat /\ m.dat <= Taken(w) /\ m.dat <= 2 * Half + Seen(r)
    BY <1>1, <1>2 DEF ReaderGot
  <2>1. Arrived(r)' <= Taken(w)' /\ Arrived(r)' <= m.dat
    BY <1>0, <1>4, <1>6, <1>7, <2>0
  <2>2. \A i \in DataSlots(W2, t) : /\ Arrived(r)' < W2[i].dat
                                    /\ W2[i].dat <= Taken(w)'
                                    /\ W2[i].dat <= 2 * Half + Seen(r)'
    <3>1. \A i \in DataSlots(W2, t) : /\ m.dat < W2[i].dat /\ W2[i].dat \in Nat
                                      /\ W2[i].dat <= Taken(w)
                                      /\ W2[i].dat <= 2 * Half + Seen(r)
      BY <1>1, <1>2 DEF ReaderGot
    <3>2. \A i \in DataSlots(W2, t) : Arrived(r)' < W2[i].dat
      BY <1>0, <1>4, <1>7, <2>0, <3>1
    <3> QED
      BY <1>6, <3>1, <3>2
  <2>3. \A i, n \in DataSlots(W2, t) : i < n => W2[i].dat < W2[n].dat
    BY <1>1 DEF ReaderGot
  <2>4. /\ Arrived(r)' <= dm'[r[1]].dat /\ dm'[r[1]].dat <= Taken(w)'
        /\ dm'[r[1]].dat <= 2 * Half + Seen(r)'
    BY <1>5, <1>6, <2>0, <2>1
  <2> QED
    BY <2>1, <2>2, <2>3, <2>4 DEF Data, W2
<1>12. Credit(t, w, r)'
  BY <1>2, <1>4, <1>6 DEF StreamInv, Credit
<1> QED
  BY <1>8, <1>9, <1>10, <1>11, <1>12 DEF StreamInv

\* m.Close() of either side.
LEMMA MuxCloses ==
    ASSUME TypeInv, TypeInv', NEW w \in Ends, NEW r \in Ends, NEW s \in Sides,
           CloseMux(s), pending' = pending
    PROVE  SameChans(w, r) /\ Closing(w) /\ mapped' \subseteq mapped
<1>1. Conns(s) \in SUBSET Ends /\ CloseConns(Conns(s), TRUE)
  BY DEF CloseMux, Conns, TypeInv, TypeOK
<1>2. up'[w[1]] => up[w[1]] /\ w[1] # s
  BY EndsFacts DEF CloseMux, TypeInv, TypeOK
<1>3. w \in Conns(s) => w[1] = s
  BY DEF Conns
<1> QED
  BY <1>1, <1>2, <1>3, ConnsClosed

\* The steps of demux that do not read.
LEMMA DemuxRest ==
    ASSUME TypeInv, TypeInv',
           NEW t \in Tags, NEW w \in Ends, NEW r \in Ends, OneWay(t, w, r),
           StreamInv(t, w, r), NEW s \in Sides,
           \/ DemuxAccept(s) \/ DemuxRefused(s) \/ DemuxDeliver(s) \/ DemuxClosed(s)
           \/ DemuxEOF(s) \/ DemuxClose(s)
    PROVE  StreamInv(t, w, r)'
<1> DEFINE e == <<s, dm[s].tag>>
<1>0. /\ w[1] \in Sides /\ r[1] \in Sides /\ w # r /\ w[2] = t /\ r[2] = t
      /\ w = <<w[1], t>> /\ r = <<r[1], t>> /\ t \notin Rpcs
      /\ dm[s] \in DmState /\ dm[s].tag \in Tags /\ e \in Ends
  <2>1. /\ w[1] \in Sides /\ r[1] \in Sides /\ w # r /\ w[2] = t /\ r[2] = t
        /\ w = <<w[1], t>> /\ r = <<r[1], t>> /\ t \notin Rpcs
    BY StreamFacts DEF OneWay
  <2>2. dm[s] \in DmState
    BY SideTypes
  <2>3. dm[s].tag \in Tags
    BY <2>2 DEF DmState
  <2> QED
    BY <2>1, <2>2, <2>3, EndsFacts
<1>1. wire' = wire /\ fp' = fp /\ usr' = usr /\ pending' = pending
  BY DEF DemuxAccept, DemuxRefused, DemuxDeliver, DemuxClosed, DemuxEOF, DemuxClose,
         device, chans, procs
<1>2. SameWires(t)
  BY <1>1, WireSame DEF SameWires
<1>3. Roles(t, w, r) /\ (dm[s].pc \in {"accept", "deliver"} => e # w)
  BY <1>0 DEF StreamInv, Roles
<1>4. /\ dm'[s].pc \in {"read", "close", "done"} /\ dm'[s].tag = dm[s].tag
      /\ \A z \in Sides : z # s => dm'[z] = dm[z]
  <2>1. /\ \E p \in {"read", "close", "done"} : dm' = [dm EXCEPT ![s].pc = p]
        /\ dm \in [Sides -> DmState]
    BY DEF DemuxAccept, DemuxRefused, DemuxDeliver, DemuxClosed, DemuxEOF, DemuxClose,
           TypeInv, TypeOK
  <2>2. PICK p \in {"read", "close", "done"} : dm' = [dm EXCEPT ![s].pc = p]
    BY <2>1
  <2>3. /\ dm'[s] = [dm[s] EXCEPT !.pc = p]
        /\ \A z \in Sides : z # s => dm'[z] = dm[z]
    BY <2>1, <2>2
  <2> QED
    BY <1>0, <2>2, <2>3 DEF DmState
<1>5. /\ dm'[w[1]].tag = t => dm'[w[1]].pc \notin {"accept", "deliver"}
      /\ Delivering(r)' => Delivering(r) /\ dm'[r[1]].dat = dm[r[1]].dat
  BY <1>0, <1>3, <1>4 DEF Roles, Delivering
<1>6. CASE DemuxDeliver(s) /\ e = r
  <2>0. /\ Half \in Nat /\ Seen(r) \in Nat /\ fp[r].n \in Nat /\ Arrived(r) \in Nat
        /\ Taken(w) \in Int /\ Len(inq[r].buf) \in Nat /\ inq[r].buf \in Seq(Nat)
    <3>1. inq[r].buf \in Seq(Nat)
      BY EndTypes, ChanFacts
    <3> QED
      BY <3>1, Numbers, HalfFacts
  <2>1. /\ up' = up /\ mapped' = mapped /\ flow' = flow /\ outq' = outq /\ op' = op
        /\ dm[s].pc = "deliver" /\ inq'[r] = Push(inq[r], dm[s].dat)
    BY <1>6 DEF DemuxDeliver, device, procs, TypeInv, TypeOK
  <2>2. s = r[1] /\ Delivering(r) /\ ~Delivering(r)'
    BY <1>0, <1>4, <1>6, <2>1 DEF Delivering
  <2>3. Len(inq'[r].buf) = Len(inq[r].buf) + 1
    <3>1. inq'[r].buf = Append(inq[r].buf, dm[s].dat)
      BY <2>1, EndTypes DEF Push, Chan
    <3> QED
      BY <2>0, <3>1
  <2>4. /\ Taken(w)' = Taken(w) /\ Allowed(w)' = Allowed(w) /\ Seen(r)' = Seen(r)
    BY <1>1, <2>1 DEF Taken, Allowed, Seen
  <2>5. Arrived(r)' = Arrived(r)
    <3> DEFINE a == IF fp[r].pc = "send" THEN 1 ELSE 0
    <3>1. a \in Nat
      OBVIOUS
    <3>2. Arrived(r) = Seen(r) + a + Len(inq[r].buf) + 1
      BY <2>2 DEF Arrived
    <3>3. Arrived(r)' = Seen(r) + a + Len(inq'[r].buf) + 0
      BY <1>1, <2>2, <2>4 DEF Arrived
    <3> HIDE DEF a
    <3> QED
      BY <2>0, <2>3, <3>1, <3>2, <3>3
  <2>6. Queue(w)'
    BY <1>1, <2>1 DEF StreamInv, Queue
  <2>7. /\ (~op[w].first => Taken(w) >= 1) /\ (fp[r].pc = "grant" => fp[r].n = Half)
        /\ (~flow[w].open => ~up[w[1]] \/ op[w].pc = "done")
        /\ fp[w].pc = "off" /\ op[r].pc = "off" /\ fp[r].pc # "off"
    BY <2>2 DEF StreamInv, Firsts, Credit, Roles
  <2>8. /\ Taken(w)' >= Taken(w) /\ Arrived(r)' <= Arrived(r) /\ Seen(r)' >= Seen(r)
        /\ Seen(r)' - fp'[r].n >= Seen(r) - fp[r].n
    BY <1>1, <2>0, <2>4, <2>5
  <2> QED
    BY <1>0, <1>1, <1>2, <1>5, <2>1, <2>4, <2>6, <2>7, <2>8, Frame DEF SameWires
<1>7. CASE ~(DemuxDeliver(s) /\ e = r)
  <2>1. op'[w] = op[w] /\ op'[r] = op[r]
    <3>1. CASE DemuxAccept(s)
      <4>1. dm[s].tag \in Rpcs => e # w /\ e # r
        BY <1>0
      <4> QED
        BY <3>1, <4>1 DEF DemuxAccept, TypeInv, TypeOK
    <3>2. CASE ~DemuxAccept(s)
      BY <3>2 DEF DemuxRefused, DemuxDeliver, DemuxClosed, DemuxEOF, DemuxClose, procs
    <3> QED
      BY <3>1, <3>2
  <2>2. SameChans(w, r) /\ Closing(w) /\ mapped' \subseteq mapped
    <3>1. CASE DemuxAccept(s) \/ DemuxEOF(s)
      BY <3>1 DEF DemuxAccept, DemuxEOF, SameChans, Closing, chans, device
    <3>2. CASE DemuxDeliver(s)
      <4>1. inq'[r] = inq[r]
        BY <1>7, <3>2 DEF DemuxDeliver, TypeInv, TypeOK
      <4> QED
        BY <1>1, <3>2, <4>1 DEF DemuxDeliver, SameChans, Closing, device
    <3>3. CASE DemuxRefused(s) \/ DemuxClosed(s)
      <4>1. /\ \E b : CloseConns({e}, b)
            /\ up' = up /\ w \notin {e} /\ {e} \in SUBSET Ends
        BY <1>0, <1>3, <3>3 DEF DemuxRefused, DemuxClosed, device
      <4> QED
        BY <1>1, <4>1, ConnsClosed
    <3>4. CASE DemuxClose(s)
      BY <1>1, <3>4, MuxCloses DEF DemuxClose
    <3> QED
      BY <3>1, <3>2, <3>3, <3>4
  <2>3. SameSides(t, w, r)
    BY <1>5, <2>2 DEF SameSides
  <2> QED
    BY <1>1, <1>2, <2>1, <2>2, <2>3, Untouched DEF SameProcs, SameUsers
<1> QED
  BY <1>6, <1>7

\* Every step of demux keeps the invariant of every one-way stream.
LEMMA DemuxFlow ==
    ASSUME TypeInv, TypeInv',
           NEW t \in Tags, NEW w \in Ends, NEW r \in Ends, OneWay(t, w, r),
           StreamInv(t, w, r), NEW s \in Sides, Demux(s)
    PROVE  StreamInv(t, w, r)'
<1>1. CASE \/ DemuxAccept(s) \/ DemuxRefused(s) \/ DemuxDeliver(s) \/ DemuxClosed(s)
           \/ DemuxEOF(s) \/ DemuxClose(s)
  BY <1>1, DemuxRest
<1>2. CASE DemuxDiscard(s)
  BY <1>2, DemuxOther
<1>3. CASE DemuxNew(s) \/ DemuxGrant(s) \/ DemuxEnd(s) \/ DemuxData(s)
  <2>1. CASE GotEnd(s) = w
    BY <1>3, <2>1, WriterGets
  <2>2. CASE GotEnd(s) = r
    <3>1. w # r
      BY StreamFacts
    <3> QED
      BY <1>3, <2>2, <3>1, ReaderNew, ReaderData, DemuxOther
  <2>3. CASE GotEnd(s) \notin {w, r}
    <3>1. Got(s).tag # t
      <4>1. wire[Other(s)] \in Seq(Msg) /\ wire[Other(s)] # <<>>
        BY <1>3, SideTypes, EndsFacts
           DEF DemuxNew, DemuxGrant, DemuxEnd, DemuxData, ReadMsg
      <4>2. Got(s) \in Msg
        BY <4>1 DEF Got
      <4>3. GotEnd(s) \in Ends /\ GotEnd(s)[2] = Got(s).tag
        BY <4>2, EndsFacts DEF GotEnd, Msg
      <4> QED
        BY <2>3, <4>3, StreamFacts
    <3> QED
      BY <1>3, <2>3, <3>1, DemuxOther
  <2> QED
    BY <2>1, <2>2, <2>3
<1> QED
  BY <1>1, <1>2, <1>3 DEF Demux

\* The user of the writer opens the stream or sends a message.
LEMMA WriterUser ==
    ASSUME TypeInv, TypeInv',
           NEW t \in Tags, NEW w \in Ends, NEW r \in Ends, OneWay(t, w, r),
           StreamInv(t, w, r), Open(w) \/ UserSend(w)
    PROVE  StreamInv(t, w, r)'
<1>0. /\ w[1] \in Sides /\ r[1] \in Sides /\ w # r /\ Half \in Nat
      /\ op[w] \in OpState /\ usr[w] \in UserState /\ outq[w].buf \in Seq(Nat)
      /\ Seen(r) \in Nat /\ fp[r].n \in Nat /\ Arrived(r) \in Nat /\ Taken(w) \in Int
      /\ op[w].msg \in Nat
  <2>1. outq[w].buf \in Seq(Nat)
    BY EndTypes, ChanFacts
  <2> QED
    BY <2>1, StreamFacts, EndTypes, Numbers, HalfFacts
<1>1. /\ wire' = wire /\ up' = up /\ dm' = dm /\ inq' = inq /\ flow' = flow
      /\ pending' = pending /\ fp' = fp /\ usr'[r] = usr[r] /\ op'[r] = op[r]
      /\ (r \in mapped' => r \in mapped)
  BY <1>0 DEF Open, UserSend, device, muxes, chans, procs, TypeInv, TypeOK
<1>2. SameWires(t)
  BY <1>1, WireSame DEF SameWires
<1>3. /\ Seen(r)' = Seen(r) /\ Arrived(r)' = Arrived(r)
      /\ (Delivering(r)' <=> Delivering(r))
  BY <1>1 DEF Seen, Arrived, Delivering
<1>4. /\ Roles(t, w, r) /\ Queue(w) /\ (~op[w].first => Taken(w) >= 1)
      /\ (~flow[w].open => ~up[w[1]] \/ op[w].pc = "done")
      /\ (fp[r].pc = "grant" => fp[r].n = Half)
  BY DEF StreamInv, Firsts, Credit
<1>5. /\ Taken(w)' = Taken(w) /\ Allowed(w)' = Allowed(w) /\ Queue(w)'
      /\ op'[w].first = op[w].first
      /\ (op[w].pc \in {"drop", "done"} => op'[w].pc = op[w].pc)
  <2>1. CASE Open(w)
    <3>1. /\ op[w].pc = "off" /\ outq' = outq
          /\ op'[w] = [op[w] EXCEPT !.pc = "first"]
          /\ usr'[w] = [usr[w] EXCEPT !.has = TRUE]
      BY <2>1 DEF Open, chans, TypeInv, TypeOK
    <3>2. /\ op'[w].pc = "first" /\ op'[w].msg = op[w].msg /\ op'[w].n = op[w].n
          /\ op'[w].first = op[w].first /\ usr'[w].sent = usr[w].sent
      BY <1>0, <3>1 DEF OpState, UserState
    <3>3. Taken(w)' = Taken(w)
      BY <3>1, <3>2 DEF Taken
    <3>4. Allowed(w)' = Allowed(w)
      BY <1>1, <3>2, <3>3 DEF Allowed
    <3>5. Queue(w)'
      BY <1>4, <3>1, <3>2 DEF Queue
    <3> QED
      BY <3>1, <3>2, <3>3, <3>4, <3>5
  <2>2. CASE UserSend(w)
    <3>1. /\ op' = op /\ outq'[w] = Push(outq[w], usr[w].sent + 1)
          /\ usr'[w] = [usr[w] EXCEPT !.sent = usr[w].sent + 1]
      BY <2>2 DEF UserSend, procs, TypeInv, TypeOK
    <3>2. /\ usr'[w].sent = usr[w].sent + 1
          /\ outq'[w].buf = Append(outq[w].buf, usr[w].sent + 1)
          /\ usr[w].sent \in Nat
      BY <1>0, <3>1, EndTypes DEF UserState, Push, Chan
    <3>3. Taken(w)' = Taken(w) /\ Allowed(w)' = Allowed(w)
      BY <1>1, <3>1 DEF Taken, Allowed
    <3>4. Queue(w)'
      <4> DEFINE l == Len(outq[w].buf)
                 l2 == Len(outq'[w].buf)
      <4>1. /\ l \in Nat /\ l2 = l + 1 /\ outq'[w].buf[l + 1] = usr[w].sent + 1
            /\ \A i \in 1..l : outq'[w].buf[i] = outq[w].buf[i]
        BY <1>0, <3>2
      <4>2. /\ \A i \in 1..l : outq[w].buf[i] = op[w].msg + i
            /\ usr[w].sent = op[w].msg + l
            /\ (op[w].pc \in {"off", "first"} => op[w].n = 0)
            /\ (op[w].pc \in {"credit", "write"} => op[w].msg >= 1)
        BY <1>4 DEF Queue
      <4> HIDE DEF l, l2
      <4>3. usr[w].sent + 1 = op[w].msg + (l + 1)
        <5>1. op[w].msg \in Nat /\ l \in Nat /\ usr[w].sent = op[w].msg + l
          BY <1>0, <4>1, <4>2
        <5> QED
          BY <5>1
      <4>4. \A i \in 1..l2 : i \in 1..l \/ i = l + 1
        <5>1. l \in Nat /\ l2 = l + 1
          BY <4>1
        <5> QED
          BY <5>1
      <4>5. \A i \in 1..l2 : outq'[w].buf[i] = op[w].msg + i
        BY <4>1, <4>2, <4>3, <4>4
      <4>6. usr'[w].sent = op[w].msg + l2
        BY <3>2, <4>1, <4>3
      <4> QED
        BY <3>1, <4>2, <4>5, <4>6 DEF Queue, l2
    <3> QED
      BY <3>1, <3>3, <3>4
  <2> QED
    BY <2>1, <2>2
<1>6. /\ fp'[w].pc = "off" /\ op'[r].pc = "off"
      /\ dm'[w[1]].tag = t => dm'[w[1]].pc \notin {"accept", "deliver"}
  BY <1>1, <1>4 DEF Roles
<1>7. ~flow'[w].open => ~up'[w[1]] \/ op'[w].pc = "done"
  BY <1>1, <1>4, <1>5
<1>8. /\ Taken(w)' >= Taken(w) /\ Arrived(r)' <= Arrived(r) /\ Seen(r)' >= Seen(r)
      /\ Seen(r)' - fp'[r].n >= Seen(r) - fp[r].n
  BY <1>0, <1>1, <1>3, <1>5
<1> QED
  BY <1>0, <1>1, <1>2, <1>3, <1>4, <1>5, <1>6, <1>7, <1>8, Frame DEF SameWires

\* The other steps of the users, and of the device.
LEMMA OtherUser ==
    ASSUME TypeInv, TypeInv',
           NEW t \in Tags, NEW w \in Ends, NEW r \in Ends, OneWay(t, w, r),
           StreamInv(t, w, r), NEW e \in Ends, e # w,
           Open(e) \/ UserSend(e) \/ (UserRecv(e) /\ ~Flows(e))
    PROVE  StreamInv(t, w, r)'
<1>1. e # r
  <2>1. CASE Open(e) \/ UserSend(e)
    BY <2>1, StreamFacts DEF Open, UserSend
  <2>2. CASE UserRecv(e) /\ ~Flows(e)
    <3>1. fp[e].pc = "off" /\ inq[e].buf # <<>>
      BY <2>2 DEF UserRecv, Flows
    <3> QED
      BY <3>1 DEF StreamInv, Roles
  <2> QED
    BY <2>1, <2>2
<1>2. /\ wire' = wire /\ up' = up /\ dm' = dm /\ flow' = flow
      /\ pending' = pending /\ fp' = fp /\ op'[w] = op[w] /\ op'[r] = op[r]
      /\ usr'[w] = usr[w] /\ usr'[r] = usr[r]
      /\ outq'[w] = outq[w] /\ inq'[r] = inq[r]
      /\ (r \in mapped' => r \in mapped)
  <2>1. CASE Open(e)
    BY <1>1, <2>1 DEF Open, device, chans, TypeInv, TypeOK
  <2>2. CASE UserSend(e)
    BY <1>1, <2>2 DEF UserSend, device, muxes, procs, TypeInv, TypeOK
  <2>3. CASE UserRecv(e) /\ ~Flows(e)
    BY <1>1, <2>3 DEF UserRecv, device, muxes, procs, TypeInv, TypeOK
  <2> QED
    BY <2>1, <2>2, <2>3
<1>3. SameWires(t)
  BY <1>2, WireSame DEF SameWires
<1>4. SameSides(t, w, r)
  BY <1>2 DEF StreamInv, Roles, SameSides, Delivering
<1> QED
  BY <1>2, <1>3, <1>4, Untouched DEF SameProcs, SameUsers, SameChans, Closing

\* Users that neither send nor receive, and the device, keep it too.
LEMMA IdleUser ==
    ASSUME TypeInv, TypeInv',
           NEW t \in Tags, NEW w \in Ends, NEW r \in Ends, OneWay(t, w, r),
           StreamInv(t, w, r),
           \/ \E e \in Ends : \/ UserEOF(e) \/ UserQuit(e)
                              \/ UserClose(e, FALSE) \/ UserClose(e, TRUE)
           \/ \E s \in Sides : UserAccept(s) \/ UserRefuse(s) \/ Close(s)
           \/ Break
           \/ UNCHANGED vars
    PROVE  StreamInv(t, w, r)'
<1>1. wire' = wire /\ op' = op /\ fp' = fp /\ dm' = dm /\ pending' = pending
  BY DEF UserEOF, UserQuit, UserClose, UserAccept, UserRefuse, Close, Break, vars,
         device, muxes, chans, procs
<1>2. SameWires(t)
  BY <1>1, WireSame DEF SameWires
<1>3. SameUsers(w, r)
  <2>1. \A x \in Ends : usr'[x].sent = usr[x].sent /\ usr'[x].seen = usr[x].seen
    <3>1. /\ usr \in [Ends -> UserState]
          /\ \/ usr' = usr
             \/ \E e \in Ends, b \in {"cut", "ended"} : usr' = [usr EXCEPT ![e].end = b]
             \/ \E e \in Ends : usr' = [usr EXCEPT ![e].has = TRUE]
      <4>1. CASE \E s \in Sides : UserAccept(s)
        <5>1. PICK s \in Sides : UserAccept(s)
          BY <4>1
        <5>2. Head(minq[s].buf) \in Tags
          BY <5>1, SideTypes, ChanFacts DEF UserAccept
        <5> QED
          BY <5>1, <5>2, EndsFacts DEF UserAccept, TypeInv, TypeOK
      <4>2. CASE ~\E s \in Sides : UserAccept(s)
        BY <4>2
           DEF UserEOF, UserQuit, UserClose, UserRefuse, Close, Break, vars, TypeInv, TypeOK
      <4> QED
        BY <4>1, <4>2
    <3>2. ASSUME NEW x \in Ends
          PROVE  usr'[x].sent = usr[x].sent /\ usr'[x].seen = usr[x].seen
      <4>1. usr[x] \in UserState
        BY <3>1
      <4>2. \/ usr'[x] = usr[x]
            \/ \E b \in {"cut", "ended"} : usr'[x] = [usr[x] EXCEPT !.end = b]
            \/ usr'[x] = [usr[x] EXCEPT !.has = TRUE]
        BY <3>1
      <4> QED
        BY <4>1, <4>2 DEF UserState
    <3> QED
      BY <3>2
  <2> QED
    BY <2>1 DEF SameUsers
<1>4. SameChans(w, r) /\ Closing(w) /\ mapped' \subseteq mapped
  <2>1. CASE \E s \in Sides : Close(s)
    BY <1>1, <2>1, MuxCloses DEF Close
  <2>2. CASE ~\E s \in Sides : Close(s)
    <3>1. up' = up /\ flow' = flow /\ mapped' = mapped
      BY <2>2 DEF UserEOF, UserQuit, UserClose, UserAccept, UserRefuse, Break, vars,
                  device, muxes, chans
    <3>2. outq'[w].buf = outq[w].buf
      <4>1. \/ outq'[w] = outq[w]
            \/ outq'[w] = CloseChan(outq[w], FALSE) \/ outq'[w] = CloseChan(outq[w], TRUE)
        BY <2>2 DEF UserEOF, UserQuit, UserClose, UserAccept, UserRefuse, Break, vars,
                    chans, TypeInv, TypeOK
      <4> QED
        BY <4>1 DEF CloseChan
    <3>3. inq'[r].buf = inq[r].buf
      <4>1. inq'[r] = inq[r] \/ inq'[r] = CloseChan(inq[r], TRUE)
        <5>1. CASE \E e \in Ends : UserQuit(e)
          <6>1. inq' = inq \/ \E e \in Ends : inq' = [inq EXCEPT ![e] = CloseChan(inq[e], TRUE)]
            BY <5>1 DEF UserQuit
          <6> QED
            BY <6>1 DEF TypeInv, TypeOK
        <5>2. CASE ~\E e \in Ends : UserQuit(e)
          BY <2>2, <5>2
             DEF UserEOF, UserClose, UserAccept, UserRefuse, Break, vars, chans
        <5> QED
          BY <5>1, <5>2
      <4> QED
        BY <4>1 DEF CloseChan
    <3> QED
      BY <1>1, <3>1, <3>2, <3>3 DEF SameChans, Closing
  <2> QED
    BY <2>1, <2>2
<1> QED
  BY <1>1, <1>2, <1>3, <1>4, SidesKept, Untouched DEF SameProcs

-----------------------------------------------------------------------------

\* The invariant holds when no stream is open.
LEMMA InitFlow == Init => FlowInv
<1> SUFFICES ASSUME Init PROVE FlowInv
  OBVIOUS
<1>1. TypeInv
  BY InitType DEF Init, TypeInv
<1>2. ASSUME NEW t \in Tags, NEW w \in Ends, NEW r \in Ends, OneWay(t, w, r)
      PROVE  StreamInv(t, w, r)
  <2>1. w[1] \in Sides /\ r[1] \in Sides
    BY <1>2, StreamFacts
  <2>2. /\ op[w].pc = "off" /\ op[r].pc = "off" /\ op[w].msg = 0 /\ op[w].n = 0
        /\ op[w].first /\ fp[w].pc = "off" /\ fp[r].pc = "off" /\ fp[r].n = 0
        /\ usr[w].sent = 0 /\ usr[r].seen = <<>> /\ flow[w].n = 2 /\ flow[w].open
        /\ pending[w] = 0 /\ mapped = {}
    BY DEF Init
  <2>3. outq[w].buf = <<>> /\ inq[r].buf = <<>>
    BY DEF Init, NewChan
  <2>4. /\ wire[w[1]] = <<>> /\ wire[r[1]] = <<>>
        /\ dm[w[1]].pc = "read" /\ dm[r[1]].pc = "read"
    BY <2>1 DEF Init
  <2>5. Slots(<<>>, t) = {} /\ DataSlots(<<>>, t) = {}
    BY DEF Slots, DataSlots
  <2>6. Seen(r) = 0 /\ Taken(w) = 0 /\ ~Delivering(r) /\ Len(inq[r].buf) = 0
    BY <2>2, <2>3, <2>4 DEF Seen, Taken, Delivering
  <2>7. Arrived(r) = 0
    BY <2>2, <2>6 DEF Arrived
  <2>8. Allowed(w) = 2 * Half
    BY <2>2, <2>6, HalfFacts DEF Allowed
  <2>9. Roles(t, w, r) /\ Firsts(t, w, r)
    BY <2>2, <2>3, <2>4, <2>5, <2>6 DEF Roles, Firsts
  <2>10. Queue(w)
    BY <2>2, <2>3 DEF Queue
  <2>11. Data(t, w, r)
    BY <2>4, <2>5, <2>6, <2>7 DEF Data
  <2>12. Credit(t, w, r)
    <3>1. Allowed(w) <= 2 * Half + Seen(r) - fp[r].n
      BY <2>2, <2>6, <2>8, HalfFacts
    <3> QED
      BY <2>2, <2>4, <2>5, <3>1 DEF Credit
  <2> QED
    BY <2>9, <2>10, <2>11, <2>12 DEF StreamInv
<1> QED
  BY <1>1, <1>2 DEF FlowInv

\* The flow invariant is inductive.
LEMMA FlowStep == FlowInv /\ [Next]_vars => FlowInv'
<1> SUFFICES ASSUME FlowInv, [Next]_vars PROVE FlowInv'
  OBVIOUS
<1>1. TypeInv /\ TypeInv'
  BY TypeStep DEF FlowInv
<1>2. ASSUME NEW t \in Tags, NEW w \in Ends, NEW r \in Ends, OneWay(t, w, r)
      PROVE  StreamInv(t, w, r)'
  <2>0. StreamInv(t, w, r)
    BY <1>2 DEF FlowInv
  <2>1. CASE \E e \in Ends : Goroutines(e)
    <3>1. PICK e \in Ends : Goroutines(e)
      BY <2>1
    <3>2. CASE /\ \/ OutFirst(e) \/ OutRecv(e) \/ OutCredit(e)
                  \/ OutWrite(e) \/ OutEnd(e) \/ OutDrop(e)
               /\ e # w
      BY <1>1, <1>2, <2>0, <3>2, OutOther
    <3>3. CASE e = w /\ (OutFirst(e) \/ OutRecv(e) \/ OutCredit(e) \/ OutDrop(e))
      BY <1>1, <1>2, <2>0, <3>3, OutQuiet
    <3>4. CASE e = w /\ (OutWrite(e) \/ OutEnd(e))
      BY <1>1, <1>2, <2>0, <3>4, OutWrites, OutEnds
    <3>5. CASE GoTicket(e)
      BY <1>1, <1>2, <2>0, <3>5, Tickets
    <3>6. CASE FlowRecv(e) \/ FlowQuit(e) \/ FlowGrant(e)
      <4>1. CASE e # r
        BY <1>1, <1>2, <2>0, <3>6, <4>1, FlowOther
      <4>2. CASE e = r
        <5>1. FlowRecv(r) \/ FlowQuit(r) \/ FlowGrant(r)
          BY <3>6, <4>2, Zenon
        <5>2. CASE FlowGrant(r) /\ wire' # wire
          BY <1>1, <1>2, <2>0, <5>2, ReaderGrants
        <5>3. CASE FlowRecv(r) \/ FlowQuit(r) \/ (FlowGrant(r) /\ wire' = wire)
          <6>1. FlowRecv(r) \/ FlowPost(r) \/ FlowQuit(r) \/ (FlowGrant(r) /\ wire' = wire)
            BY <5>3
          <6> QED
            BY <1>1, <1>2, <2>0, <6>1, FlowQuiet
        <5> QED
          BY <5>1, <5>2, <5>3
      <4> QED
        BY <4>1, <4>2
    <3> QED
      BY <3>1, <3>2, <3>3, <3>4, <3>5, <3>6 DEF Goroutines
  <2>2. CASE \E e \in Ends : Users(e)
    <3>1. PICK e \in Ends : Users(e)
      BY <2>2
    <3>2. CASE UserRecv(e) /\ Flows(e)
      <4>1. FlowPost(e)
        BY <3>2 DEF UserRecv
      <4>2. CASE e # r
        BY <1>1, <1>2, <2>0, <4>1, <4>2, FlowOther
      <4>3. CASE e = r
        <5>1. FlowPost(r)
          BY <4>1, <4>3, Zenon
        <5>2. FlowRecv(r) \/ FlowPost(r) \/ FlowQuit(r) \/ (FlowGrant(r) /\ wire' = wire)
          BY <5>1
        <5> QED
          BY <1>1, <1>2, <2>0, <5>2, FlowQuiet
      <4> QED
        BY <4>2, <4>3
    <3>3. CASE UserRecv(e) /\ ~Flows(e)
      <4>1. e # w
        BY <1>2, <3>3, StreamFacts DEF UserRecv
      <4> QED
        BY <1>1, <1>2, <2>0, <3>3, <4>1, OtherUser
    <3>4. CASE Out(e) \/ Rpc(e) \/ UserSend(e)
      <4>1. Open(e) \/ UserSend(e)
        BY <3>4 DEF Out, Rpc
      <4>2. CASE e = w
        BY <1>1, <1>2, <2>0, <4>1, <4>2, WriterUser
      <4>3. CASE e # w /\ Open(e)
        BY <1>1, <1>2, <2>0, <4>3, OtherUser
      <4>4. CASE e # w /\ UserSend(e)
        BY <1>1, <1>2, <2>0, <4>4, OtherUser
      <4> QED
        BY <4>1, <4>2, <4>3, <4>4
    <3>5. CASE UserEOF(e) \/ UserQuit(e) \/ UserClose(e, FALSE) \/ UserClose(e, TRUE)
      BY <1>1, <1>2, <2>0, <3>5, IdleUser
    <3> QED
      BY <3>1, <3>2, <3>3, <3>4, <3>5 DEF Users
  <2>3. CASE \E s \in Sides : Demux(s)
    BY <1>1, <1>2, <2>0, <2>3, DemuxFlow
  <2>4. CASE \/ \E s \in Sides : UserAccept(s) \/ UserRefuse(s) \/ Close(s)
             \/ Break \/ UNCHANGED vars
    BY <1>1, <1>2, <2>0, <2>4, IdleUser
  <2> QED
    BY <2>1, <2>2, <2>3, <2>4 DEF Next
<1>3. \A t \in Tags : \A w, r \in Ends : OneWay(t, w, r)' <=> OneWay(t, w, r)
  BY DEF OneWay
<1> QED
  BY <1>1, <1>2, <1>3 DEF FlowInv

\* The flow invariant leaves room in conn.in for what demux delivers.
LEMMA FlowRoom == FlowInv => OneWayNeverBlocks
<1> SUFFICES ASSUME FlowInv, NEW s \in Sides,
                    dm[s].pc = "deliver", ~IsRpc(<<s, dm[s].tag>>)
             PROVE  Len(inq[<<s, dm[s].tag>>].buf) < NBUF
  BY DEF OneWayNeverBlocks
<1> DEFINE t == dm[s].tag
           r == <<s, t>>
           w == <<Other(s), t>>
<1>0. TypeInv
  BY DEF FlowInv
<1>1. t \in Tags /\ t \notin Rpcs
  <2>1. dm[s] \in DmState
    BY <1>0, SideTypes
  <2> QED
    BY <2>1 DEF DmState, IsRpc
<1>2. r \in Ends /\ w \in Ends
  BY <1>1, EndsFacts
<1>3. CASE Opener[t] = Other(s)
  <2>1. OneWay(t, w, r)
    BY <1>1, <1>3, EndsFacts DEF OneWay
  <2>2. StreamInv(t, w, r)
    BY <1>1, <1>2, <2>1 DEF FlowInv
  <2>3. Delivering(r)
    BY DEF Delivering
  <2> HIDE DEF t, r, w
  <2>4. Arrived(r) <= dm[r[1]].dat /\ dm[r[1]].dat <= 2 * Half + Seen(r)
    BY <2>2, <2>3 DEF StreamInv, Data
  <2>5. /\ Seen(r) \in Nat /\ Arrived(r) \in Nat /\ Len(inq[r].buf) \in Nat
        /\ dm[r[1]].dat \in Nat
    BY <1>0, <1>2, EndsFacts, Numbers
  <2>6. Arrived(r) >= Seen(r) + Len(inq[r].buf) + 1
    BY <2>3, <2>5 DEF Arrived
  <2>7. Len(inq[r].buf) < 2 * Half
    BY <2>4, <2>5, <2>6, HalfFacts
  <2>8. Len(inq[r].buf) < NBUF
    BY <2>5, <2>7, HalfFacts, MuxAssumption DEF MuxAssumption
  <2> QED
    BY <2>8 DEF r, t
<1>4. CASE Opener[t] = s
  <2>1. OneWay(t, r, w)
    BY <1>1, <1>4, EndsFacts DEF OneWay
  <2>2. Roles(t, r, w)
    BY <1>1, <1>2, <2>1 DEF FlowInv, StreamInv
  <2> QED
    BY <2>2 DEF Roles
<1> QED
  <2>1. Opener[t] \in Sides
    BY <1>1, MuxAssumption DEF MuxAssumption
  <2> QED
    BY <1>3, <1>4, <2>1 DEF Sides, Other

\* Flow control does its job for every nbuf and any number of streams: demux
\* never finds conn.in full when it delivers a message of a stream made with
\* Out, whatever the users, the device and the other streams do.
THEOREM OneWayFlow == Spec => []OneWayNeverBlocks
<1>1. Init => FlowInv
  BY InitFlow
<1>2. FlowInv /\ [Next]_vars => FlowInv'
  BY FlowStep
<1>3. FlowInv => OneWayNeverBlocks
  BY FlowRoom
<1> QED
  BY <1>1, <1>2, <1>3, PTL DEF Spec
=============================================================================
