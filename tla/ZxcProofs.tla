----------------------------- MODULE ZxcProofs ------------------------------
(***************************************************************************)
(* Type correctness of the caching file system, and that what it takes as  *)
(* synced is, for any number of files, users, messages and changes.        *)
(***************************************************************************)
EXTENDS Zxc, SequenceTheorems, TLAPS

\* The calls of users, and a file of the server if there is one.
OpType == [pc: {"idle", "dir", "file", "recv"}, kind: Kinds \cup {"stat"},
           n: Names \cup {None}, f: Objs \cup {None},
           made: BOOLEAN, k: 0..MaxMsgs, held: BOOLEAN,
           ents: [Names -> Stored \cup {None}] \cup {<<>>}]
Entry == Stored \cup {None}

\* Who fetches "/" has entries, and who works on a file has one of that name.
OpInv ==
    \A u \in Users :
        /\ op[u].pc = "dir" => /\ op[u].n \in Names /\ op[u].kind \in Kinds
                               /\ op[u].ents \in [Names -> Entry]
        /\ op[u].pc \in {"file", "recv"} =>
                op[u].n \in Names /\ op[u].f \in Objs /\ op[u].f[1] = op[u].n

TypeInv == TypeOK /\ OpInv

-----------------------------------------------------------------------------
(* Files.                                                                  *)

\* An object is a name and a number.
LEMMA ObjsFacts == \A o \in Objs : o[1] \in Names
BY DEF Objs

\* None is not a file.
LEMMA NoneFacts == None \notin Names /\ None \notin Objs /\ None \notin Users /\ None \notin Stored
BY ZxcAssumption DEF ZxcAssumption

\* What the functions that change the status of a file do to it.
LEMMA StatusFacts ==
    ASSUME NEW f \in MFile
    PROVE  /\ inval(f) \in MFile /\ inval(f).sts # "clean"
           /\ inval(f).sts = f.sts \/ (f.sts \in {"clean", "meta"} /\ inval(f).sts \in {"new", "newmeta"})
           /\ dirtyMeta(f) \in MFile /\ dirtyMeta(f).sts # "clean"
           /\ f.sts \in {"data", "del", "gone"} => dirtyMeta(f).sts = f.sts
           /\ dirtyMeta(f).sts \in {"del", "gone"} => f.sts = dirtyMeta(f).sts
           /\ dirtyData(f) \in MFile /\ dirtyData(f).sts = "data"
           /\ gone(f) \in MFile /\ gone(f).sts = "gone"
           /\ del(f) \in MFile /\ del(f).sts = "del"
<1>1. <<>> \in Contents
  BY DEF Contents
<1>2. inval(f) \in MFile
  BY <1>1 DEF inval, MFile, Status
<1>3. /\ inval(f).sts # "clean"
      /\ inval(f).sts = f.sts \/ (f.sts \in {"clean", "meta"} /\ inval(f).sts \in {"new", "newmeta"})
  BY DEF inval, MFile
<1>4. dirtyMeta(f) \in MFile
  BY DEF dirtyMeta, MFile, Status
<1>5. /\ dirtyMeta(f).sts # "clean"
      /\ f.sts \in {"data", "del", "gone"} => dirtyMeta(f).sts = f.sts
      /\ dirtyMeta(f).sts \in {"del", "gone"} => f.sts = dirtyMeta(f).sts
  BY DEF dirtyMeta, MFile
<1>6. dirtyData(f) \in MFile /\ dirtyData(f).sts = "data"
  BY DEF dirtyData, MFile, Status
<1>7. /\ gone(f) \in MFile /\ gone(f).sts = "gone"
      /\ del(f) \in MFile /\ del(f).sts = "del"
  BY <1>1 DEF gone, del, MFile, Status
<1> QED
  BY <1>2, <1>3, <1>4, <1>5, <1>6, <1>7

\* What a file becomes with the metadata that the server sent: it is clean only
\* if it was, with the same contents.
LEMMA GotMetaFacts ==
    ASSUME NEW f \in MFile, NEW d \in Stored
    PROVE  /\ gotMeta(f, d) \in MFile
           /\ gotMeta(f, d).sts # "gone"
           /\ gotMeta(f, d).sts = "clean" => f.sts = "clean" /\ gotMeta(f, d).data = f.data
           /\ f.sts \in {"data", "del"} => gotMeta(f, d).sts = f.sts
           /\ gotMeta(f, d).sts = "del" => f.sts = "del"
<1> DEFINE g == IF f.sts = "gone" THEN [f EXCEPT !.sts = "new"] ELSE f
           changed == g.mt # d.mt \/ g.size # Len(d.data)
           h == IF g.sts # "data" /\ changed THEN inval(g) ELSE g
           r == [h EXCEPT !.size = Len(d.data),
                          !.mt = IF "mtime" \in f.wd THEN @ ELSE d.mt,
                          !.mode = IF "mode" \in f.wd THEN @ ELSE d.mode]
<1>1. gotMeta(f, d) = r
  BY DEF gotMeta
<1>2. Len(d.data) \in Nat /\ d.mt \in Nat /\ d.mode \in Nat
  BY DEF Stored, Contents
<1>3. g \in MFile /\ g.sts # "gone" /\ (f.sts # "gone" => g = f) /\ (f.sts = "gone" => g.sts = "new")
  BY DEF MFile, Status
<1> HIDE DEF g
<1>4. h \in MFile /\ (h = g \/ h = inval(g))
  BY <1>3, StatusFacts
<1>5. /\ h.sts # "gone"
      /\ h.sts = "clean" => f.sts = "clean" /\ h.data = f.data
      /\ f.sts \in {"data", "del"} => h.sts = f.sts
      /\ h.sts = "del" => f.sts = "del"
  BY <1>3, <1>4, StatusFacts
<1> HIDE DEF h
<1>6. r \in MFile /\ r.sts = h.sts /\ r.data = h.data
  BY <1>2, <1>4 DEF MFile
<1> QED
  BY <1>1, <1>5, <1>6

\* With the data that the server sent, a file has what the server has.
LEMMA GotDataFacts ==
    ASSUME NEW f \in MFile, NEW d \in Stored
    PROVE  /\ gotData(f, d) \in MFile /\ gotData(f, d).data = d.data
           /\ gotData(f, d).sts \in {"clean", "meta"}
<1>1. d.data \in Contents /\ Len(d.data) \in Nat
  BY DEF Stored, Contents
<1> QED
  BY <1>1 DEF gotData, MFile, Status

\* Changes that users make leave nothing clean but what they do not change.
LEMMA WstatFacts ==
    ASSUME NEW f \in MFile, NEW attr \in {"mode", "mtime"}, NEW v \in Nat
    PROVE  /\ wstat(f, attr, v) \in MFile
           /\ wstat(f, attr, v) = f \/ wstat(f, attr, v).sts # "clean"
           /\ f.sts \in {"data", "del", "gone"} => wstat(f, attr, v).sts = f.sts
           /\ wstat(f, attr, v).sts \in {"del", "gone"} => f.sts = wstat(f, attr, v).sts
           /\ wstat(f, attr, v).mt = IF attr = "mtime" THEN v ELSE f.mt
<1> DEFINE g == IF attr = "mode" THEN [f EXCEPT !.mode = v] ELSE [f EXCEPT !.mt = v]
           h == [g EXCEPT !.wd = @ \cup {attr}]
<1>1. wstat(f, attr, v) = IF g = f THEN f ELSE dirtyMeta(h)
  BY DEF wstat
<1>2. g \in MFile /\ g.sts = f.sts /\ g.mt = (IF attr = "mtime" THEN v ELSE f.mt)
  BY DEF MFile
<1> HIDE DEF g
<1>3. h \in MFile /\ h.sts = f.sts /\ h.mt = g.mt
  BY <1>2 DEF MFile
<1> HIDE DEF h
<1>4. dirtyMeta(h).mt = h.mt
  BY <1>3 DEF dirtyMeta, MFile
<1> QED
  BY <1>1, <1>2, <1>3, <1>4, StatusFacts

\* A put leaves dirty data, and a new mtime unless it made the file.
LEMMA PutFacts ==
    ASSUME NEW f \in MFile, NEW made \in BOOLEAN, NEW kind, NEW now \in Nat
    PROVE  /\ put(f, made, kind, now) \in MFile /\ put(f, made, kind, now).sts = "data"
           /\ put(f, made, kind, now).mt = IF made THEN f.mt ELSE now
<1> DEFINE g == IF kind = "create" THEN trunc(f) ELSE f
<1>1. [f EXCEPT !.data = <<>>, !.size = 0] \in MFile
  <2>1. <<>> \in Contents
    BY DEF Contents
  <2> QED
    BY <2>1 DEF MFile
<1>2. g \in MFile
  BY <1>1, StatusFacts DEF trunc
<1> HIDE DEF g
<1>3. \A h \in MFile : dirtyData(h) \in MFile /\ dirtyData(h).sts = "data" /\ dirtyData(h).mt = h.mt
  <2>1. \A h \in MFile : dirtyData(h).mt = h.mt
    BY DEF dirtyData, MFile
  <2> QED
    BY <2>1, StatusFacts
<1>4. wstat(g, "mtime", now) \in MFile /\ wstat(g, "mtime", now).mt = now
  BY <1>2, WstatFacts
<1> QED
  BY <1>3, <1>4 DEF put, g

\* And so does its end.
LEMMA PutEndFacts ==
    ASSUME NEW f \in MFile, NEW now \in Nat
    PROVE  putEnd(f, now) \in MFile /\ putEnd(f, now).sts = "data"
<1> DEFINE g == [f EXCEPT !.mt = now, !.size = Len(f.data), !.wd = @ \cup {"mtime"}]
<1>1. Len(f.data) \in Nat
  BY DEF MFile, Contents
<1>2. g \in MFile
  BY <1>1 DEF MFile
<1> QED
  BY <1>2, StatusFacts DEF putEnd

\* A message written to a buffer.
LEMMA WriteAtFacts ==
    ASSUME NEW data \in Contents, NEW k \in Nat, NEW m \in Users
    PROVE  WriteAt(data, k, m) \in Contents
<1> DEFINE l == IF k > Len(data) THEN k ELSE Len(data)
<1>1. l \in Nat
  BY DEF Contents
<1> HIDE DEF l
<1>2. \A i \in 1..Len(data) : data[i] \in Users \cup {None}
  BY DEF Contents
<1>3. Len(data) \in Nat
  BY DEF Contents
<1>4. WriteAt(data, k, m) = [i \in 1..l |-> IF i = k THEN m ELSE IF i <= Len(data) THEN data[i] ELSE None]
  BY DEF WriteAt, l
<1>5. \A i \in 1..l : (IF i = k THEN m ELSE IF i <= Len(data) THEN data[i] ELSE None) \in Users \cup {None}
  BY <1>1, <1>2, <1>3
<1>6. WriteAt(data, k, m) \in [1..l -> Users \cup {None}]
  BY <1>4, <1>5
<1> QED
  BY <1>1, <1>6, SeqDef DEF Contents

\* What is sent to the server for a file and what becomes of it: it is clean
\* with what the server has, or was already.
LEMMA SyncFacts ==
    ASSUME NEW f \in MFile, NEW d \in Entry
    PROVE  /\ Sent(f, d) \in Entry /\ Synced(f, d) \in MFile
           /\ Synced(f, d).sts = "clean" =>
                \/ f.sts = "clean" /\ Sent(f, d) = d /\ Synced(f, d) = f
                \/ Sent(f, d) \in Stored /\ Sent(f, d).data = Synced(f, d).data
           /\ Synced(f, d).sts = "gone" => f.sts = "gone" \/ Sent(f, d) = None
<1>1. f.sts \in Status /\ f.data \in Contents /\ f.mt \in Nat /\ f.mode \in Nat /\ Len(f.data) \in Nat
  BY DEF MFile, Contents
<1>2. CASE f.sts = "del"
  <2>1. Sent(f, d) = None /\ Synced(f, d) = [f EXCEPT !.sts = "gone"]
    BY <1>2 DEF Sent, Synced
  <2> QED
    BY <2>1 DEF Entry, MFile, Status
<1>3. CASE f.sts = "data"
  <2>1. /\ Sent(f, d) = [data |-> f.data, mt |-> f.mt, mode |-> f.mode]
        /\ Synced(f, d) = [f EXCEPT !.sts = "clean", !.wd = {}, !.size = Len(f.data)]
    BY <1>3 DEF Sent, Synced
  <2>2. Sent(f, d) \in Stored /\ Sent(f, d).data = f.data
    BY <1>1, <2>1 DEF Stored
  <2>3. Synced(f, d) \in MFile /\ Synced(f, d).data = f.data /\ Synced(f, d).sts = "clean"
    BY <1>1, <2>1 DEF MFile, Status
  <2> QED
    BY <2>2, <2>3 DEF Entry
<1>4. CASE f.sts \in {"newmeta", "meta"} /\ d # None
  <2>1. /\ Sent(f, d) = [d EXCEPT !.mt = IF "mtime" \in f.wd THEN f.mt ELSE @,
                                  !.mode = IF "mode" \in f.wd THEN f.mode ELSE @]
        /\ Synced(f, d) = [f EXCEPT !.sts = "new", !.wd = {}]
    BY <1>4 DEF Sent, Synced
  <2>2. d \in Stored
    BY <1>4 DEF Entry
  <2>3. Sent(f, d) \in Stored
    BY <1>1, <2>1, <2>2 DEF Stored
  <2>4. Synced(f, d) \in MFile /\ Synced(f, d).sts = "new"
    BY <2>1 DEF MFile, Status
  <2> QED
    BY <2>3, <2>4 DEF Entry
<1>5. CASE f.sts \notin {"del", "data"} /\ ~(f.sts \in {"newmeta", "meta"} /\ d # None)
  <2>1. Sent(f, d) = d /\ Synced(f, d) = f
    BY <1>5 DEF Sent, Synced
  <2> QED
    BY <1>5, <2>1
<1> QED
  BY <1>2, <1>3, <1>4, <1>5

-----------------------------------------------------------------------------
(* Types.                                                                  *)

\* What TypeInv says of one user, one name and one file.
LEMMA TypeFacts ==
    ASSUME TypeInv
    PROVE  /\ op \in [Users -> OpType] /\ file \in [Objs -> MFile] /\ srv \in [Names -> Entry]
           /\ child \in [Names -> Objs \cup {None}]
           /\ \A n \in Names : child[n] # None => child[n][1] = n
           /\ syn.todo \subseteq Objs /\ syn.pc \in {"idle", "files"}
           /\ clock \in Nat /\ rlock \in Users \cup {None}
           /\ \A u \in Users : rlock = u <=> op[u].pc = "dir"
BY DEF TypeInv, TypeOK, OpType, Entry

\* Collecting files keeps those somebody can reach.
LEMMA CollectFacts ==
    ASSUME NEW fs \in [Objs -> MFile], NEW c, NEW ops, NEW sy
    PROVE  /\ Collect(fs, c, ops, sy) \in [Objs -> MFile]
           /\ \A o \in Objs : \/ Collect(fs, c, ops, sy)[o] = fs[o]
                              \/ Collect(fs, c, ops, sy)[o] = Unused
           /\ \A n \in Names : c[n] \in Objs => Collect(fs, c, ops, sy)[c[n]] = fs[c[n]]
           /\ \A u \in Users : ops[u].f \in Objs => Collect(fs, c, ops, sy)[ops[u].f] = fs[ops[u].f]
           /\ \A o \in sy.todo : o \in Objs => Collect(fs, c, ops, sy)[o] = fs[o]
<1>1. Unused \in MFile
  BY DEF Unused, MFile, Status, Contents
<1> QED
  BY <1>1 DEF Collect, Live

\* A new file is of its name, and nobody has it.
LEMMA NewFacts ==
    ASSUME NEW n \in Names, Fresh(n) # {}
    PROVE  /\ New(n) \in Objs /\ New(n)[1] = n
           /\ \A m \in Names : child[m] # New(n)
           /\ \A u \in Users : op[u].f # New(n)
           /\ New(n) \notin syn.todo
<1>1. New(n) \in Fresh(n)
  BY DEF New
<1> QED
  BY <1>1 DEF Fresh, Live

\* A call that goes on as x, while the data of others may be left behind.
OpStep(u, x) ==
    /\ op' \in [Users -> OpType]
    /\ op'[u] = x
    /\ \A v \in Users \ {u} : op'[v] \in {op[v], [op[v] EXCEPT !.held = FALSE]}

\* The calls of the others go on.
LEMMA OthersKept ==
    ASSUME TypeInv, NEW u \in Users, NEW x, OpStep(u, x)
    PROVE  \A v \in Users \ {u} :
                /\ op'[v].pc = op[v].pc /\ op'[v].n = op[v].n /\ op'[v].f = op[v].f
                /\ op'[v].ents = op[v].ents /\ op'[v].kind = op[v].kind
<1>1. \A v \in Users : op[v] \in OpType
  BY TypeFacts
<1> QED
  BY <1>1 DEF OpStep, OpType

\* A call that locks nothing, as it was before or as it is now.
LEMMA OpStepType ==
    ASSUME TypeInv, NEW u \in Users, NEW x \in OpType, OpStep(u, x),
           x.pc \in {"file", "recv"} => x.n \in Names /\ x.f \in Objs /\ x.f[1] = x.n,
           x.pc # "dir",
           IF op[u].pc = "dir" THEN rlock' = None ELSE rlock' = rlock
    PROVE  /\ OpInv' /\ op' \in [Users -> OpType] /\ rlock' \in Users \cup {None}
           /\ \A v \in Users : rlock' = v <=> op'[v].pc = "dir"
<1>2. \A v \in Users \ {u} : /\ op'[v].pc = op[v].pc /\ op'[v].n = op[v].n /\ op'[v].f = op[v].f
                             /\ op'[v].ents = op[v].ents /\ op'[v].kind = op[v].kind
  BY OthersKept
<1>3. op'[u] = x /\ op' \in [Users -> OpType]
  BY DEF OpStep
<1>4. OpInv'
  BY <1>2, <1>3 DEF OpInv, TypeInv
<1>5. \A v \in Users : rlock = v <=> op[v].pc = "dir"
  BY TypeFacts
<1>6. rlock \in Users \cup {None} /\ None \notin Users
  BY TypeFacts, NoneFacts
<1> QED
  BY <1>2, <1>3, <1>4, <1>5, <1>6

\* A call that has received no message.
LEMMA NoMsgs == 0 \in 0..MaxMsgs
BY ZxcAssumption DEF ZxcAssumption

\* Nobody calls.
LEMMA IdleType == Idle \in OpType /\ Idle.pc = "idle"
BY NoMsgs DEF Idle, OpType

\* A file found or made for a call, in a directory that is as it should.
LEMMA FindType ==
    ASSUME TypeInv, NEW u \in Users, NEW kind \in Kinds, NEW n \in Names,
           NEW c \in [Names -> Objs \cup {None}],
           \A m \in Names : c[m] # None => c[m][1] = m,
           NEW fs \in [Objs -> MFile], Find(u, kind, n, c, fs)
    PROVE  /\ child' \in [Names -> Objs \cup {None}]
           /\ \A m \in Names : child'[m] # None => child'[m][1] = m
           /\ file' \in [Objs -> MFile] /\ clock' \in Nat
           /\ \E x \in OpType :
                /\ OpStep(u, x) /\ x.pc # "dir" /\ x.pc # "recv"
                /\ x.pc = "file" => x.n \in Names /\ x.f \in Objs /\ x.f[1] = x.n
<1>1. op \in [Users -> OpType] /\ clock \in Nat
  BY TypeFacts
<1>2. ASSUME NEW x \in OpType, op' = [op EXCEPT ![u] = x] PROVE OpStep(u, x)
  BY <1>1, <1>2 DEF OpStep
<1>3. CASE walk1(u, kind, n, c, fs)
  <2>1. /\ child' \in [Names -> Objs \cup {None}]
        /\ \A m \in Names : child'[m] # None => child'[m][1] = m
    BY <1>3 DEF walk1, Forget
  <2>2. file' \in [Objs -> MFile]
    BY <1>3, CollectFacts DEF walk1
  <2>3. CASE Missing(n, c, fs)
    <3>1. op' = [op EXCEPT ![u] = Idle] /\ clock' = clock
      BY <1>3, <2>3 DEF walk1
    <3>2. OpStep(u, Idle)
      BY <1>2, <3>1, IdleType
    <3> QED
      BY <1>1, <2>1, <2>2, <3>1, <3>2, IdleType
  <2>4. CASE ~Missing(n, c, fs)
    <3>1. c[n] \in Objs /\ c[n][1] = n
      BY <2>4 DEF Missing
    <3>2. op' = [op EXCEPT ![u] = Walked(kind, n, c[n], FALSE)]
      BY <1>3, <2>4 DEF walk1
    <3> DEFINE x == Walked(kind, n, c[n], FALSE)
    <3>3. x \in OpType /\ x.pc = "file" /\ x.n = n /\ x.f = c[n]
      BY <3>1, NoMsgs DEF Walked, Idle, OpType
    <3> HIDE DEF x
    <3>4. OpStep(u, x)
      BY <1>2, <3>2, <3>3 DEF x
    <3>5. clock' = clock
      BY <1>3 DEF walk1
    <3> QED
      BY <1>1, <2>1, <2>2, <3>1, <3>3, <3>4, <3>5
  <2> QED
    BY <2>3, <2>4
<1>4. CASE newFile(u, n, c, fs) /\ kind = "create"
  <2>1. New(n) \in Objs /\ New(n)[1] = n
    BY <1>4, NewFacts DEF newFile
  <2>2. /\ child' \in [Names -> Objs \cup {None}]
        /\ \A m \in Names : child'[m] # None => child'[m][1] = m
    BY <1>4, <2>1 DEF newFile
  <2>3. NewFile("data", clock + 1, 0, 0) \in MFile
    BY <1>1 DEF NewFile, MFile, Status, Contents
  <2>4. file' \in [Objs -> MFile]
    <3>1. [fs EXCEPT ![New(n)] = NewFile("data", clock + 1, 0, 0)] \in [Objs -> MFile]
      BY <2>3
    <3> QED
      BY <1>4, <3>1, CollectFacts DEF newFile
  <2>5. op' = [op EXCEPT ![u] = Walked("create", n, New(n), TRUE)] /\ clock' = clock + 1
    BY <1>4 DEF newFile
  <2> DEFINE x == Walked("create", n, New(n), TRUE)
  <2>6. x \in OpType /\ x.pc = "file" /\ x.n = n /\ x.f = New(n)
    BY <1>4, <2>1, NoMsgs DEF Walked, Idle, OpType
  <2> HIDE DEF x
  <2>7. OpStep(u, x)
    BY <1>2, <2>5, <2>6 DEF x
  <2> QED
    BY <1>1, <2>1, <2>2, <2>4, <2>5, <2>6, <2>7
<1> QED
  BY <1>3, <1>4 DEF Find

\* The entries that the server sent leave a directory as it should be.
LEMMA GotDirType ==
    ASSUME TypeInv, NEW ents \in [Names -> Entry],
           \A n \in Names : Found(ents, n) => Fresh(n) # {}
    PROVE  /\ gotDir(ents) \in [Names -> Objs \cup {None}]
           /\ \A n \in Names : gotDir(ents)[n] # None => gotDir(ents)[n][1] = n
           /\ gotDirFiles(ents) \in [Objs -> MFile]
<1>1. ASSUME NEW n \in Names
      PROVE  /\ gotDir(ents)[n] \in Objs \cup {None}
             /\ gotDir(ents)[n] # None => gotDir(ents)[n][1] = n
  <2>1. Found(ents, n) => New(n) \in Objs /\ New(n)[1] = n
    BY NewFacts
  <2> QED
    BY <2>1, TypeFacts DEF gotDir
<1>2. ASSUME NEW o \in Objs
      PROVE  gotDirFiles(ents)[o] \in MFile
  <2> DEFINE n == o[1]
  <2>1. n \in Names /\ file[o] \in MFile
    BY ObjsFacts, TypeFacts
  <2>2. ents[n] # None => gotMeta(file[o], ents[n]) \in MFile
    BY <2>1, GotMetaFacts DEF Entry
  <2>3. ents[n] # None => NewFile("new", ents[n].mt, Len(ents[n].data), ents[n].mode) \in MFile
    <3>1. <<>> \in Contents
      BY DEF Contents
    <3>2. ents[n] # None => ents[n].mt \in Nat /\ ents[n].mode \in Nat /\ Len(ents[n].data) \in Nat
      BY <2>1 DEF Entry, Stored, Contents
    <3> QED
      BY <3>1, <3>2 DEF NewFile, MFile, Status
  <2>4. gone(file[o]) \in MFile
    BY <2>1, StatusFacts
  <2>5. gotDirFiles(ents)[o] \in
            {NewFile("new", ents[n].mt, Len(ents[n].data), ents[n].mode), file[o],
             gotMeta(file[o], ents[n]), gone(file[o])}
    BY DEF gotDirFiles
  <2>6. CASE Found(ents, n) /\ o = New(n)
    BY <2>3, <2>6 DEF gotDirFiles, Found
  <2>7. CASE ~(Found(ents, n) /\ o = New(n))
    BY <2>1, <2>2, <2>4, <2>7 DEF gotDirFiles
  <2> QED
    BY <2>6, <2>7
<1> QED
  BY <1>1, <1>2 DEF gotDir, gotDirFiles

\* What a call finds when it walks its file is a file, and not clean but if
\* it was, with the same contents.
LEMMA WalkFacts ==
    ASSUME TypeInv, NEW u \in Users, op[u].pc = "file", NEW f \in Walk(u)
    PROVE  /\ f \in MFile
           /\ f.sts = "clean" => file[op[u].f].sts = "clean" /\ f.data = file[op[u].f].data
           /\ f.sts = "gone" => file[op[u].f].sts = "gone" \/ srv[op[u].n] = None
           /\ file[op[u].f].sts \notin {"new", "clean"} \/ op[u].made => f = file[op[u].f]
<1> DEFINE n == op[u].n
           g == file[op[u].f]
<1>1. n \in Names /\ op[u].f \in Objs /\ g \in MFile /\ srv[n] \in Entry
  BY TypeFacts DEF TypeInv, OpInv
<1>2. f = g \/ (g.sts \in {"new", "clean"} /\ ~op[u].made /\ f = getMeta(g, srv[n]))
  BY DEF Walk
<1>3. srv[n] # None => srv[n] \in Stored
  BY <1>1 DEF Entry
<1>4. CASE f = g
  BY <1>1, <1>4
<1>5. CASE g.sts \in {"new", "clean"} /\ ~op[u].made /\ f = getMeta(g, srv[n])
  <2>1. CASE srv[n] = None
    BY <1>1, <1>5, <2>1, StatusFacts DEF getMeta
  <2>2. CASE srv[n] # None
    BY <1>1, <1>3, <1>5, <2>2, GotMetaFacts DEF getMeta
  <2> QED
    BY <2>1, <2>2
<1> QED
  BY <1>2, <1>4, <1>5

\* What is left by a call.
LEMMA LeaveType ==
    ASSUME TypeInv, NEW u \in Users, NEW ops, NEW f \in MFile, op[u].pc \in {"file", "recv"},
           Leave(u, ops, f), NEW x \in OpType, OpStep(u, x), clock' \in Nat,
           x.pc \in {"file", "recv"} => x.n \in Names /\ x.f \in Objs /\ x.f[1] = x.n,
           x.pc # "dir"
    PROVE  TypeInv'
<1>1. OpInv' /\ op' \in [Users -> OpType] /\ (\A v \in Users : rlock' = v <=> op'[v].pc = "dir")
  <2>1. rlock' = rlock
    BY DEF Leave
  <2> QED
    BY <2>1, OpStepType
<1>2. file' \in [Objs -> MFile]
  <2>1. [file EXCEPT ![op[u].f] = f] \in [Objs -> MFile]
    BY TypeFacts
  <2> QED
    BY <2>1, CollectFacts DEF Leave
<1>3. redialing' \in BOOLEAN
  BY DEF Leave, needRedial, TypeInv, TypeOK
<1> QED
  BY <1>1, <1>2, <1>3 DEF Leave, TypeInv, TypeOK, OpType

\* A call that returns.
LEMMA ReturnStep ==
    ASSUME TypeInv, NEW u \in Users, op' = Return(u)
    PROVE  OpStep(u, Idle)
BY TypeFacts, IdleType DEF OpStep, Return

\* The buffer of a file is not the one that puts had.
LEMMA UnholdFacts ==
    ASSUME TypeInv, NEW u \in Users, NEW o, NEW x \in OpType, op' = [Unhold(o) EXCEPT ![u] = x]
    PROVE  OpStep(u, x) /\ \A v \in Users \ {u} : op[v].f = o => ~op'[v].held
<1>1. ASSUME NEW v \in Users
      PROVE  /\ Unhold(o)[v] \in OpType
             /\ Unhold(o)[v] \in {op[v], [op[v] EXCEPT !.held = FALSE]}
             /\ op[v].f = o => ~Unhold(o)[v].held
  <2>1. op[v] \in OpType
    BY TypeFacts
  <2>2. [op[v] EXCEPT !.held = FALSE] \in OpType /\ ~[op[v] EXCEPT !.held = FALSE].held
    BY <2>1 DEF OpType
  <2> QED
    BY <2>1, <2>2 DEF Unhold
<1>2. Unhold(o) \in [Users -> OpType]
  BY <1>1 DEF Unhold
<1> QED
  BY <1>1, <1>2 DEF OpStep

\* A put whose file is unlocked while its messages arrive.
LEMMA ReceivingFacts ==
    ASSUME NEW ops \in [Users -> OpType], NEW u \in Users
    PROVE  /\ Receiving(ops, u) = [ops EXCEPT ![u] = [ops[u] EXCEPT !.pc = "recv", !.held = TRUE]]
           /\ [ops[u] EXCEPT !.pc = "recv", !.held = TRUE] \in OpType
           /\ [ops[u] EXCEPT !.pc = "recv", !.held = TRUE].pc = "recv"
           /\ [ops[u] EXCEPT !.pc = "recv", !.held = TRUE].n = ops[u].n
           /\ [ops[u] EXCEPT !.pc = "recv", !.held = TRUE].f = ops[u].f
<1>1. ops[u] \in OpType
  OBVIOUS
<1> QED
  BY <1>1 DEF Receiving, OpType

-----------------------------------------------------------------------------
(* Every action keeps the types.                                           *)

\* The bounds used.
LEMMA UseType ==
    ASSUME TypeInv, NEW x \in {"ops", "ext", "inval", "breaks"}, Use(x)
    PROVE  used' \in [{"ops", "ext", "inval", "breaks"} -> Nat]
BY DEF TypeInv, TypeOK, Use

\* A walk whose entries are good.
LEMMA WalkDirType ==
    ASSUME TypeInv, NEW u \in Users, NEW kind \in Kinds, NEW n \in Names, WalkDir(u, kind, n)
    PROVE  TypeInv'
<1>1. Find(u, kind, n, child, file) /\ op[u].pc = "idle" /\ rlock' = rlock /\ Use("ops")
  BY DEF WalkDir, Call
<1>2. PICK x \in OpType :
            /\ OpStep(u, x) /\ x.pc # "dir" /\ x.pc # "recv"
            /\ x.pc = "file" => x.n \in Names /\ x.f \in Objs /\ x.f[1] = x.n
  BY <1>1, FindType, TypeFacts
<1>3. /\ child' \in [Names -> Objs \cup {None}]
      /\ \A m \in Names : child'[m] # None => child'[m][1] = m
      /\ file' \in [Objs -> MFile] /\ clock' \in Nat
  BY <1>1, FindType, TypeFacts
<1>4. OpInv' /\ op' \in [Users -> OpType] /\ (\A v \in Users : rlock' = v <=> op'[v].pc = "dir")
  BY <1>1, <1>2, OpStepType
<1>5. used' \in [{"ops", "ext", "inval", "breaks"} -> Nat]
  BY <1>1, UseType
<1>6. redialing' \in BOOLEAN
  BY DEF WalkDir, needRedial, TypeInv, TypeOK
<1> QED
  BY <1>3, <1>4, <1>5, <1>6 DEF WalkDir, TypeInv, TypeOK, OpType

\* A walk that has to fetch the entries.
LEMMA GetDirType ==
    ASSUME TypeInv, NEW u \in Users, NEW kind \in Kinds, NEW n \in Names, GetDir(u, kind, n)
    PROVE  TypeInv'
<1> DEFINE x == [Idle EXCEPT !.pc = "dir", !.kind = kind, !.n = n, !.ents = srv]
<1>1. x \in OpType /\ x.pc = "dir" /\ x.n = n /\ x.kind = kind /\ x.ents = srv
  BY NoMsgs, TypeFacts DEF Idle, OpType, Entry
<1>2. op' = [op EXCEPT ![u] = x] /\ rlock' = u /\ rlock = None /\ Use("ops")
  BY DEF GetDir, Call
<1> HIDE DEF x
<1>3. op' \in [Users -> OpType] /\ op'[u] = x /\ \A v \in Users \ {u} : op'[v] = op[v]
  BY <1>1, <1>2, TypeFacts
<1>4. OpInv'
  BY <1>1, <1>3, TypeFacts DEF OpInv, TypeInv
<1>5. \A v \in Users : rlock' = v <=> op'[v].pc = "dir"
  BY <1>1, <1>2, <1>3, TypeFacts, NoneFacts
<1>6. used' \in [{"ops", "ext", "inval", "breaks"} -> Nat]
  BY <1>2, UseType
<1> QED
  BY <1>2, <1>3, <1>4, <1>5, <1>6 DEF GetDir, TypeInv, TypeOK, OpType

\* The entries come.
LEMMA GotDirStepType ==
    ASSUME TypeInv, NEW u \in Users, GotDir(u)
    PROVE  TypeInv'
<1> DEFINE ents == op[u].ents
           c == gotDir(ents)
           fs == gotDirFiles(ents)
<1>1. /\ op[u].n \in Names /\ op[u].kind \in Kinds /\ ents \in [Names -> Entry]
      /\ op[u].pc = "dir" /\ rlock' = None
  BY DEF GotDir, TypeInv, OpInv
<1>2. \A n \in Names : Found(ents, n) => Fresh(n) # {}
  BY DEF GotDir
<1>3. /\ c \in [Names -> Objs \cup {None}] /\ fs \in [Objs -> MFile]
      /\ \A n \in Names : c[n] # None => c[n][1] = n
  BY <1>1, <1>2, GotDirType
<1>4. Find(u, op[u].kind, op[u].n, c, fs)
  BY DEF GotDir
<1> HIDE DEF c, fs
<1>5. PICK x \in OpType :
            /\ OpStep(u, x) /\ x.pc # "dir" /\ x.pc # "recv"
            /\ x.pc = "file" => x.n \in Names /\ x.f \in Objs /\ x.f[1] = x.n
  BY <1>1, <1>3, <1>4, FindType
<1>6. /\ child' \in [Names -> Objs \cup {None}]
      /\ \A m \in Names : child'[m] # None => child'[m][1] = m
      /\ file' \in [Objs -> MFile] /\ clock' \in Nat
  BY <1>1, <1>3, <1>4, FindType
<1>7. OpInv' /\ op' \in [Users -> OpType] /\ (\A v \in Users : rlock' = v <=> op'[v].pc = "dir")
  BY <1>1, <1>5, OpStepType
<1> QED
  BY <1>6, <1>7 DEF GotDir, TypeInv, TypeOK, OpType

\* They do not, or the call could not ask for them.
LEMMA NoDirType ==
    ASSUME TypeInv, NEW u \in Users, NoDir(u) \/ NotCalled(u)
    PROVE  TypeInv'
<1>1. CASE NoDir(u)
  <2>1. op[u].pc = "dir" /\ rlock' = None /\ OpStep(u, Idle)
    BY <1>1, ReturnStep DEF NoDir, Return
  <2>2. OpInv' /\ op' \in [Users -> OpType] /\ (\A v \in Users : rlock' = v <=> op'[v].pc = "dir")
    BY <2>1, OpStepType, IdleType
  <2> QED
    BY <1>1, <2>1, <2>2 DEF NoDir, TypeInv, TypeOK, OpType
<1>2. CASE NotCalled(u)
  <2>1. used' \in [{"ops", "ext", "inval", "breaks"} -> Nat] /\ redialing' \in BOOLEAN
    BY <1>2, UseType DEF NotCalled, Call, needRedial, TypeInv, TypeOK
  <2> QED
    BY <1>2, <2>1 DEF NotCalled, TypeInv, TypeOK, OpInv
<1> QED
  BY <1>1, <1>2

\* A call that returns from its file.
LEMMA LeaveReturnType ==
    ASSUME TypeInv, NEW u \in Users, op[u].pc = "file", NEW f \in MFile, clock' = clock,
           Leave(u, Return(u), f)
    PROVE  TypeInv'
<1>1. OpStep(u, Idle)
  BY ReturnStep DEF Leave
<1>2. clock' \in Nat
  BY TypeFacts
<1> QED
  BY <1>1, <1>2, IdleType, LeaveType

\* The calls that leave their file with at most its metadata changed.
LEMMA WalkedType ==
    ASSUME TypeInv, NEW u \in Users, Fail(u) \/ Stat(u) \/ Wstat(u) \/ Remove(u)
    PROVE  TypeInv'
<1>1. op[u].pc = "file" /\ clock' = clock
  BY DEF Fail, Stat, Wstat, Remove
<1>2. \A f \in Walk(u) : f \in MFile
  BY <1>1, WalkFacts
<1>3. PICK f \in MFile : Leave(u, Return(u), f)
  <2>1. CASE Fail(u) \/ Stat(u)
    BY <1>2, <2>1 DEF Fail, Stat, WalkOk
  <2>2. CASE Wstat(u)
    <3>1. PICK f \in WalkOk(u) : Leave(u, Return(u), wstat(f, "mode", 1))
      BY <2>2 DEF Wstat
    <3>2. wstat(f, "mode", 1) \in MFile
      BY <1>2, WstatFacts DEF WalkOk
    <3> QED
      BY <3>1, <3>2
  <2>3. CASE Remove(u)
    <3>1. PICK f \in WalkOk(u) : Leave(u, Return(u), del(f))
      BY <2>3 DEF Remove
    <3>2. del(f) \in MFile
      BY <1>2, StatusFacts DEF WalkOk
    <3> QED
      BY <3>1, <3>2
  <2> QED
    BY <2>1, <2>2, <2>3
<1> QED
  BY <1>1, <1>3, LeaveReturnType

\* The contents of a file are needed.
LEMMA CanFetchFacts ==
    ASSUME TypeInv, NEW u \in Users, op[u].pc = "file", CanFetch(u), NEW f \in MFile
    PROVE  /\ srv[op[u].n] \in Stored
           /\ gotData(f, srv[op[u].n]) \in MFile
           /\ gotData(f, srv[op[u].n]).data = srv[op[u].n].data
<1>1. srv[op[u].n] \in Stored
  BY TypeFacts DEF TypeInv, OpInv, CanFetch, Entry
<1> QED
  BY <1>1, GotDataFacts

\* A get.
LEMMA GetType ==
    ASSUME TypeInv, NEW u \in Users, Get(u)
    PROVE  TypeInv'
<1>1. op[u].pc = "file" /\ clock' = clock
  BY DEF Get
<1>2. PICK f \in WalkOk(u) :
        \/ dataOk(f) /\ Leave(u, Return(u), f)
        \/ /\ ~dataOk(f) /\ CanFetch(u)
           /\ Leave(u, [Unhold(op[u].f) EXCEPT ![u] = Idle], gotData(f, srv[op[u].n]))
  BY DEF Get
<1>3. f \in MFile
  BY <1>1, WalkFacts DEF WalkOk
<1>4. CASE Leave(u, Return(u), f)
  BY <1>1, <1>3, <1>4, LeaveReturnType
<1>5. CASE CanFetch(u) /\ Leave(u, [Unhold(op[u].f) EXCEPT ![u] = Idle], gotData(f, srv[op[u].n]))
  <2>1. OpStep(u, Idle)
    BY <1>5, UnholdFacts, IdleType DEF Leave
  <2>2. gotData(f, srv[op[u].n]) \in MFile
    BY <1>1, <1>3, <1>5, CanFetchFacts
  <2>3. clock' \in Nat
    BY <1>1, TypeFacts
  <2> QED
    BY <1>1, <1>5, <2>1, <2>2, <2>3, IdleType, LeaveType
<1> QED
  BY <1>2, <1>4, <1>5

\* What a put that starts leaves: its file has dirty data and, unless the call
\* made it, a new mtime; those who had another buffer have lost it.
PutLeaves(u, g) ==
    /\ op[u].pc = "file" /\ op[u].n \in Names /\ op[u].f \in Objs /\ op[u].f[1] = op[u].n
    /\ g \in MFile /\ g.sts = "data"
    /\ clock' = clock + 1 /\ (g.mt = clock' \/ (op[u].made /\ g.mt = file[op[u].f].mt))
    /\ OpStep(u, [op[u] EXCEPT !.pc = "recv", !.held = TRUE])
    /\ [op[u] EXCEPT !.pc = "recv", !.held = TRUE] \in OpType
    /\ Leave(u, op', g)

LEMMA PutLeft ==
    ASSUME TypeInv, NEW u \in Users, Put(u)
    PROVE  \E g : PutLeaves(u, g)
<1>1. op[u].pc = "file" /\ clock' = clock + 1 /\ clock \in Nat /\ clock + 1 \in Nat
  BY TypeFacts DEF Put
<1>2. op[u] \in OpType /\ op[u].n \in Names /\ op[u].f \in Objs /\ op[u].f[1] = op[u].n
  BY <1>1, TypeFacts DEF TypeInv, OpInv
<1>3. op[u].made \in BOOLEAN
  BY <1>2 DEF OpType
<1>4. PICK f \in WalkOk(u) :
        \/ /\ op[u].kind = "create" \/ dataOk(f)
           /\ Leave(u, Receiving(op, u), put(f, op[u].made, op[u].kind, clock + 1))
        \/ /\ op[u].kind = "put" /\ ~dataOk(f) /\ CanFetch(u)
           /\ Leave(u, Receiving(Unhold(op[u].f), u),
                    put(gotData(f, srv[op[u].n]), FALSE, "put", clock + 1))
  BY DEF Put
<1>5. f \in MFile /\ (op[u].made => f = file[op[u].f])
  BY <1>1, WalkFacts DEF WalkOk
<1> DEFINE x == [op[u] EXCEPT !.pc = "recv", !.held = TRUE]
<1>6. CASE Leave(u, Receiving(op, u), put(f, op[u].made, op[u].kind, clock + 1))
  <2> DEFINE g == put(f, op[u].made, op[u].kind, clock + 1)
  <2>1. g \in MFile /\ g.sts = "data" /\ (g.mt = clock' \/ (op[u].made /\ g.mt = file[op[u].f].mt))
    BY <1>1, <1>3, <1>5, PutFacts
  <2> HIDE DEF g
  <2>2. op' = Receiving(op, u) /\ Leave(u, op', g)
    BY <1>6 DEF Leave, g
  <2>3. op' = [op EXCEPT ![u] = x] /\ x \in OpType
    BY <2>2, TypeFacts, ReceivingFacts
  <2>4. OpStep(u, x)
    BY <2>3, TypeFacts DEF OpStep
  <2> QED
    BY <1>1, <1>2, <2>1, <2>2, <2>3, <2>4 DEF PutLeaves
<1>7. CASE CanFetch(u) /\ Leave(u, Receiving(Unhold(op[u].f), u),
                                put(gotData(f, srv[op[u].n]), FALSE, "put", clock + 1))
  <2> DEFINE g == put(gotData(f, srv[op[u].n]), FALSE, "put", clock + 1)
  <2>1. g \in MFile /\ g.sts = "data" /\ g.mt = clock'
    <3>1. gotData(f, srv[op[u].n]) \in MFile
      BY <1>1, <1>5, <1>7, CanFetchFacts
    <3>2. ASSUME NEW h \in MFile, NEW made \in BOOLEAN, ~made
          PROVE  /\ put(h, made, "put", clock + 1) \in MFile
                 /\ put(h, made, "put", clock + 1).sts = "data"
                 /\ put(h, made, "put", clock + 1).mt = clock + 1
      BY <1>1, <3>2, PutFacts
    <3> QED
      BY <1>1, <3>1, <3>2
  <2> HIDE DEF g
  <2>2. op' = Receiving(Unhold(op[u].f), u) /\ Leave(u, op', g)
    BY <1>7 DEF Leave, g
  <2>3. \A v \in Users : Unhold(op[u].f)[v] \in OpType
    <3>1. ASSUME NEW v \in Users PROVE op[v] \in OpType /\ [op[v] EXCEPT !.held = FALSE] \in OpType
      BY TypeFacts DEF OpType
    <3> QED
      BY <3>1 DEF Unhold
  <2>4. Unhold(op[u].f) \in [Users -> OpType] /\ Unhold(op[u].f)[u] = [op[u] EXCEPT !.held = FALSE]
    BY <2>3 DEF Unhold
  <2> DEFINE y == [Unhold(op[u].f)[u] EXCEPT !.pc = "recv", !.held = TRUE]
  <2>5. op' = [Unhold(op[u].f) EXCEPT ![u] = y] /\ y \in OpType
    BY <2>2, <2>4, ReceivingFacts
  <2>6. y = x
    BY <1>2, <2>4 DEF OpType
  <2> HIDE DEF y
  <2>7. OpStep(u, x) /\ x \in OpType
    BY <2>5, <2>6, UnholdFacts
  <2> QED
    BY <1>1, <1>2, <2>1, <2>2, <2>7 DEF PutLeaves
<1> QED
  BY <1>4, <1>6, <1>7

LEMMA PutType ==
    ASSUME TypeInv, NEW u \in Users, Put(u)
    PROVE  TypeInv'
<1>1. PICK g : PutLeaves(u, g)
  BY PutLeft
<1>2. clock' \in Nat
  BY TypeFacts DEF Put
<1> DEFINE x == [op[u] EXCEPT !.pc = "recv", !.held = TRUE]
<1>3. x \in OpType /\ OpStep(u, x) /\ g \in MFile /\ Leave(u, op', g) /\ op[u].pc = "file"
  BY <1>1 DEF PutLeaves
<1>4. op[u] \in OpType /\ op[u].n \in Names /\ op[u].f \in Objs /\ op[u].f[1] = op[u].n
  BY <1>1, TypeFacts DEF PutLeaves
<1>5. x.pc = "recv" /\ x.n = op[u].n /\ x.f = op[u].f
  BY <1>4 DEF OpType
<1> HIDE DEF x
<1> QED
  BY <1>2, <1>3, <1>4, <1>5, LeaveType

\* Its messages.
LEMMA RecvType ==
    ASSUME TypeInv, NEW u \in Users, Recv(u)
    PROVE  TypeInv'
<1>1. /\ op[u].pc = "recv" /\ op[u] \in OpType /\ op[u].n \in Names /\ op[u].f \in Objs
      /\ op[u].f[1] = op[u].n /\ rlock' = rlock
  BY TypeFacts DEF TypeInv, OpInv, Recv
<1> DEFINE k == op[u].k + 1
           x == [op[u] EXCEPT !.k = k]
<1>2. k \in 0..MaxMsgs
  <2>1. op[u].k \in 0..MaxMsgs /\ k <= MaxMsgs /\ MaxMsgs \in Nat
    BY <1>1, ZxcAssumption DEF OpType, Recv, ZxcAssumption
  <2> QED
    BY <2>1
<1>3. x \in OpType /\ x.pc = "recv" /\ x.n = op[u].n /\ x.f = op[u].f
  BY <1>1, <1>2 DEF OpType
<1>4. op' = [op EXCEPT ![u] = x]
  BY DEF Recv
<1>5. k \in Nat
  BY <1>2
<1>6. file' = IF op[u].held THEN [file EXCEPT ![op[u].f].data = WriteAt(@, k, u)] ELSE file
  BY DEF Recv
<1> HIDE DEF x, k
<1>7. OpStep(u, x)
  BY <1>3, <1>4, TypeFacts DEF OpStep
<1>8. OpInv' /\ op' \in [Users -> OpType] /\ (\A v \in Users : rlock' = v <=> op'[v].pc = "dir")
  BY <1>1, <1>3, <1>7, OpStepType
<1>9. file' \in [Objs -> MFile]
  <2>1. file[op[u].f] \in MFile /\ file[op[u].f].data \in Contents
    BY <1>1, TypeFacts DEF MFile
  <2>2. WriteAt(file[op[u].f].data, k, u) \in Contents
    BY <1>5, <2>1, WriteAtFacts
  <2>3. [file[op[u].f] EXCEPT !.data = WriteAt(@, k, u)] \in MFile
    BY <2>1, <2>2 DEF MFile
  <2>4. [file EXCEPT ![op[u].f] = [file[op[u].f] EXCEPT !.data = WriteAt(@, k, u)]] \in [Objs -> MFile]
    BY <1>1, <2>3, TypeFacts
  <2>5. [file EXCEPT ![op[u].f].data = WriteAt(@, k, u)]
        = [file EXCEPT ![op[u].f] = [file[op[u].f] EXCEPT !.data = WriteAt(@, k, u)]]
    BY <1>1, <2>1, TypeFacts
  <2> QED
    BY <1>6, <2>4, <2>5, TypeFacts
<1> QED
  BY <1>8, <1>9 DEF Recv, TypeInv, TypeOK, OpType

\* Its end.
LEMMA PutEndType ==
    ASSUME TypeInv, NEW u \in Users, PutEnd(u)
    PROVE  TypeInv'
<1>1. op[u].pc = "recv" /\ op[u].f \in Objs /\ op' = Return(u) /\ rlock' = rlock
  BY DEF TypeInv, OpInv, PutEnd
<1>2. clock' = clock + 1 /\ clock \in Nat
  BY TypeFacts DEF PutEnd
<1>3. putEnd(file[op[u].f], clock + 1) \in MFile
  BY <1>1, <1>2, TypeFacts, PutEndFacts
<1>4. [file EXCEPT ![op[u].f] = putEnd(@, clock + 1)] \in [Objs -> MFile]
  BY <1>1, <1>3, TypeFacts
<1>5. file' \in [Objs -> MFile]
  BY <1>4, CollectFacts DEF PutEnd
<1>6. OpInv' /\ op' \in [Users -> OpType] /\ (\A v \in Users : rlock' = v <=> op'[v].pc = "dir")
  BY <1>1, ReturnStep, OpStepType, IdleType
<1>7. UNCHANGED <<srv, up, dsts, child, rlock, syn, redialing, ext, used>>
  BY DEF PutEnd
<1>8. clock' \in Nat
  BY <1>2
<1> QED
  BY <1>5, <1>6, <1>7, <1>8 DEF TypeInv, TypeOK, OpType

\* What the syncer does with a file leaves the calls alone.
LEMMA SyncFileType ==
    ASSUME TypeInv, NEW o \in Objs, SyncFile(o) \/ SyncFails(o) \/ ReplyLost(o)
    PROVE  TypeInv'
<1>1. op' = op /\ rlock' = rlock /\ child' = child /\ clock' = clock /\ dsts' = dsts /\ ext' = ext
  BY DEF SyncFile, SyncFails, ReplyLost
<1>2. syn' \in [pc: {"idle", "files"}, todo: SUBSET Objs]
  <2>1. Took(o) \in [pc: {"idle", "files"}, todo: SUBSET Objs]
    BY TypeFacts DEF Took
  <2> QED
    BY <2>1 DEF SyncFile, SyncFails, ReplyLost, Failed
<1>3. o[1] \in Names /\ file[o] \in MFile /\ srv[o[1]] \in Entry
  BY ObjsFacts, TypeFacts
<1>4. Sent(file[o], srv[o[1]]) \in Entry /\ Synced(file[o], srv[o[1]]) \in MFile
  BY <1>3, SyncFacts
<1>5. srv' \in [Names -> Entry]
  BY <1>4, TypeFacts DEF SyncFile, SyncFails, ReplyLost
<1>6. file' \in [Objs -> MFile]
  <2>1. [file EXCEPT ![o] = Synced(@, srv[o[1]])] \in [Objs -> MFile]
    BY <1>4, TypeFacts
  <2>2. /\ Collect([file EXCEPT ![o] = Synced(@, srv[o[1]])], child, op, syn') \in [Objs -> MFile]
        /\ Collect(file, child, op, syn') \in [Objs -> MFile]
    BY <2>1, TypeFacts, CollectFacts
  <2> QED
    BY <2>2 DEF SyncFile, SyncFails, ReplyLost, Failed
<1>7. redialing' \in BOOLEAN /\ up' \in BOOLEAN
  BY DEF TypeInv, TypeOK, SyncFile, SyncFails, ReplyLost, Failed
<1>8. used' \in [{"ops", "ext", "inval", "breaks"} -> Nat]
  <2>1. CASE ReplyLost(o)
    BY <2>1, UseType DEF ReplyLost
  <2> QED
    BY <2>1 DEF SyncFile, SyncFails, TypeInv, TypeOK
<1> QED
  BY <1>1, <1>2, <1>5, <1>6, <1>7, <1>8 DEF TypeInv, TypeOK, OpInv, Entry

\* And what happens to the rest.
LEMMA WorldType ==
    ASSUME TypeInv, SyncDir \/ Inval \/ Redial \/ Break \/ \E n \in Names : Other(n)
    PROVE  TypeInv'
<1>1. CASE SyncDir
  <2>1. children \subseteq Objs
    BY TypeFacts DEF children
  <2> QED
    BY <1>1, <2>1 DEF SyncDir, TypeInv, TypeOK, OpInv
<1>2. CASE Inval
  <2>1. \A o \in Objs : file[o] \in MFile /\ inval(file[o]) \in MFile
    BY TypeFacts, StatusFacts
  <2>2. file' \in [Objs -> MFile]
    BY <1>2, <2>1 DEF Inval
  <2>3. used' \in [{"ops", "ext", "inval", "breaks"} -> Nat]
    BY <1>2, UseType DEF Inval
  <2> QED
    BY <1>2, <2>2, <2>3 DEF Inval, TypeInv, TypeOK, OpInv
<1>3. CASE Redial
  BY <1>3 DEF Redial, TypeInv, TypeOK, OpInv
<1>4. CASE Break
  <2>1. used' \in [{"ops", "ext", "inval", "breaks"} -> Nat]
    BY <1>4, UseType DEF Break
  <2> QED
    BY <1>4, <2>1 DEF Break, TypeInv, TypeOK, OpInv
<1>5. ASSUME NEW n \in Names, Other(n) PROVE TypeInv'
  <2>1. used' \in [{"ops", "ext", "inval", "breaks"} -> Nat]
    BY <1>5, UseType DEF Other
  <2>2. clock' \in Nat /\ clock' = clock + 1
    BY <1>5, TypeFacts DEF Other
  <2>3. <<None>> \in Contents
    BY DEF Contents
  <2>4. [data |-> <<None>>, mt |-> clock + 1, mode |-> 0] \in Stored
    BY <2>2, <2>3 DEF Stored
  <2>5. srv' \in [Names -> Entry]
    BY <1>5, <2>4, TypeFacts DEF Other, Entry
  <2> QED
    BY <1>5, <2>1, <2>2, <2>5 DEF Other, TypeInv, TypeOK, OpInv, Entry
<1> QED
  BY <1>1, <1>2, <1>3, <1>4, <1>5

LEMMA InitTypeInv == Init => TypeInv
<1> SUFFICES ASSUME Init PROVE TypeInv
  OBVIOUS
<1>1. srv \in [Names -> Stored \cup {None}]
  <2>1. [data |-> <<None>>, mt |-> 0, mode |-> 0] \in Stored
    BY DEF Stored, Contents
  <2> QED
    BY <2>1 DEF Init
<1>2. file \in [Objs -> MFile]
  BY DEF Init, Unused, MFile, Status, Contents
<1>3. op \in [Users -> OpType] /\ \A u \in Users : op[u].pc = "idle"
  BY IdleType DEF Init
<1>4. \A u \in Users : rlock = u <=> op[u].pc = "dir"
  BY <1>3, NoneFacts DEF Init
<1> QED
  BY <1>1, <1>2, <1>3, <1>4 DEF Init, TypeInv, TypeOK, OpInv, OpType

LEMMA TypeInvInductive == TypeInv /\ [Next]_vars => TypeInv'
<1> SUFFICES ASSUME TypeInv, [Next]_vars PROVE TypeInv'
  OBVIOUS
<1>1. CASE UNCHANGED vars
  BY <1>1 DEF vars, TypeInv, TypeOK, OpInv
<1>2. ASSUME NEW u \in Users, Start(u) PROVE TypeInv'
  BY <1>2, WalkDirType, GetDirType, NoDirType DEF Start
<1>3. ASSUME NEW u \in Users, Step(u) PROVE TypeInv'
  BY <1>3, GotDirStepType, NoDirType, WalkedType, GetType, PutType, PutEndType DEF Step
<1>4. ASSUME NEW u \in Users, Recv(u) PROVE TypeInv'
  BY <1>4, RecvType
<1>5. CASE Sync \/ \E o \in Objs : ReplyLost(o)
  BY <1>5, SyncFileType DEF Sync
<1>6. CASE SyncDir \/ Inval \/ Redial \/ Break \/ \E n \in Names : Other(n)
  BY <1>6, WorldType
<1> QED
  BY <1>1, <1>2, <1>3, <1>4, <1>5, <1>6 DEF Next

\* Every variable keeps to its type, and "/" is locked by who fetches it.
THEOREM TypeCorrect == Spec => []TypeOK
<1>1. TypeInv => TypeOK
  BY DEF TypeInv
<1> QED
  BY <1>1, InitTypeInv, TypeInvInductive, PTL DEF Spec

-----------------------------------------------------------------------------
(* What is clean is what the server has.                                   *)

\* sync took one file of each name.
OneEach(n) == \A o, x \in syn.todo : o[1] = n /\ x[1] = n => o = x

\* With c as the child map and fs as the files: a file that sync has yet to
\* send and is not the child any more will not undo what the server has, as
\* it has nothing, or the child is to be sent to it.
Replaced(n, c, fs) ==
    \A o \in syn.todo : o[1] = n /\ c[n] # o =>
        srv[n] = None \/ (c[n] # None /\ fs[c[n]].sts \in {"data", "del"})

\* A child that is gone, and that sync has yet to find so, is not there.
Left(n, c, fs) ==
    \A o \in syn.todo : o[1] = n /\ c[n] = o /\ fs[o].sts = "gone" => srv[n] = None

\* Entries fetched while sync is at it are still those of the server.
Fetched(n) ==
    \A o \in syn.todo, u \in Users : o[1] = n /\ op[u].pc = "dir" => op[u].ents[n] = srv[n]

CleanSynced(n, c, fs) ==
    (c[n] # None /\ fs[c[n]].sts = "clean" /\ ~Putting(c[n])) =>
        srv[n] # None /\ srv[n].data = fs[c[n]].data

DirInv(n, c, fs) ==
    OneEach(n) /\ (n \notin ext => Replaced(n, c, fs) /\ Left(n, c, fs) /\ CleanSynced(n, c, fs))
NameInv(n) == DirInv(n, child, file) /\ (n \notin ext => Fetched(n))
SyncInv == TypeInv /\ \A n \in Names : NameInv(n)

\* A step that leaves alone what the server has of a name, and what fetches it.
SameServer(n) ==
    /\ srv'[n] = srv[n] /\ ext \subseteq ext'
    /\ \A o \in syn'.todo : o[1] = n => o \in syn.todo
    /\ \A u \in Users : op'[u].pc = "dir" =>
            \/ op[u].pc = "dir" /\ op'[u].ents = op[u].ents
            \/ op'[u].ents[n] = srv[n]

\* A step that keeps the child of a name: what is to be sent is kept, and it
\* is clean only if it was, or has what the server has.
SameChild(n) ==
    /\ child'[n] = child[n]
    /\ child[n] # None =>
        LET f == file[child[n]]
            g == file'[child[n]]
        IN  /\ f.sts \in {"data", "del"} => g.sts \in {"data", "del"}
            /\ g.sts = "gone" => f.sts = "gone" \/ srv[n] = None
            /\ (g.sts = "clean" /\ \A u \in Users : ~(op'[u].pc = "recv" /\ op'[u].f = child[n])) =>
                \/ f.sts = "clean" /\ g.data = f.data /\ ~Putting(child[n])
                \/ srv[n] # None /\ g.data = srv[n].data

LEMMA KeepsName ==
    ASSUME TypeInv, NEW n \in Names, NameInv(n), SameServer(n), SameChild(n)
    PROVE  NameInv(n)'
<1>1. OneEach(n)'
  BY DEF NameInv, DirInv, OneEach, SameServer
<1>2. ASSUME n \notin ext'
      PROVE  /\ Replaced(n, child, file)' /\ Left(n, child, file)' /\ Fetched(n)'
             /\ CleanSynced(n, child, file)'
  <2>1. /\ Replaced(n, child, file) /\ Left(n, child, file) /\ Fetched(n)
        /\ CleanSynced(n, child, file)
    BY <1>2 DEF NameInv, DirInv, SameServer
  <2>2. Replaced(n, child, file)'
    BY <2>1 DEF Replaced, SameServer, SameChild
  <2>3. Left(n, child, file)'
    <3>1. None \notin syn.todo
      BY NoneFacts, TypeFacts
    <3> QED
      BY <2>1, <3>1 DEF Left, SameServer, SameChild
  <2>4. Fetched(n)'
    BY <2>1 DEF Fetched, SameServer
  <2>5. CleanSynced(n, child, file)'
    <3> SUFFICES ASSUME child'[n] # None, file'[child'[n]].sts = "clean", ~Putting(child[n])'
                 PROVE  srv'[n] # None /\ srv'[n].data = file'[child'[n]].data
      BY DEF CleanSynced
    <3>1. child'[n] = child[n] /\ srv'[n] = srv[n]
      BY DEF SameChild, SameServer
    <3>2. \A u \in Users : ~(op'[u].pc = "recv" /\ op'[u].f = child[n])
      BY <3>1 DEF Putting
    <3>3. \/ file[child[n]].sts = "clean" /\ file'[child[n]].data = file[child[n]].data /\ ~Putting(child[n])
          \/ srv[n] # None /\ file'[child[n]].data = srv[n].data
      BY <3>1, <3>2 DEF SameChild
    <3> QED
      BY <2>1, <3>1, <3>3 DEF CleanSynced
  <2> QED
    BY <2>2, <2>3, <2>4, <2>5
<1> QED
  BY <1>1, <1>2 DEF NameInv, DirInv

\* A call leaves its file as g, and no other child changes.
LEMMA LeftFile ==
    ASSUME TypeInv, NEW u \in Users, op[u].pc \in {"file", "recv"}, NEW g \in MFile,
           NEW ops, NEW sy, file' = Collect([file EXCEPT ![op[u].f] = g], child, ops, sy),
           NEW n \in Names, child[n] # None
    PROVE  file'[child[n]] = IF child[n] = op[u].f THEN g ELSE file[child[n]]
<1> DEFINE fs == [file EXCEPT ![op[u].f] = g]
<1>1. child[n] \in Objs /\ file \in [Objs -> MFile] /\ op[u].f \in Objs
  BY TypeFacts DEF TypeInv, OpInv
<1>2. fs \in [Objs -> MFile]
  BY <1>1
<1>3. file' = Collect(fs, child, ops, sy)
  OBVIOUS
<1>4. fs[child[n]] = IF child[n] = op[u].f THEN g ELSE file[child[n]]
  BY <1>1
<1> HIDE DEF fs
<1>5. file'[child[n]] = fs[child[n]]
  BY <1>1, <1>2, <1>3, CollectFacts
<1> QED
  BY <1>4, <1>5

\* A call that leaves its file as g.
LeavesWell(u, g) ==
    LET f == file[op[u].f] IN
    /\ f.sts \in {"data", "del"} => g.sts \in {"data", "del"}
    /\ g.sts = "gone" => f.sts = "gone" \/ srv[op[u].n] = None
    /\ g.sts = "clean" =>
        \/ f.sts = "clean" /\ g.data = f.data /\ op[u].pc = "file"
        \/ srv[op[u].n] # None /\ g.data = srv[op[u].n].data

LEMMA CallKeeps ==
    ASSUME TypeInv, NEW u \in Users, op[u].pc \in {"file", "recv"}, NEW g \in MFile,
           LeavesWell(u, g), NEW x \in OpType, OpStep(u, x), x.pc # "dir",
           UNCHANGED <<srv, child, syn, ext>>,
           file' = Collect([file EXCEPT ![op[u].f] = g], child, op', syn'),
           NEW n \in Names, NameInv(n)
    PROVE  NameInv(n)'
<1>1. op[u].f \in Objs /\ op[u].f[1] = op[u].n
  BY DEF TypeInv, OpInv
<1>2. \A v \in Users \ {u} : op'[v].pc = op[v].pc /\ op'[v].f = op[v].f /\ op'[v].ents = op[v].ents
  BY OthersKept
<1>3. op'[u].pc # "dir"
  BY DEF OpStep
<1>4. SameServer(n)
  BY <1>2, <1>3 DEF SameServer
<1>5. child[n] # None => file'[child[n]] = IF child[n] = op[u].f THEN g ELSE file[child[n]]
  BY LeftFile
<1>6. CASE child[n] # op[u].f
  <2>1. (\A v \in Users : ~(op'[v].pc = "recv" /\ op'[v].f = child[n])) => ~Putting(child[n])
    BY <1>2, <1>6 DEF Putting
  <2>2. SameChild(n)
    BY <1>5, <1>6, <2>1 DEF SameChild
  <2> QED
    BY <1>4, <2>2, KeepsName
<1>7. CASE child[n] = op[u].f /\ child[n] # None
  <2>1. op[u].n = n
    BY <1>1, <1>7, TypeFacts
  <2>2. (op[u].pc = "file" /\ \A v \in Users : ~(op'[v].pc = "recv" /\ op'[v].f = child[n]))
            => ~Putting(child[n])
    BY <1>2 DEF Putting
  <2>3. SameChild(n)
    BY <1>5, <1>7, <2>1, <2>2 DEF SameChild, LeavesWell
  <2> QED
    BY <1>4, <2>3, KeepsName
<1>8. CASE child[n] = None
  BY <1>4, <1>8, KeepsName DEF SameChild
<1> QED
  BY <1>6, <1>7, <1>8

\* The calls that leave their file with at most its metadata changed.
LEMMA WalkedKeeps ==
    ASSUME TypeInv, NEW u \in Users, Fail(u) \/ Stat(u) \/ Wstat(u) \/ Remove(u) \/ Get(u),
           NEW n \in Names, NameInv(n)
    PROVE  NameInv(n)'
<1>1. op[u].pc = "file"
  BY DEF Fail, Stat, Wstat, Remove, Get
<1>2. op[u].n \in Names /\ op[u].f \in Objs /\ file[op[u].f] \in MFile
  BY <1>1, TypeFacts DEF TypeInv, OpInv
<1>3. ASSUME NEW f \in Walk(u)
      PROVE  f \in MFile /\ LeavesWell(u, f)
  <2>1. /\ f \in MFile
        /\ f.sts = "clean" => file[op[u].f].sts = "clean" /\ f.data = file[op[u].f].data
        /\ f.sts = "gone" => file[op[u].f].sts = "gone" \/ srv[op[u].n] = None
        /\ file[op[u].f].sts \notin {"new", "clean"} => f = file[op[u].f]
    BY <1>1, WalkFacts
  <2> QED
    BY <1>1, <2>1 DEF LeavesWell
<1>4. ASSUME NEW f \in MFile, LeavesWell(u, f), Leave(u, Return(u), f)
      PROVE  NameInv(n)'
  <2>1. OpStep(u, Idle)
    BY <1>4, ReturnStep DEF Leave
  <2>2. UNCHANGED <<srv, child, syn, ext>> /\ file' = Collect([file EXCEPT ![op[u].f] = f], child, op', syn')
    BY <1>4 DEF Leave
  <2> QED
    BY <1>1, <1>4, <2>1, <2>2, IdleType, CallKeeps
<1>5. CASE Fail(u) \/ Stat(u)
  BY <1>3, <1>4, <1>5 DEF Fail, Stat, WalkOk
<1>6. CASE Wstat(u)
  <2>1. PICK f \in Walk(u) : Leave(u, Return(u), wstat(f, "mode", 1))
    BY <1>6 DEF Wstat, WalkOk
  <2>2. f \in MFile /\ LeavesWell(u, f)
    BY <1>3
  <2> DEFINE w == wstat(f, "mode", 1)
  <2>3. /\ w \in MFile
        /\ w = f \/ w.sts # "clean"
        /\ f.sts \in {"data", "del", "gone"} => w.sts = f.sts
        /\ w.sts \in {"del", "gone"} => f.sts = w.sts
    BY <2>2, WstatFacts
  <2> HIDE DEF w
  <2>4. LeavesWell(u, w)
    BY <2>2, <2>3 DEF LeavesWell
  <2>5. Leave(u, Return(u), w)
    BY <2>1 DEF w
  <2> QED
    BY <1>4, <2>3, <2>4, <2>5
<1>7. CASE Remove(u)
  <2>1. PICK f \in Walk(u) : Leave(u, Return(u), del(f))
    BY <1>7 DEF Remove, WalkOk
  <2>2. del(f) \in MFile /\ del(f).sts = "del"
    BY <1>3, StatusFacts
  <2>3. LeavesWell(u, del(f))
    BY <2>2 DEF LeavesWell
  <2> QED
    BY <1>4, <2>1, <2>2, <2>3
<1>8. CASE Get(u)
  <2>1. PICK f \in Walk(u) :
            \/ Leave(u, Return(u), f)
            \/ /\ ~dataOk(f) /\ CanFetch(u)
               /\ Leave(u, [Unhold(op[u].f) EXCEPT ![u] = Idle], gotData(f, srv[op[u].n]))
    BY <1>8 DEF Get, WalkOk
  <2>2. f \in MFile /\ LeavesWell(u, f)
    BY <1>3
  <2>3. CASE Leave(u, Return(u), f)
    BY <1>4, <2>2, <2>3
  <2>4. CASE /\ ~dataOk(f) /\ CanFetch(u)
             /\ Leave(u, [Unhold(op[u].f) EXCEPT ![u] = Idle], gotData(f, srv[op[u].n]))
    <3> DEFINE g == gotData(f, srv[op[u].n])
    <3>1. srv[op[u].n] \in Stored /\ g \in MFile /\ g.data = srv[op[u].n].data /\ g.sts \in {"clean", "meta"}
      BY <1>1, <2>2, <2>4, CanFetchFacts, GotDataFacts
    <3>2. srv[op[u].n] # None
      BY <2>4 DEF CanFetch
    <3>3. file[op[u].f].sts \notin {"data", "del"}
      BY <2>2, <2>4 DEF LeavesWell, dataOk
    <3> HIDE DEF g
    <3>4. LeavesWell(u, g)
      BY <3>1, <3>2, <3>3 DEF LeavesWell
    <3>5. op' = [Unhold(op[u].f) EXCEPT ![u] = Idle] /\ UNCHANGED <<srv, child, syn, ext>>
          /\ file' = Collect([file EXCEPT ![op[u].f] = g], child, op', syn')
      BY <2>4 DEF Leave, g
    <3>6. OpStep(u, Idle)
      BY <3>5, UnholdFacts, IdleType
    <3> QED
      BY <1>1, <3>1, <3>4, <3>5, <3>6, IdleType, CallKeeps
  <2> QED
    BY <2>1, <2>3, <2>4
<1> QED
  BY <1>5, <1>6, <1>7, <1>8

\* A put, which leaves dirty data when it starts and when it ends.
LEMMA PutKeeps ==
    ASSUME TypeInv, NEW u \in Users, Put(u) \/ PutEnd(u), NEW n \in Names, NameInv(n)
    PROVE  NameInv(n)'
<1>1. ASSUME NEW g \in MFile, g.sts = "data" PROVE LeavesWell(u, g)
  BY <1>1 DEF LeavesWell
<1>2. CASE Put(u)
  <2>1. PICK g : PutLeaves(u, g)
    BY <1>2, PutLeft
  <2> DEFINE x == [op[u] EXCEPT !.pc = "recv", !.held = TRUE]
  <2>2. g \in MFile /\ g.sts = "data" /\ op[u].pc = "file" /\ x \in OpType /\ OpStep(u, x)
    BY <2>1 DEF PutLeaves
  <2>3. x.pc # "dir"
    BY TypeFacts DEF OpType
  <2> HIDE DEF x
  <2>4. UNCHANGED <<srv, child, syn, ext>> /\ file' = Collect([file EXCEPT ![op[u].f] = g], child, op', syn')
    BY <2>1 DEF PutLeaves, Leave
  <2> QED
    BY <1>1, <2>2, <2>3, <2>4, CallKeeps
<1>3. CASE PutEnd(u)
  <2> DEFINE g == putEnd(file[op[u].f], clock + 1)
  <2>1. op[u].pc = "recv" /\ op[u].f \in Objs /\ op' = Return(u)
    BY <1>3 DEF TypeInv, OpInv, PutEnd
  <2>2. clock + 1 \in Nat
    BY TypeFacts
  <2>3. g \in MFile /\ g.sts = "data"
    BY <2>1, <2>2, TypeFacts, PutEndFacts
  <2>4. UNCHANGED <<srv, child, syn, ext>> /\ file' = Collect([file EXCEPT ![op[u].f] = g], child, op', syn')
    <3>1. UNCHANGED <<srv, child, syn, ext>>
      BY <1>3 DEF PutEnd
    <3>2. [file EXCEPT ![op[u].f] = putEnd(@, clock + 1)] = [file EXCEPT ![op[u].f] = g]
      BY <2>1, TypeFacts
    <3> HIDE DEF g
    <3> QED
      BY <1>3, <3>1, <3>2 DEF PutEnd
  <2> HIDE DEF g
  <2>5. OpStep(u, Idle)
    BY <2>1, ReturnStep
  <2> QED
    BY <1>1, <2>1, <2>3, <2>4, <2>5, IdleType, CallKeeps
<1> QED
  BY <1>2, <1>3

\* Its messages, while its file is taken as being written.
LEMMA RecvKeeps ==
    ASSUME TypeInv, NEW u \in Users, Recv(u), NEW n \in Names, NameInv(n)
    PROVE  NameInv(n)'
<1>1. op[u].pc = "recv" /\ op[u].f \in Objs /\ op[u] \in OpType
  BY TypeFacts DEF TypeInv, OpInv, Recv
<1>2. \A v \in Users : op'[v].pc = op[v].pc /\ op'[v].f = op[v].f /\ op'[v].ents = op[v].ents
  BY <1>1, TypeFacts DEF Recv, OpType
<1>3. SameServer(n)
  BY <1>2 DEF SameServer, Recv
<1>4. \A o \in Objs : o # op[u].f => file'[o] = file[o]
  BY TypeFacts DEF Recv
<1>5. \A o \in Objs : file'[o].sts = file[o].sts
  BY TypeFacts DEF Recv, MFile
<1>6. child' = child
  BY DEF Recv
<1>7. ASSUME child[n] # None PROVE child[n] \in Objs
  BY <1>7, TypeFacts
<1>8. SameChild(n)
  <2>1. (\A v \in Users : ~(op'[v].pc = "recv" /\ op'[v].f = child[n])) =>
            ~Putting(child[n]) /\ child[n] # op[u].f
    BY <1>1, <1>2 DEF Putting
  <2> QED
    BY <1>4, <1>5, <1>6, <1>7, <2>1 DEF SameChild
<1> QED
  BY <1>3, <1>8, KeepsName

\* The entries that the server sent, if they are those that it has now for
\* what sync has yet to send.
LEMMA GotDirKeeps ==
    ASSUME TypeInv, NEW ents \in [Names -> Entry],
           \A m \in Names : Found(ents, m) => Fresh(m) # {},
           NEW n \in Names, DirInv(n, child, file),
           n \notin ext => \A o \in syn.todo : o[1] = n => ents[n] = srv[n]
    PROVE  DirInv(n, gotDir(ents), gotDirFiles(ents))
<1> DEFINE c == gotDir(ents)
           fs == gotDirFiles(ents)
<1> SUFFICES ASSUME n \notin ext
             PROVE  Replaced(n, c, fs) /\ Left(n, c, fs) /\ CleanSynced(n, c, fs)
  BY DEF DirInv
<1>1. Replaced(n, child, file) /\ Left(n, child, file) /\ CleanSynced(n, child, file)
  BY DEF DirInv
<1>2. /\ c[n] = IF Dropped(ents, n) THEN None ELSE IF Found(ents, n) THEN New(n) ELSE child[n]
      /\ child[n] # None => child[n] \in Objs /\ child[n][1] = n
  BY TypeFacts DEF gotDir
<1>3. CASE Dropped(ents, n)
  <2>1. c[n] = None
    BY <1>2, <1>3
  <2>2. (\E o \in syn.todo : o[1] = n) => srv[n] = None
    BY <1>3 DEF Dropped
  <2>3. None \notin syn.todo
    BY NoneFacts, TypeFacts
  <2> HIDE DEF c, fs
  <2> QED
    BY <2>1, <2>2, <2>3 DEF Replaced, Left, CleanSynced
<1>4. CASE Found(ents, n)
  <2>1. Fresh(n) # {}
    BY <1>4
  <2>2. ~Dropped(ents, n)
    BY <1>4 DEF Found, Dropped
  <2>3. c[n] = New(n) /\ New(n) \in Objs /\ New(n)[1] = n /\ New(n) \notin syn.todo
    BY <1>2, <1>4, <2>1, <2>2, NewFacts
  <2>4. fs[New(n)].sts = "new"
    BY <1>4, <2>3 DEF gotDirFiles, NewFile
  <2>5. \A o \in syn.todo : o[1] # n
    <3>1. ASSUME NEW o \in syn.todo, o[1] = n PROVE FALSE
      <4>1. ents[n] = srv[n] /\ child[n] = None /\ ents[n] # None
        BY <1>4, <3>1 DEF Found
      <4>2. o # None
        BY NoneFacts, TypeFacts
      <4> QED
        BY <1>1, <3>1, <4>1, <4>2 DEF Replaced
    <3> QED
      BY <3>1
  <2> HIDE DEF c, fs
  <2> QED
    BY <2>3, <2>4, <2>5 DEF Replaced, Left, CleanSynced
<1>5. CASE child[n] = None /\ ents[n] = None
  <2>1. c[n] = None /\ child[n] = None
    BY <1>2, <1>5 DEF Dropped, Found
  <2>2. None \notin syn.todo
    BY NoneFacts, TypeFacts
  <2> HIDE DEF c, fs
  <2> QED
    BY <1>1, <2>1, <2>2 DEF Replaced, Left, CleanSynced
<1>6. CASE child[n] # None /\ ~Dropped(ents, n)
  <2>1. c[n] = child[n] /\ child[n] \in Objs /\ child[n][1] = n
    BY <1>2, <1>6 DEF Found
  <2> DEFINE f == file[child[n]]
             g == fs[child[n]]
  <2>2. f \in MFile
    BY <2>1, TypeFacts
  <2>3. g = IF ents[n] # None THEN gotMeta(f, ents[n]) ELSE f
    BY <1>6, <2>1 DEF gotDirFiles, Found
  <2>4. ents[n] # None => ents[n] \in Stored
    BY DEF Entry
  <2> HIDE DEF f, g
  <2>5. /\ f.sts \in {"data", "del"} => g.sts = f.sts
        /\ g.sts = "gone" => f.sts = "gone"
        /\ g.sts = "clean" => f.sts = "clean" /\ g.data = f.data
    BY <2>2, <2>3, <2>4, GotMetaFacts
  <2>6. Replaced(n, c, fs)
    BY <1>1, <2>1, <2>5 DEF Replaced, f, g
  <2>7. Left(n, c, fs)
    BY <1>1, <2>1, <2>5 DEF Left, f, g
  <2>8. CleanSynced(n, c, fs)
    BY <1>1, <2>1, <2>5 DEF CleanSynced, f, g
  <2> QED
    BY <2>6, <2>7, <2>8
<1> QED
  BY <1>3, <1>4, <1>5, <1>6 DEF Found

\* A walk to a file that is there, or to one that it makes.
LEMMA FindKeeps ==
    ASSUME TypeInv, NEW u \in Users, op[u].pc \in {"idle", "dir"},
           NEW kind \in Kinds, NEW m \in Names,
           NEW c \in [Names -> Objs \cup {None}],
           \A i \in Names : c[i] # None => c[i][1] = i,
           NEW fs \in [Objs -> MFile], Find(u, kind, m, c, fs),
           UNCHANGED <<srv, syn, ext>>,
           NEW n \in Names, DirInv(n, c, fs), n \notin ext => Fetched(n)
    PROVE  NameInv(n)'
<1>1. PICK x \in OpType : OpStep(u, x) /\ x.pc # "dir" /\ x.pc # "recv"
  BY FindType
<1>2. \A v \in Users \ {u} : op'[v].pc = op[v].pc /\ op'[v].f = op[v].f /\ op'[v].ents = op[v].ents
  BY <1>1, OthersKept
<1>3. op'[u].pc # "dir" /\ op'[u].pc # "recv"
  BY <1>1 DEF OpStep
<1>4. OneEach(n)'
  BY DEF DirInv, OneEach
<1>5. ASSUME n \notin ext
      PROVE  /\ Fetched(n)' /\ Replaced(n, child, file)' /\ Left(n, child, file)'
             /\ CleanSynced(n, child, file)'
  <2>1. Replaced(n, c, fs) /\ Left(n, c, fs) /\ CleanSynced(n, c, fs) /\ Fetched(n)
    BY <1>5 DEF DirInv
  <2>2. Fetched(n)'
    BY <1>2, <1>3, <2>1 DEF Fetched
  <2>3. \A o : Putting(o)' => Putting(o)
    BY <1>2, <1>3 DEF Putting
  <2>4. None \notin syn.todo /\ syn' = syn /\ srv' = srv
    BY NoneFacts, TypeFacts
  <2>5. CASE child'[n] = None /\ (c[n] = None \/ fs[c[n]].sts = "gone")
    BY <2>1, <2>2, <2>4, <2>5 DEF Replaced, Left, CleanSynced
  <2>6. CASE child'[n] = c[n] /\ child'[n] # None /\ file'[c[n]] = fs[c[n]]
    <3>1. \A o : ~Putting(o) => ~Putting(o)'
      BY <2>3
    <3>2. Putting(c[n]) => Putting(child[n])'
      BY <1>2, <2>6 DEF Putting
    <3>3. Replaced(n, child, file)'
      BY <2>1, <2>4, <2>6 DEF Replaced
    <3>4. Left(n, child, file)'
      BY <2>1, <2>4, <2>6 DEF Left
    <3>5. CleanSynced(n, child, file)'
      BY <2>1, <2>4, <2>6, <3>2 DEF CleanSynced
    <3> QED
      BY <2>2, <3>3, <3>4, <3>5
  <2>7. CASE child'[n] # None /\ child'[n] \notin syn.todo /\ file'[child'[n]].sts = "data"
    BY <2>2, <2>4, <2>7 DEF Replaced, Left, CleanSynced
  <2>8. CASE walk1(u, kind, m, c, fs)
    <3>1. child' = Forget(m, c, fs) /\ file' = Collect(fs, child', op', syn)
      BY <2>8 DEF walk1
    <3>2. child'[n] = c[n] \/ (child'[n] = None /\ fs[c[n]].sts = "gone")
      BY <3>1 DEF Forget
    <3>3. child'[n] \in Objs => file'[child'[n]] = fs[child'[n]]
      BY <3>1, CollectFacts
    <3>4. c[n] \in Objs \cup {None}
      OBVIOUS
    <3> QED
      BY <2>5, <2>6, <3>2, <3>3, <3>4
  <2>9. CASE newFile(u, m, c, fs)
    <3> DEFINE gs == [fs EXCEPT ![New(m)] = NewFile("data", clock + 1, 0, 0)]
    <3>1. Fresh(m) # {} /\ child' = [c EXCEPT ![m] = New(m)] /\ file' = Collect(gs, child', op', syn)
      BY <2>9 DEF newFile
    <3>2. New(m) \in Objs /\ New(m)[1] = m /\ New(m) \notin syn.todo /\ New(m) # None
      BY <3>1, NewFacts, NoneFacts
    <3>3. NewFile("data", clock + 1, 0, 0) \in MFile /\ NewFile("data", clock + 1, 0, 0).sts = "data"
      BY TypeFacts DEF NewFile, MFile, Status, Contents
    <3>4. gs \in [Objs -> MFile] /\ gs[New(m)].sts = "data" /\ \A o \in Objs : o # New(m) => gs[o] = fs[o]
      BY <3>2, <3>3
    <3> HIDE DEF gs
    <3>5. child'[n] \in Objs => file'[child'[n]] = gs[child'[n]]
      <4>1. child'[n] \in Objs => Collect(gs, child', op', syn)[child'[n]] = gs[child'[n]]
        BY <3>4, CollectFacts
      <4> QED
        BY <3>1, <4>1
    <3>6. CASE n = m
      <4>1. child'[n] = New(m)
        BY <3>1, <3>6
      <4> QED
        BY <2>7, <3>2, <3>4, <3>5, <4>1
    <3>7. CASE n # m
      <4>1. child'[n] = c[n] /\ (c[n] # None => c[n] \in Objs /\ c[n] # New(m))
        BY <3>1, <3>2, <3>7
      <4> QED
        BY <2>5, <2>6, <3>4, <3>5, <4>1
    <3> QED
      BY <3>6, <3>7
  <2> QED
    BY <2>8, <2>9 DEF Find
<1> QED
  BY <1>4, <1>5 DEF NameInv, DirInv

\* A walk, whether its entries are good, or are fetched, or come, or do not.
LEMMA WalkKeeps ==
    ASSUME TypeInv, NEW u \in Users,
           \/ \E kind \in Kinds, m \in Names : WalkDir(u, kind, m) \/ GetDir(u, kind, m)
           \/ GotDir(u) \/ NoDir(u) \/ NotCalled(u),
           NEW n \in Names, NameInv(n)
    PROVE  NameInv(n)'
<1>1. DirInv(n, child, file) /\ (n \notin ext => Fetched(n))
  BY DEF NameInv
<1>2. ASSUME NEW kind \in Kinds, NEW m \in Names, WalkDir(u, kind, m) PROVE NameInv(n)'
  <2>1. /\ Find(u, kind, m, child, file) /\ op[u].pc = "idle" /\ UNCHANGED <<srv, syn, ext>>
    BY <1>2 DEF WalkDir, Call
  <2>2. /\ child \in [Names -> Objs \cup {None}] /\ file \in [Objs -> MFile]
        /\ \A i \in Names : child[i] # None => child[i][1] = i
    BY TypeFacts
  <2> QED
    BY <1>1, <2>1, <2>2, FindKeeps
<1>3. ASSUME NEW kind \in Kinds, NEW m \in Names, GetDir(u, kind, m) PROVE NameInv(n)'
  <2>1. /\ op[u].pc = "idle" /\ UNCHANGED <<srv, child, file, syn, ext>>
        /\ op' = [op EXCEPT ![u] = [Idle EXCEPT !.pc = "dir", !.kind = kind, !.n = m, !.ents = srv]]
    BY <1>3 DEF GetDir, Call
  <2>2. op'[u].pc = "dir" /\ op'[u].ents = srv /\ \A v \in Users \ {u} : op'[v] = op[v]
    BY <2>1, TypeFacts DEF Idle
  <2>3. SameServer(n)
    BY <2>1, <2>2 DEF SameServer
  <2>4. (\A v \in Users : ~(op'[v].pc = "recv" /\ op'[v].f = child[n])) => ~Putting(child[n])
    BY <2>1, <2>2 DEF Putting
  <2>5. SameChild(n)
    BY <2>1, <2>4 DEF SameChild
  <2> QED
    BY <2>3, <2>5, KeepsName
<1>4. CASE GotDir(u)
  <2> DEFINE ents == op[u].ents
             c == gotDir(ents)
             fs == gotDirFiles(ents)
  <2>1. /\ op[u].n \in Names /\ op[u].kind \in Kinds /\ ents \in [Names -> Entry]
        /\ op[u].pc = "dir" /\ UNCHANGED <<srv, syn, ext>>
        /\ \A i \in Names : Found(ents, i) => Fresh(i) # {}
        /\ Find(u, op[u].kind, op[u].n, c, fs)
    BY <1>4 DEF GotDir, TypeInv, OpInv
  <2>2. n \notin ext => \A o \in syn.todo : o[1] = n => ents[n] = srv[n]
    BY <1>1, <2>1 DEF Fetched
  <2>3. DirInv(n, c, fs)
    BY <1>1, <2>1, <2>2, GotDirKeeps
  <2>4. /\ c \in [Names -> Objs \cup {None}] /\ fs \in [Objs -> MFile]
        /\ \A i \in Names : c[i] # None => c[i][1] = i
    BY <2>1, GotDirType
  <2> HIDE DEF c, fs
  <2> QED
    BY <1>1, <2>1, <2>3, <2>4, FindKeeps
<1>5. CASE NoDir(u)
  <2>1. /\ op[u].pc = "dir" /\ UNCHANGED <<srv, child, file, syn, ext>>
        /\ op' = [op EXCEPT ![u] = Idle]
    BY <1>5 DEF NoDir
  <2>2. op'[u].pc = "idle" /\ \A v \in Users \ {u} : op'[v] = op[v]
    BY <2>1, TypeFacts, IdleType
  <2>3. SameServer(n)
    BY <2>1, <2>2 DEF SameServer
  <2>4. (\A v \in Users : ~(op'[v].pc = "recv" /\ op'[v].f = child[n])) => ~Putting(child[n])
    BY <2>1, <2>2 DEF Putting
  <2>5. SameChild(n)
    BY <2>1, <2>4 DEF SameChild
  <2> QED
    BY <2>3, <2>5, KeepsName
<1>6. CASE NotCalled(u)
  BY <1>1, <1>6 DEF NotCalled, NameInv, DirInv, OneEach, Replaced, Left, CleanSynced, Fetched, Putting
<1> QED
  BY <1>2, <1>3, <1>4, <1>5, <1>6

\* What sync does with a file: of those of its name there is no other to be
\* sent, and what is clean is what was sent.
LEMMA SyncKeeps ==
    ASSUME TypeInv, NEW x \in Objs, SyncFile(x) \/ SyncFails(x) \/ ReplyLost(x),
           NEW n \in Names, NameInv(n)
    PROVE  NameInv(n)'
<1>1. /\ UNCHANGED <<child, op, ext>>
      /\ x \in syn.todo /\ syn'.todo = syn.todo \ {x}
  <2>1. /\ UNCHANGED <<child, op, ext>>
        /\ x \in syn.todo
    BY DEF SyncFile, SyncFails, ReplyLost
  <2>2. syn' = Took(x) \/ syn' = [Took(x) EXCEPT !.pc = "idle"]
    BY DEF SyncFile, SyncFails, ReplyLost, Failed
  <2>3. Took(x).todo = syn.todo \ {x} /\ [Took(x) EXCEPT !.pc = "idle"].todo = syn.todo \ {x}
    BY DEF Took
  <2> QED
    BY <2>1, <2>2, <2>3
<1>2. /\ srv'[n] = IF n = x[1] /\ ~SyncFails(x) THEN Sent(file[x], srv[n]) ELSE srv[n]
  <2>1. SyncFails(x) => srv' = srv
    BY DEF SyncFails
  <2>2. ~SyncFails(x) => srv' = [srv EXCEPT ![x[1]] = Sent(file[x], srv[x[1]])]
    BY DEF SyncFile, ReplyLost
  <2> QED
    BY <2>1, <2>2, TypeFacts
<1>3. file[x] \in MFile /\ x[1] \in Names /\ srv[x[1]] \in Entry
  BY ObjsFacts, TypeFacts
<1>4. child[n] # None => child[n] \in Objs /\ child[n][1] = n
  BY TypeFacts
<1>5. child[n] # None =>
        file'[child[n]] = IF child[n] = x /\ SyncFile(x) THEN Synced(file[x], srv[n]) ELSE file[child[n]]
  <2> DEFINE fs == [file EXCEPT ![x] = Synced(file[x], srv[x[1]])]
  <2>1. Synced(file[x], srv[x[1]]) \in MFile /\ file \in [Objs -> MFile]
    BY <1>3, SyncFacts, TypeFacts
  <2>2. fs \in [Objs -> MFile]
    BY <2>1
  <2>3. child[n] # None => fs[child[n]] = IF child[n] = x THEN Synced(file[x], srv[n]) ELSE file[child[n]]
    BY <1>4, <2>1
  <2>4. SyncFile(x) => file' = Collect(fs, child, op, syn')
    BY DEF SyncFile
  <2>5. ~SyncFile(x) => file' = Collect(file, child, op, syn')
    BY DEF SyncFails, ReplyLost, Failed
  <2> HIDE DEF fs
  <2>6. child[n] # None => /\ Collect(fs, child, op, syn')[child[n]] = fs[child[n]]
                           /\ Collect(file, child, op, syn')[child[n]] = file[child[n]]
    BY <1>4, <2>1, <2>2, CollectFacts
  <2> QED
    BY <2>3, <2>4, <2>5, <2>6
<1>6. CASE n # x[1]
  <2>1. SameServer(n)
    BY <1>1, <1>2, <1>6 DEF SameServer
  <2>2. SameChild(n)
    BY <1>1, <1>4, <1>5, <1>6 DEF SameChild, Putting
  <2> QED
    BY <2>1, <2>2, KeepsName
<1>7. CASE n = x[1]
  <2>1. \A o \in syn'.todo : o[1] # n
    BY <1>1, <1>7 DEF NameInv, DirInv, OneEach
  <2>2. OneEach(n)' /\ Replaced(n, child, file)' /\ Left(n, child, file)' /\ Fetched(n)'
    BY <2>1 DEF OneEach, Replaced, Left, Fetched
  <2>3. ASSUME n \notin ext, child[n] # None, file'[child[n]].sts = "clean", ~Putting(child[n])
        PROVE  srv'[n] # None /\ srv'[n].data = file'[child[n]].data
    <3>1. Replaced(n, child, file) /\ CleanSynced(n, child, file)
      BY <2>3 DEF NameInv, DirInv
    <3>2. CASE child[n] = x /\ SyncFile(x)
      <4>1. ~SyncFails(x)
        <5>1. SyncFile(x) /\ SyncFails(x) => FALSE
          BY DEF SyncFile, SyncFails
        <5> QED
          BY <3>2, <5>1
      <4> DEFINE f == file[x]
                 g == Synced(f, srv[n])
                 d == Sent(f, srv[n])
      <4>2. file'[child[n]] = g /\ srv'[n] = d /\ g.sts = "clean"
        BY <1>2, <1>5, <1>7, <2>3, <3>2, <4>1
      <4>3. \/ f.sts = "clean" /\ d = srv[n] /\ g = f
            \/ d \in Stored /\ d.data = g.data
        BY <1>3, <1>7, <4>2, SyncFacts
      <4> HIDE DEF d, g
      <4> QED
        BY <2>3, <3>1, <3>2, <4>2, <4>3, NoneFacts DEF CleanSynced
    <3>3. CASE ~(child[n] = x /\ SyncFile(x))
      <4>1. file'[child[n]] = file[child[n]]
        BY <1>5, <2>3, <3>3
      <4>2. srv[n] # None /\ srv[n].data = file[child[n]].data
        BY <2>3, <3>1, <4>1 DEF CleanSynced
      <4>3. child[n] = x
        BY <1>1, <1>7, <2>3, <3>1, <4>1, <4>2 DEF Replaced
      <4>4. SyncFails(x) \/ ReplyLost(x)
        BY <3>3, <4>3
      <4>5. file[x].sts \in Dirty
        BY <4>4 DEF SyncFails, ReplyLost
      <4> QED
        BY <2>3, <4>1, <4>3, <4>5 DEF Dirty
    <3> QED
      BY <3>2, <3>3
  <2>4. n \notin ext => CleanSynced(n, child, file)'
    BY <1>1, <2>3 DEF CleanSynced, Putting
  <2> QED
    BY <1>1, <2>2, <2>4 DEF NameInv, DirInv
<1> QED
  BY <1>6, <1>7

\* sync takes the children, all of them there, with "/" locked.
LEMMA SyncDirKeeps ==
    ASSUME TypeInv, SyncDir, NEW n \in Names, NameInv(n)
    PROVE  NameInv(n)'
<1>1. UNCHANGED <<srv, child, file, op, ext>> /\ rlock = None /\ syn'.todo = children
  BY DEF SyncDir
<1>2. \A o \in children : o \in Objs /\ o = child[o[1]] /\ file[o].sts # "gone"
  BY TypeFacts DEF children
<1>3. \A u \in Users : op'[u].pc # "dir"
  BY <1>1, TypeFacts, NoneFacts
<1>4. OneEach(n)' /\ Replaced(n, child, file)' /\ Left(n, child, file)' /\ Fetched(n)'
  BY <1>1, <1>2, <1>3 DEF OneEach, Replaced, Left, Fetched
<1>5. CleanSynced(n, child, file) => CleanSynced(n, child, file)'
  BY <1>1 DEF CleanSynced, Putting
<1> QED
  BY <1>1, <1>4, <1>5 DEF NameInv, DirInv

\* And what happens to the rest.
LEMMA WorldKeeps ==
    ASSUME TypeInv, Inval \/ Redial \/ Break \/ \E m \in Names : Other(m),
           NEW n \in Names, NameInv(n)
    PROVE  NameInv(n)'
<1>1. CASE Inval
  <2>1. SameServer(n)
    BY <1>1 DEF Inval, SameServer
  <2>2. child' = child /\ op' = op
    BY <1>1 DEF Inval
  <2>3. child[n] # None => /\ child[n] \in Objs /\ child[child[n][1]] = child[n]
                           /\ file[child[n]] \in MFile
    BY TypeFacts
  <2>4. child[n] # None => file'[child[n]] = inval(file[child[n]])
    BY <1>1, <2>3 DEF Inval
  <2>5. SameChild(n)
    BY <2>2, <2>3, <2>4, StatusFacts DEF SameChild
  <2> QED
    BY <2>1, <2>5, KeepsName
<1>2. CASE Redial \/ Break
  BY <1>2 DEF Redial, Break, NameInv, DirInv, OneEach, Replaced, Left, CleanSynced, Fetched, Putting
<1>3. ASSUME NEW m \in Names, Other(m) PROVE NameInv(n)'
  <2>1. UNCHANGED <<child, file, op, syn>> /\ ext' = ext \cup {m}
    BY <1>3 DEF Other
  <2>2. n # m => srv'[n] = srv[n]
    BY <1>3, TypeFacts DEF Other
  <2> QED
    BY <2>1, <2>2 DEF NameInv, DirInv, OneEach, Replaced, Left, CleanSynced, Fetched, Putting
<1> QED
  BY <1>1, <1>2, <1>3

LEMMA SyncInvInductive == SyncInv /\ [Next]_vars => SyncInv'
<1> SUFFICES ASSUME SyncInv, [Next]_vars PROVE SyncInv'
  OBVIOUS
<1>1. TypeInv /\ TypeInv'
  BY TypeInvInductive DEF SyncInv
<1> SUFFICES ASSUME NEW n \in Names, NameInv(n) PROVE NameInv(n)'
  BY <1>1 DEF SyncInv
<1>2. CASE UNCHANGED vars
  BY <1>2 DEF vars, NameInv, DirInv, OneEach, Replaced, Left, CleanSynced, Fetched, Putting
<1>3. ASSUME NEW u \in Users, Start(u) PROVE NameInv(n)'
  BY <1>1, <1>3, WalkKeeps DEF Start
<1>4. ASSUME NEW u \in Users, Step(u) PROVE NameInv(n)'
  BY <1>1, <1>4, WalkKeeps, WalkedKeeps, PutKeeps DEF Step
<1>5. ASSUME NEW u \in Users, Recv(u) PROVE NameInv(n)'
  BY <1>1, <1>5, RecvKeeps
<1>6. CASE Sync \/ \E o \in Objs : ReplyLost(o)
  BY <1>1, <1>6, SyncKeeps DEF Sync
<1>7. CASE SyncDir \/ Inval \/ Redial \/ Break \/ \E m \in Names : Other(m)
  BY <1>1, <1>7, SyncDirKeeps, WorldKeeps
<1> QED
  BY <1>2, <1>3, <1>4, <1>5, <1>6, <1>7 DEF Next

LEMMA InitSyncInv == Init => SyncInv
<1> SUFFICES ASSUME Init PROVE SyncInv
  OBVIOUS
<1>1. \A n \in Names : child[n] = None
  BY DEF Init
<1>2. syn.todo = {}
  BY DEF Init
<1> QED
  BY <1>1, <1>2, InitTypeInv
    DEF SyncInv, NameInv, DirInv, OneEach, Replaced, Left, Fetched, CleanSynced

\* A clean file that nobody is writing is what the server has, unless other
\* clients changed it, however calls, syncs, lost replies and redials interleave.
THEOREM CleanAreSynced == Spec => []CleanIsSynced
<1>1. SyncInv => CleanIsSynced
  BY DEF SyncInv, NameInv, DirInv, CleanSynced, CleanIsSynced
<1> QED
  BY <1>1, InitSyncInv, SyncInvInductive, PTL DEF Spec

-----------------------------------------------------------------------------
(* What is removed is left alone.                                          *)

\* A child that was removed, that nobody is writing, and that no call made.
Removed(n) ==
    /\ child[n] # None /\ file[child[n]].sts = "del"
    /\ ~Putting(child[n]) /\ ~Creating(child[n])

\* A walk goes on with what the directory has.
LEMMA FindLeaves ==
    ASSUME TypeInv, NEW u \in Users, NEW kind \in Kinds, NEW m \in Names,
           NEW c \in [Names -> Objs \cup {None}], NEW fs \in [Objs -> MFile],
           Find(u, kind, m, c, fs),
           NEW n \in Names, child[n] # None, child'[n] = child[n]
    PROVE  file'[child[n]] = fs[child[n]]
<1>1. child[n] \in Objs
  BY TypeFacts
<1>2. CASE walk1(u, kind, m, c, fs)
  <2>1. file' = Collect(fs, child', op', syn)
    BY <1>2 DEF walk1
  <2> QED
    BY <1>1, <2>1, CollectFacts
<1>3. CASE newFile(u, m, c, fs)
  <2> DEFINE gs == [fs EXCEPT ![New(m)] = NewFile("data", clock + 1, 0, 0)]
  <2>1. Fresh(m) # {} /\ file' = Collect(gs, child', op', syn)
    BY <1>3 DEF newFile
  <2>2. New(m) \in Objs /\ child[n] # New(m)
    BY <2>1, NewFacts
  <2>3. NewFile("data", clock + 1, 0, 0) \in MFile
    BY TypeFacts DEF NewFile, MFile, Status, Contents
  <2>4. gs \in [Objs -> MFile] /\ gs[child[n]] = fs[child[n]]
    BY <1>1, <2>2, <2>3
  <2> HIDE DEF gs
  <2>5. Collect(gs, child', op', syn)[child'[n]] = gs[child'[n]]
    BY <1>1, <2>4, CollectFacts
  <2> QED
    BY <2>1, <2>4, <2>5
<1> QED
  BY <1>2, <1>3 DEF Find

\* The walks: entries of the server do not bring it back.
LEMMA WalkLeaves ==
    ASSUME TypeInv, NEW u \in Users,
           \/ \E kind \in Kinds, m \in Names : WalkDir(u, kind, m)
           \/ GotDir(u),
           NEW n \in Names, Removed(n), child'[n] = child[n]
    PROVE  file'[child[n]].sts \in {"del", "gone"}
<1>1. child[n] \in Objs /\ child[n][1] = n /\ file[child[n]] \in MFile /\ file[child[n]].sts = "del"
  BY TypeFacts DEF Removed
<1>2. ASSUME NEW kind \in Kinds, NEW m \in Names, WalkDir(u, kind, m)
      PROVE  file'[child[n]].sts \in {"del", "gone"}
  <2>1. Find(u, kind, m, child, file)
    BY <1>2 DEF WalkDir
  <2>2. child \in [Names -> Objs \cup {None}] /\ file \in [Objs -> MFile]
    BY TypeFacts
  <2>3. file'[child[n]] = file[child[n]]
    BY <2>1, <2>2, FindLeaves DEF Removed
  <2> QED
    BY <1>1, <2>3
<1>3. CASE GotDir(u)
  <2> DEFINE ents == op[u].ents
             c == gotDir(ents)
             fs == gotDirFiles(ents)
  <2>1. /\ op[u].n \in Names /\ op[u].kind \in Kinds /\ ents \in [Names -> Entry]
        /\ \A i \in Names : Found(ents, i) => Fresh(i) # {}
        /\ Find(u, op[u].kind, op[u].n, c, fs)
    BY <1>3 DEF GotDir, TypeInv, OpInv
  <2>2. c \in [Names -> Objs \cup {None}] /\ fs \in [Objs -> MFile]
    BY <2>1, GotDirType
  <2> DEFINE f == file[child[n]]
  <2>3. fs[child[n]] = IF ents[n] # None THEN gotMeta(f, ents[n])
                       ELSE IF Dropped(ents, n) THEN gone(f) ELSE f
    BY <1>1 DEF gotDirFiles, Found, Removed
  <2>4. ents[n] # None => ents[n] \in Stored
    BY <2>1 DEF Entry
  <2>5. ents[n] # None => gotMeta(f, ents[n]).sts = "del"
    BY <1>1, <2>4, GotMetaFacts
  <2>6. gone(f).sts = "gone"
    BY <1>1, StatusFacts
  <2>7. fs[child[n]].sts \in {"del", "gone"}
    BY <1>1, <2>3, <2>5, <2>6
  <2> HIDE DEF c, fs
  <2>8. file'[child[n]] = fs[child[n]]
    BY <2>1, <2>2, FindLeaves DEF Removed
  <2> QED
    BY <2>7, <2>8
<1> QED
  BY <1>2, <1>3

\* The calls that had found it: they fail, or are of other files.
LEMMA CallLeaves ==
    ASSUME TypeInv, NEW u \in Users,
           Fail(u) \/ Stat(u) \/ Wstat(u) \/ Remove(u) \/ Get(u) \/ Put(u) \/ PutEnd(u) \/ Recv(u),
           NEW n \in Names, Removed(n)
    PROVE  file'[child[n]].sts \in {"del", "gone"}
<1>1. child[n] \in Objs /\ child[n] # None /\ file[child[n]] \in MFile /\ file[child[n]].sts = "del"
  BY TypeFacts DEF Removed
<1>2. ASSUME op[u].pc = "file", NEW g \in MFile, NEW ops, Leave(u, ops, g),
             op[u].f = child[n] => g.sts \in {"del", "gone"}
      PROVE  file'[child[n]].sts \in {"del", "gone"}
  <2>1. file' = Collect([file EXCEPT ![op[u].f] = g], child, op', syn)
    BY <1>2 DEF Leave
  <2>2. file'[child[n]] = IF child[n] = op[u].f THEN g ELSE file[child[n]]
    BY <1>1, <1>2, <2>1, LeftFile
  <2> QED
    BY <1>1, <1>2, <2>2
<1>3. ASSUME op[u].pc = "file", op[u].f = child[n]
      PROVE  Walk(u) = {file[child[n]]} /\ WalkOk(u) = {}
  <2>1. \A f \in Walk(u) : f = file[child[n]]
    BY <1>1, <1>3, WalkFacts
  <2>2. file[child[n]] \in Walk(u)
    BY <1>3 DEF Walk
  <2>3. op[u].made \in BOOLEAN /\ ~op[u].made
    <3>1. op[u] \in OpType
      BY TypeFacts
    <3> QED
      BY <1>3, <3>1 DEF OpType, Removed, Creating
  <2> QED
    BY <1>1, <2>1, <2>2, <2>3 DEF WalkOk, isDel
<1>4. ASSUME op[u].pc = "file", NEW f \in Walk(u) PROVE f \in MFile
  BY <1>4, WalkFacts
<1>5. CASE Fail(u)
  <2>1. op[u].pc = "file"
    BY <1>5 DEF Fail
  <2>2. PICK f \in Walk(u) : Leave(u, Return(u), f)
    BY <1>5 DEF Fail
  <2> QED
    BY <1>1, <1>2, <1>3, <1>4, <2>1, <2>2
<1>6. CASE Stat(u)
  <2>1. op[u].pc = "file" /\ \E f \in WalkOk(u) : Leave(u, Return(u), f)
    BY <1>6 DEF Stat
  <2> QED
    BY <1>2, <1>3, <1>4, <2>1 DEF WalkOk
<1>7. CASE Wstat(u)
  <2>1. op[u].pc = "file"
    BY <1>7 DEF Wstat
  <2>2. PICK f \in WalkOk(u) : Leave(u, Return(u), wstat(f, "mode", 1))
    BY <1>7 DEF Wstat
  <2>3. wstat(f, "mode", 1) \in MFile
    BY <1>4, <2>1, WstatFacts DEF WalkOk
  <2> QED
    BY <1>2, <1>3, <2>1, <2>2, <2>3
<1>8. CASE Remove(u)
  <2>1. op[u].pc = "file"
    BY <1>8 DEF Remove
  <2>2. PICK f \in WalkOk(u) : Leave(u, Return(u), del(f))
    BY <1>8 DEF Remove
  <2>3. del(f) \in MFile
    BY <1>4, <2>1, StatusFacts DEF WalkOk
  <2> QED
    BY <1>2, <1>3, <2>1, <2>2, <2>3
<1>9. CASE Get(u)
  <2>1. op[u].pc = "file"
    BY <1>9 DEF Get
  <2>2. PICK f \in WalkOk(u) :
            \/ Leave(u, Return(u), f)
            \/ CanFetch(u) /\ Leave(u, [Unhold(op[u].f) EXCEPT ![u] = Idle], gotData(f, srv[op[u].n]))
    BY <1>9 DEF Get
  <2>3. f \in MFile /\ (CanFetch(u) => gotData(f, srv[op[u].n]) \in MFile)
    BY <1>4, <2>1, CanFetchFacts DEF WalkOk
  <2>4. op[u].f # child[n]
    BY <1>3, <2>1
  <2> QED
    BY <1>2, <2>1, <2>2, <2>3, <2>4
<1>10. CASE Put(u)
  <2>1. PICK g : PutLeaves(u, g)
    BY <1>10, PutLeft
  <2>2. op[u].f # child[n]
    <3>1. op[u].pc = "file" /\ WalkOk(u) # {}
      BY <1>10 DEF Put
    <3> QED
      BY <1>3, <3>1
  <2> QED
    BY <1>2, <2>1, <2>2 DEF PutLeaves
<1>11. CASE PutEnd(u)
  <2> DEFINE g == putEnd(file[op[u].f], clock + 1)
  <2>1. op[u].pc = "recv" /\ op[u].f \in Objs /\ op[u].f # child[n]
    BY <1>11 DEF TypeInv, OpInv, PutEnd, Removed, Putting
  <2>2. clock + 1 \in Nat
    BY TypeFacts
  <2>3. g \in MFile
    BY <2>1, <2>2, TypeFacts, PutEndFacts
  <2>4. [file EXCEPT ![op[u].f] = putEnd(@, clock + 1)] = [file EXCEPT ![op[u].f] = g]
    BY <2>1, TypeFacts
  <2> HIDE DEF g
  <2>5. file' = Collect([file EXCEPT ![op[u].f] = g], child, op', syn)
    BY <1>11, <2>4 DEF PutEnd
  <2>6. file'[child[n]] = file[child[n]]
    BY <1>1, <2>1, <2>3, <2>5, LeftFile
  <2> QED
    BY <1>1, <2>6
<1>12. CASE Recv(u)
  BY <1>1, <1>12, TypeFacts DEF Recv, MFile
<1> QED
  BY <1>5, <1>6, <1>7, <1>8, <1>9, <1>10, <1>11, <1>12

\* What the syncer does: the file goes away when the server has been told.
LEMMA SyncLeaves ==
    ASSUME TypeInv, NEW x \in Objs, SyncFile(x) \/ SyncFails(x) \/ ReplyLost(x),
           NEW n \in Names, Removed(n)
    PROVE  file'[child[n]].sts \in {"del", "gone"}
<1>1. child[n] \in Objs /\ file[child[n]] \in MFile /\ file[child[n]].sts = "del"
  BY TypeFacts DEF Removed
<1>2. CASE SyncFile(x)
  <2> DEFINE fs == [file EXCEPT ![x] = Synced(file[x], srv[x[1]])]
  <2>1. Synced(file[x], srv[x[1]]) \in MFile /\ file \in [Objs -> MFile]
    BY ObjsFacts, TypeFacts, SyncFacts
  <2>2. fs \in [Objs -> MFile]
    BY <2>1
  <2>3. fs[child[n]].sts \in {"del", "gone"}
    <3>1. ASSUME child[n] = x PROVE Synced(file[x], srv[x[1]]).sts = "gone"
      BY <1>1, <3>1 DEF Synced, MFile
    <3> QED
      BY <1>1, <2>1, <3>1
  <2>4. file' = Collect(fs, child, op, syn')
    BY <1>2 DEF SyncFile
  <2> HIDE DEF fs
  <2>5. Collect(fs, child, op, syn')[child[n]] = fs[child[n]]
    BY <1>1, <2>2, CollectFacts
  <2> QED
    BY <2>3, <2>4, <2>5
<1>3. CASE SyncFails(x) \/ ReplyLost(x)
  <2>1. file' = Collect(file, child, op, syn')
    BY <1>3 DEF SyncFails, ReplyLost, Failed
  <2>2. Collect(file, child, op, syn')[child[n]] = file[child[n]]
    BY <1>1, TypeFacts, CollectFacts
  <2> QED
    BY <1>1, <2>1, <2>2
<1> QED
  BY <1>2, <1>3

\* And the rest of the world.
LEMMA WorldLeaves ==
    ASSUME TypeInv, SyncDir \/ Inval \/ Redial \/ Break \/ \E m \in Names : Other(m),
           NEW n \in Names, Removed(n)
    PROVE  file'[child[n]].sts \in {"del", "gone"}
<1>1. child[n] \in Objs /\ file[child[n]] \in MFile /\ file[child[n]].sts = "del"
  BY TypeFacts DEF Removed
<1>2. CASE Inval
  <2>1. inval(file[child[n]]) = file[child[n]]
    BY <1>1 DEF inval
  <2> QED
    BY <1>1, <1>2, <2>1 DEF Inval
<1>3. CASE SyncDir \/ Redial \/ Break \/ \E m \in Names : Other(m)
  BY <1>1, <1>3 DEF SyncDir, Redial, Break, Other
<1> QED
  BY <1>2, <1>3

\* A call that found a file that is then removed does nothing to it: a removed
\* file goes away, unless a put to it had started, or whoever made it goes on.
THEOREM RemovedAreLeft == Spec => RemovedIsLeft
<1>1. ASSUME TypeInv, [Next]_vars, NEW n \in Names, Removed(n), child'[n] = child[n]
      PROVE  file'[child[n]].sts \in {"del", "gone"}
  <2>1. CASE UNCHANGED vars
    BY <1>1, <2>1 DEF vars, Removed
  <2>2. ASSUME NEW u \in Users, Start(u) PROVE file'[child[n]].sts \in {"del", "gone"}
    <3>1. CASE \E kind \in Kinds, m \in Names : WalkDir(u, kind, m)
      BY <1>1, <3>1, WalkLeaves
    <3>2. CASE (\E kind \in Kinds, m \in Names : GetDir(u, kind, m)) \/ NotCalled(u)
      BY <1>1, <3>2 DEF GetDir, NotCalled, Removed
    <3> QED
      BY <2>2, <3>1, <3>2 DEF Start
  <2>3. ASSUME NEW u \in Users, Step(u) PROVE file'[child[n]].sts \in {"del", "gone"}
    <3>1. CASE NoDir(u)
      BY <1>1, <3>1 DEF NoDir, Removed
    <3> QED
      BY <1>1, <2>3, <3>1, WalkLeaves, CallLeaves DEF Step
  <2>4. ASSUME NEW u \in Users, Recv(u) PROVE file'[child[n]].sts \in {"del", "gone"}
    BY <1>1, <2>4, CallLeaves
  <2>5. CASE Sync \/ \E o \in Objs : ReplyLost(o)
    BY <1>1, <2>5, SyncLeaves DEF Sync
  <2>6. CASE SyncDir \/ Inval \/ Redial \/ Break \/ \E m \in Names : Other(m)
    BY <1>1, <2>6, WorldLeaves
  <2> QED
    BY <1>1, <2>1, <2>2, <2>3, <2>4, <2>5, <2>6 DEF Next
<1>2. TypeInv /\ [Next]_vars =>
        [\A n \in Names :
            LET o == child[n] IN
            (o # None /\ child'[n] = o /\ file[o].sts = "del" /\ ~Putting(o) /\ ~Creating(o)) =>
                file'[o].sts \in {"del", "gone"}]_vars
  BY <1>1 DEF Removed
<1> QED
  BY <1>2, InitTypeInv, TypeInvInductive, PTL DEF Spec, RemovedIsLeft

-----------------------------------------------------------------------------
(* What is stale is noticed.                                               *)

\* An mtime that the server gave, or gives, to a name.
ServerTime(n, t) ==
    \/ srv[n] # None /\ t = srv[n].mt
    \/ \E u \in Users : op[u].pc = "dir" /\ op[u].ents[n] # None /\ t = op[u].ents[n].mt

\* Time only goes on.
Clocked ==
    /\ \A o \in Objs : file[o].mt <= clock
    /\ \A n \in Names, t \in Nat : ServerTime(n, t) => t <= clock

\* A file with an mtime that neither the server nor other files of its name have.
Own(o) ==
    /\ file[o].mt # 0 /\ ~ServerTime(o[1], file[o].mt)
    /\ \A x \in Objs \ {o} : x[1] = o[1] => file[x].mt # file[o].mt

\* A file that sync has yet to send and that was dropped has dirty data only if
\* a put ended or started since then, or if it is being made.
StrayInv(n) ==
    \A o \in syn.todo : o[1] = n /\ child[n] # o =>
        /\ file[o].sts \in {"data", "del", "gone"}
        /\ file[o].sts = "data" => Own(o) \/ Making(o)
StaleInv == TypeInv /\ Clocked /\ \A n \in Names : StrayInv(n)

\* A step after which mtimes are those that the server or the file had, or new.
NewTime(t) == t = clock' /\ clock < clock'
CopiesTimes(n) ==
    /\ \A x \in Objs : x[1] = n =>
            \/ file'[x].mt \in {0, file[x].mt}
            \/ ServerTime(n, file'[x].mt) \/ NewTime(file'[x].mt)
    /\ srv'[n] # None =>
            \/ ServerTime(n, srv'[n].mt) \/ NewTime(srv'[n].mt)
            \/ \E x \in syn.todo \ syn'.todo : x[1] = n /\ srv'[n].mt = file[x].mt
    /\ \A v \in Users : op'[v].pc = "dir" /\ op'[v].ents[n] # None =>
            ServerTime(n, op'[v].ents[n].mt)

\* The file that a put gives a new mtime to.
Timed(o, n) ==
    /\ NewTime(file'[o].mt)
    /\ srv'[n] = srv[n]
    /\ \A x \in Objs \ {o} : ~NewTime(file'[x].mt)

\* A step after which what was dropped, and is to be sent, is as StrayInv says.
StraysKept(n) ==
    \A o \in syn'.todo : o[1] = n /\ child'[n] # o =>
        /\ o \in syn.todo
        /\ \/ file'[o].sts \in {"del", "gone"}
           \/ /\ child[n] # o
              /\ file'[o].sts = file[o].sts /\ file'[o].mt = file[o].mt
              /\ Making(o) => Making(o)'
           \/ file'[o].sts = "data" /\ (Making(o)' \/ Timed(o, n))

\* A step after which what is clean was clean, or has what the server has, or
\* another mtime.
CleanKept(n) ==
    LET o == child'[n] IN
    (o # None /\ file'[o].sts = "clean" /\ ~Putting(child[n])' /\ srv'[n] # None) =>
        \/ srv'[n].data = file'[o].data
        \/ srv'[n].mt # file'[o].mt
        \/ /\ child[n] = o /\ srv'[n] = srv[n]
           /\ file[o].sts = "clean" /\ ~Putting(o)
           /\ file'[o].data = file[o].data /\ file'[o].mt = file[o].mt /\ file'[o].size = file[o].size

StaleKept(n) == CopiesTimes(n) /\ StraysKept(n) /\ CleanKept(n)

\* What the server said is an mtime.
LEMMA ServerTimes ==
    ASSUME TypeInv, NEW n \in Names, NEW t, ServerTime(n, t)
    PROVE  t \in Nat
<1>1. CASE srv[n] # None /\ t = srv[n].mt
  <2>1. srv[n] \in Stored
    BY <1>1, TypeFacts DEF Entry
  <2> QED
    BY <1>1, <2>1 DEF Stored
<1>2. ASSUME NEW u \in Users, op[u].pc = "dir", op[u].ents[n] # None, t = op[u].ents[n].mt
      PROVE  t \in Nat
  <2>1. op[u].ents[n] \in Stored
    BY <1>2 DEF TypeInv, OpInv, Entry
  <2> QED
    BY <1>2, <2>1 DEF Stored
<1> QED
  BY <1>1, <1>2 DEF ServerTime

\* Time goes on.
LEMMA ClockedStep ==
    ASSUME TypeInv, TypeInv', Clocked, clock <= clock', \A n \in Names : CopiesTimes(n)
    PROVE  Clocked'
<1>1. clock \in Nat /\ clock' \in Nat
  BY TypeFacts DEF TypeInv, TypeOK
<1>2. ASSUME NEW n \in Names, NEW t, ServerTime(n, t) \/ NewTime(t) PROVE t \in Nat /\ t <= clock'
  <2>1. CASE ServerTime(n, t)
    BY <1>1, <2>1, ServerTimes DEF Clocked
  <2>2. CASE NewTime(t)
    BY <1>1, <2>2 DEF NewTime
  <2> QED
    BY <1>2, <2>1, <2>2
<1>3. \A x \in Objs : file[x].mt \in Nat /\ file[x].mt <= clock'
  <2>1. \A x \in Objs : file[x].mt \in Nat
    BY TypeFacts DEF MFile
  <2> QED
    BY <1>1, <2>1 DEF Clocked
<1>4. ASSUME NEW o \in Objs PROVE file'[o].mt <= clock'
  <2>1. o[1] \in Names
    BY ObjsFacts
  <2>2. \/ file'[o].mt \in {0, file[o].mt}
        \/ ServerTime(o[1], file'[o].mt) \/ NewTime(file'[o].mt)
    BY <2>1 DEF CopiesTimes
  <2> QED
    BY <1>1, <1>2, <1>3, <2>1, <2>2
<1>5. ASSUME NEW n \in Names, NEW t \in Nat, ServerTime(n, t)' PROVE t <= clock'
  <2>1. CASE srv'[n] # None /\ t = srv'[n].mt
    <3>1. \A x \in syn.todo : x \in Objs
      BY TypeFacts
    <3> QED
      BY <1>2, <1>3, <2>1, <3>1 DEF CopiesTimes
  <2>2. CASE \E u \in Users : op'[u].pc = "dir" /\ op'[u].ents[n] # None /\ t = op'[u].ents[n].mt
    BY <1>2, <2>2 DEF CopiesTimes
  <2> QED
    BY <1>5, <2>1, <2>2 DEF ServerTime
<1> QED
  BY <1>4, <1>5 DEF Clocked

\* What was dropped keeps an mtime of its own, or gets a new one.
LEMMA StrayStep ==
    ASSUME TypeInv, TypeInv', Clocked, NEW n \in Names, StrayInv(n), CopiesTimes(n), StraysKept(n)
    PROVE  StrayInv(n)'
<1> SUFFICES ASSUME NEW o \in syn'.todo, o[1] = n, child'[n] # o
             PROVE  /\ file'[o].sts \in {"data", "del", "gone"}
                    /\ file'[o].sts = "data" => Own(o)' \/ Making(o)'
  BY DEF StrayInv
<1>1. o \in syn.todo /\ o \in Objs /\ clock \in Nat /\ clock' \in Nat
  BY TypeFacts DEF StraysKept, TypeInv, TypeOK
<1>2. \A x \in Objs : file[x].mt \in Nat /\ file[x].mt <= clock /\ file'[x].mt \in Nat
  BY TypeFacts DEF MFile, Clocked, TypeInv, TypeOK
<1>3. \A t : ServerTime(n, t) => t \in Nat /\ t <= clock
  BY ServerTimes DEF Clocked
<1>4. CASE file'[o].sts \in {"del", "gone"}
  BY <1>4
<1>5. CASE /\ child[n] # o
           /\ file'[o].sts = file[o].sts /\ file'[o].mt = file[o].mt
           /\ Making(o) => Making(o)'
  <2>1. file[o].sts \in {"data", "del", "gone"} /\ (file[o].sts = "data" => Own(o) \/ Making(o))
    BY <1>1, <1>5 DEF StrayInv
  <2>2. ASSUME Own(o) PROVE Own(o)'
    <3> DEFINE t == file[o].mt
    <3>1. t # 0 /\ t <= clock /\ t \in Nat /\ ~ServerTime(n, t) /\ \A x \in Objs \ {o} : x[1] = n => file[x].mt # t
      BY <1>1, <1>2, <2>2 DEF Own
    <3>2. ~NewTime(t)
      BY <1>1, <3>1 DEF NewTime
    <3> HIDE DEF t
    <3>3. \A x \in Objs \ {o} : x[1] = n => file'[x].mt # t
      BY <3>1, <3>2 DEF CopiesTimes
    <3>4. ASSUME srv'[n] # None PROVE srv'[n].mt # t
      <4>1. \A x \in syn.todo \ syn'.todo : x \in Objs \ {o}
        BY TypeFacts
      <4> QED
        BY <3>1, <3>2, <3>4, <4>1 DEF CopiesTimes
    <3>5. \A v \in Users : op'[v].pc = "dir" /\ op'[v].ents[n] # None => op'[v].ents[n].mt # t
      BY <3>1 DEF CopiesTimes
    <3>7. file'[o].mt = t
      BY <1>5 DEF t
    <3>8. ~ServerTime(n, file[o].mt)'
      BY <3>4, <3>5, <3>7 DEF ServerTime
    <3> QED
      BY <3>1, <3>3, <3>7, <3>8 DEF Own
  <2> QED
    BY <1>5, <2>1, <2>2
<1>6. CASE file'[o].sts = "data" /\ Timed(o, n)
  <2>1. file'[o].mt = clock' /\ clock < clock'
    BY <1>6 DEF Timed, NewTime
  <2>2. \A x \in Objs \ {o} : x[1] = n => file'[x].mt # clock'
    BY <1>1, <2>1, <1>6 DEF Timed, NewTime
  <2>3. \A t : ServerTime(n, t) => t # clock'
    BY <1>1, <1>3, <2>1
  <2>4. srv'[n] # None => srv'[n].mt # clock'
    BY <1>6, <2>3 DEF Timed, ServerTime
  <2>5. \A v \in Users : op'[v].pc = "dir" /\ op'[v].ents[n] # None => op'[v].ents[n].mt # clock'
    BY <2>3 DEF CopiesTimes
  <2>6. ~ServerTime(n, file[o].mt)'
    BY <2>1, <2>4, <2>5 DEF ServerTime
  <2> QED
    BY <1>1, <1>6, <2>1, <2>2, <2>6 DEF Own
<1> QED
  BY <1>4, <1>5, <1>6 DEF StraysKept

\* The mtime and size of a file that gets metadata: what stays clean keeps both.
LEMMA GotMetaTimes ==
    ASSUME NEW f \in MFile, NEW d \in Stored
    PROVE  /\ gotMeta(f, d).mt \in {f.mt, d.mt}
           /\ gotMeta(f, d).sts = "clean" => gotMeta(f, d).mt = f.mt /\ gotMeta(f, d).size = f.size
<1> DEFINE g == IF f.sts = "gone" THEN [f EXCEPT !.sts = "new"] ELSE f
           changed == g.mt # d.mt \/ g.size # Len(d.data)
           h == IF g.sts # "data" /\ changed THEN inval(g) ELSE g
           r == [h EXCEPT !.size = Len(d.data),
                          !.mt = IF "mtime" \in f.wd THEN @ ELSE d.mt,
                          !.mode = IF "mode" \in f.wd THEN @ ELSE d.mode]
<1>1. gotMeta(f, d) = r
  BY DEF gotMeta
<1>2. g \in MFile /\ g.mt = f.mt /\ g.size = f.size
  BY DEF MFile, Status
<1> HIDE DEF g
<1>3. inval(g).mt = g.mt
  BY <1>2 DEF inval, MFile
<1>4. h \in MFile /\ h.mt = f.mt /\ (h.sts = "clean" => ~changed)
  BY <1>2, <1>3, StatusFacts
<1>5. changed = (f.mt # d.mt \/ f.size # Len(d.data))
  BY <1>2
<1> HIDE DEF h, changed
<1>6. r.mt = (IF "mtime" \in f.wd THEN f.mt ELSE d.mt) /\ r.size = Len(d.data) /\ r.sts = h.sts
  BY <1>4 DEF MFile
<1> QED
  BY <1>1, <1>4, <1>5, <1>6

\* What a call finds when it walks its file.
LEMMA WalkTimes ==
    ASSUME TypeInv, NEW u \in Users, op[u].pc = "file", NEW f \in Walk(u)
    PROVE  /\ f.mt = file[op[u].f].mt \/ ServerTime(op[u].n, f.mt)
           /\ f.sts = "clean" => f.mt = file[op[u].f].mt /\ f.size = file[op[u].f].size
<1> DEFINE n == op[u].n
           g == file[op[u].f]
<1>1. n \in Names /\ op[u].f \in Objs /\ g \in MFile /\ srv[n] \in Entry
  BY TypeFacts DEF TypeInv, OpInv
<1>2. f = g \/ f = getMeta(g, srv[n])
  BY DEF Walk
<1>3. CASE f = g
  BY <1>3
<1>4. CASE f = getMeta(g, srv[n])
  <2>1. CASE srv[n] = None
    <3>1. f = gone(g)
      BY <1>4, <2>1 DEF getMeta
    <3>2. f.mt = g.mt /\ f.sts = "gone"
      BY <1>1, <3>1 DEF gone, MFile
    <3> QED
      BY <1>4, <3>2
  <2>2. CASE srv[n] # None
    <3>1. srv[n] \in Stored /\ f = gotMeta(g, srv[n])
      BY <1>1, <1>4, <2>2 DEF getMeta, Entry
    <3>2. f.mt \in {g.mt, srv[n].mt} /\ (f.sts = "clean" => f.mt = g.mt /\ f.size = g.size)
      BY <1>1, <3>1, GotMetaTimes
    <3> QED
      BY <1>4, <2>2, <3>2 DEF ServerTime
  <2> QED
    BY <2>1, <2>2
<1> QED
  BY <1>2, <1>3, <1>4

\* Removing a file and getting its data leave its mtime, and the end of a put
\* sets it.
LEMMA UserTimes ==
    ASSUME NEW f \in MFile, NEW now \in Nat
    PROVE  /\ del(f).mt = f.mt
           /\ \A d \in Stored : gotData(f, d).mt = f.mt
           /\ putEnd(f, now).mt = now
<1>1. del(f).mt = f.mt /\ \A d \in Stored : gotData(f, d).mt = f.mt
  BY DEF del, gotData, MFile
<1>2. putEnd(f, now).mt = now
  BY DEF putEnd, dirtyData, MFile
<1> QED
  BY <1>1, <1>2

\* What a call leaves in its file, and how it goes on.
LeavesTimes(u, g, x) ==
    LET f == file[op[u].f] IN
    /\ g.mt = f.mt \/ ServerTime(op[u].n, g.mt) \/ NewTime(g.mt)
    /\ g.sts = "clean" =>
        \/ /\ f.sts = "clean" /\ op[u].pc = "file"
           /\ g.data = f.data /\ g.mt = f.mt /\ g.size = f.size
        \/ srv[op[u].n] # None /\ g.data = srv[op[u].n].data
    /\ f.sts \in {"data", "del", "gone"} =>
        \/ g.sts \in {"del", "gone"}
        \/ op[u].pc = "file" /\ g.sts = f.sts /\ g.mt = f.mt
        \/ g.sts = "data" /\ (NewTime(g.mt) \/ (x.pc = "recv" /\ x.made /\ x.f = op[u].f))

\* A call that leaves its file so is as the invariant says.
LEMMA CallTimes ==
    ASSUME TypeInv, Clocked, NEW u \in Users, op[u].pc \in {"file", "recv"}, NEW g \in MFile,
           NEW x \in OpType, LeavesTimes(u, g, x), OpStep(u, x), x.pc # "dir",
           UNCHANGED <<srv, child, syn>>,
           file' = Collect([file EXCEPT ![op[u].f] = g], child, op', syn'),
           NEW n \in Names, StrayInv(n)
    PROVE  StaleKept(n)
<1> DEFINE p == op[u].f
           fs == [file EXCEPT ![p] = g]
<1>1. p \in Objs /\ p[1] = op[u].n /\ op[u].n \in Names
  BY DEF TypeInv, OpInv
<1>2. \A v \in Users \ {u} :
        /\ op'[v].pc = op[v].pc /\ op'[v].f = op[v].f /\ op'[v].ents = op[v].ents
        /\ op'[v].made = op[v].made
  <2>1. \A v \in Users : op[v] \in OpType
    BY TypeFacts
  <2> QED
    BY <2>1 DEF OpStep, OpType
<1>3. op'[u] = x
  BY DEF OpStep
<1>4. fs \in [Objs -> MFile] /\ fs[p] = g /\ \A o \in Objs \ {p} : fs[o] = file[o]
  BY <1>1, TypeFacts
<1>5. file' = Collect(fs, child, op', syn')
  OBVIOUS
<1> HIDE DEF fs
<1>6. \A o \in Objs : file'[o].mt \in {fs[o].mt, 0}
  <2>1. Unused.mt = 0
    BY DEF Unused
  <2> QED
    BY <1>4, <1>5, <2>1, CollectFacts
<1>7. \A o \in syn.todo : o \in Objs /\ file'[o] = fs[o]
  <2>1. syn' = syn /\ syn.todo \subseteq Objs
    BY TypeFacts
  <2> QED
    BY <1>4, <1>5, <2>1, CollectFacts
<1>8. child[n] # None => child[n] \in Objs /\ file'[child[n]] = fs[child[n]]
  <2>1. child[n] \in Objs \cup {None}
    BY TypeFacts
  <2> QED
    BY <1>4, <1>5, <2>1, CollectFacts
<1>9. CopiesTimes(n)
  <2>1. ASSUME NEW o \in Objs, o[1] = n
        PROVE  file'[o].mt \in {0, file[o].mt} \/ ServerTime(n, file'[o].mt) \/ NewTime(file'[o].mt)
    BY <1>1, <1>4, <1>6, <2>1 DEF LeavesTimes
  <2>2. srv'[n] # None => ServerTime(n, srv'[n].mt)
    BY DEF ServerTime
  <2>3. \A v \in Users : op'[v].pc = "dir" /\ op'[v].ents[n] # None => ServerTime(n, op'[v].ents[n].mt)
    BY <1>2, <1>3 DEF ServerTime
  <2> QED
    BY <2>1, <2>2, <2>3 DEF CopiesTimes
<1>10. StraysKept(n)
  <2> SUFFICES ASSUME NEW o \in syn.todo, o[1] = n, child[n] # o
               PROVE  \/ file'[o].sts \in {"del", "gone"}
                      \/ /\ file'[o].sts = file[o].sts /\ file'[o].mt = file[o].mt
                         /\ Making(o) => Making(o)'
                      \/ file'[o].sts = "data" /\ (Making(o)' \/ Timed(o, n))
    BY DEF StraysKept
  <2>1. o \in Objs /\ file'[o] = fs[o] /\ file[o].sts \in {"data", "del", "gone"}
    BY <1>7 DEF StrayInv
  <2>2. CASE o # p
    <3>1. Making(o) => Making(o)'
      BY <1>2, <2>2 DEF Making
    <3> QED
      BY <1>4, <2>1, <2>2, <3>1
  <2>3. CASE o = p
    <3>1. op[u].pc = "file" => (Making(o) => Making(o)')
      BY <1>2, <2>3 DEF Making
    <3>2. x.pc = "recv" /\ x.made /\ x.f = p => Making(o)'
      BY <1>3, <2>3 DEF Making
    <3>3. ASSUME NewTime(g.mt) PROVE Timed(o, n)
      <4>1. \A y \in Objs \ {o} : file'[y].mt \in {file[y].mt, 0}
        BY <1>4, <1>6, <2>3
      <4>2. clock \in Nat /\ \A y \in Objs : file[y].mt \in Nat /\ file[y].mt <= clock
        BY TypeFacts DEF MFile, Clocked
      <4>3. clock' \in Nat /\ clock' > clock
        <5>1. g.mt \in Nat
          BY DEF MFile
        <5> QED
          BY <3>3, <4>2, <5>1 DEF NewTime
      <4>4. ASSUME NEW y \in Objs \ {o} PROVE file'[y].mt # clock'
        <5>1. file'[y].mt \in {file[y].mt, 0} /\ file[y].mt \in Nat /\ file[y].mt <= clock
          BY <4>1, <4>2
        <5> QED
          BY <4>2, <4>3, <5>1
      <4> QED
        BY <1>4, <2>1, <2>3, <3>3, <4>4 DEF Timed, NewTime
    <3> QED
      BY <1>4, <2>1, <2>3, <3>1, <3>2, <3>3 DEF LeavesTimes
  <2> QED
    BY <2>2, <2>3
<1>11. CleanKept(n)
  <2> SUFFICES ASSUME child[n] # None, file'[child[n]].sts = "clean", ~Putting(child[n])', srv[n] # None
               PROVE  \/ srv[n].data = file'[child[n]].data
                      \/ /\ file[child[n]].sts = "clean" /\ ~Putting(child[n])
                         /\ file'[child[n]].data = file[child[n]].data
                         /\ file'[child[n]].mt = file[child[n]].mt
                         /\ file'[child[n]].size = file[child[n]].size
    BY DEF CleanKept
  <2>1. child[n] \in Objs /\ child[n][1] = n /\ file'[child[n]] = fs[child[n]]
    BY <1>8, TypeFacts
  <2>2. \A v \in Users : ~(op'[v].pc = "recv" /\ op'[v].f = child[n])
    BY DEF Putting
  <2>3. \A v \in Users \ {u} : ~(op[v].pc = "recv" /\ op[v].f = child[n])
    BY <1>2, <2>2
  <2>4. CASE child[n] # p
    BY <1>4, <2>1, <2>3, <2>4 DEF Putting
  <2>5. CASE child[n] = p
    <3>1. op[u].pc = "file" => ~Putting(child[n])
      BY <2>3 DEF Putting
    <3> QED
      BY <1>1, <1>4, <2>1, <2>5, <3>1 DEF LeavesTimes
  <2> QED
    BY <2>4, <2>5
<1> QED
  BY <1>9, <1>10, <1>11 DEF StaleKept

\* The calls that leave their file with at most its metadata changed.
LEMMA WalkedTimes ==
    ASSUME TypeInv, Clocked, NEW u \in Users, Fail(u) \/ Stat(u) \/ Wstat(u) \/ Remove(u) \/ Get(u),
           NEW n \in Names, StrayInv(n)
    PROVE  StaleKept(n)
<1>1. op[u].pc = "file" /\ UNCHANGED clock
  BY DEF Fail, Stat, Wstat, Remove, Get
<1>2. op[u].n \in Names /\ op[u].f \in Objs /\ file[op[u].f] \in MFile
  BY <1>1, TypeFacts DEF TypeInv, OpInv
<1>3. ASSUME NEW f \in Walk(u)
      PROVE  /\ f \in MFile /\ LeavesTimes(u, f, Idle)
             /\ file[op[u].f].sts \notin {"new", "clean"} => f = file[op[u].f]
  <2>1. /\ f \in MFile
        /\ f.sts = "clean" => file[op[u].f].sts = "clean" /\ f.data = file[op[u].f].data
        /\ file[op[u].f].sts \notin {"new", "clean"} => f = file[op[u].f]
    BY <1>1, WalkFacts
  <2>2. /\ f.mt = file[op[u].f].mt \/ ServerTime(op[u].n, f.mt)
        /\ f.sts = "clean" => f.mt = file[op[u].f].mt /\ f.size = file[op[u].f].size
    BY <1>1, WalkTimes
  <2> QED
    BY <1>1, <2>1, <2>2 DEF LeavesTimes
<1>4. ASSUME NEW f \in MFile, LeavesTimes(u, f, Idle), Leave(u, Return(u), f)
      PROVE  StaleKept(n)
  <2>1. OpStep(u, Idle)
    BY <1>4, ReturnStep DEF Leave
  <2>2. UNCHANGED <<srv, child, syn>> /\ file' = Collect([file EXCEPT ![op[u].f] = f], child, op', syn')
    BY <1>4 DEF Leave
  <2> QED
    BY <1>1, <1>4, <2>1, <2>2, IdleType, CallTimes
<1>5. CASE Fail(u) \/ Stat(u)
  BY <1>3, <1>4, <1>5 DEF Fail, Stat, WalkOk
<1>6. CASE Wstat(u)
  <2>1. PICK f \in Walk(u) : Leave(u, Return(u), wstat(f, "mode", 1))
    BY <1>6 DEF Wstat, WalkOk
  <2>2. f \in MFile /\ LeavesTimes(u, f, Idle)
    BY <1>3
  <2> DEFINE w == wstat(f, "mode", 1)
  <2>3. /\ w \in MFile /\ w.mt = f.mt
        /\ w = f \/ w.sts # "clean"
        /\ f.sts \in {"data", "del", "gone"} => w.sts = f.sts
        /\ w.sts \in {"del", "gone"} => f.sts = w.sts
    BY <2>2, WstatFacts, UserTimes
  <2> HIDE DEF w
  <2>4. LeavesTimes(u, w, Idle)
    <3>1. Idle.pc # "recv"
      BY IdleType
    <3>2. ASSUME file[op[u].f].sts \in {"data", "del", "gone"}
          PROVE  w.sts = file[op[u].f].sts /\ w.mt = file[op[u].f].mt
      BY <1>3, <2>3, <3>2
    <3> QED
      BY <1>1, <2>2, <2>3, <3>2 DEF LeavesTimes
  <2>5. Leave(u, Return(u), w)
    BY <2>1 DEF w
  <2> QED
    BY <1>4, <2>3, <2>4, <2>5
<1>7. CASE Remove(u)
  <2>1. PICK f \in Walk(u) : Leave(u, Return(u), del(f))
    BY <1>7 DEF Remove, WalkOk
  <2>2. f \in MFile /\ LeavesTimes(u, f, Idle)
    BY <1>3
  <2>3. del(f) \in MFile /\ del(f).sts = "del" /\ del(f).mt = f.mt
    BY <2>2, StatusFacts, UserTimes
  <2>4. LeavesTimes(u, del(f), Idle)
    BY <2>2, <2>3 DEF LeavesTimes
  <2> QED
    BY <1>4, <2>1, <2>3, <2>4
<1>8. CASE Get(u)
  <2>1. PICK f \in Walk(u) :
            \/ Leave(u, Return(u), f)
            \/ /\ ~dataOk(f) /\ CanFetch(u)
               /\ Leave(u, [Unhold(op[u].f) EXCEPT ![u] = Idle], gotData(f, srv[op[u].n]))
    BY <1>8 DEF Get, WalkOk
  <2>2. f \in MFile /\ LeavesTimes(u, f, Idle)
    BY <1>3
  <2>3. CASE Leave(u, Return(u), f)
    BY <1>4, <2>2, <2>3
  <2>4. CASE /\ ~dataOk(f) /\ CanFetch(u)
             /\ Leave(u, [Unhold(op[u].f) EXCEPT ![u] = Idle], gotData(f, srv[op[u].n]))
    <3> DEFINE g == gotData(f, srv[op[u].n])
    <3>1. srv[op[u].n] \in Stored /\ g \in MFile /\ g.data = srv[op[u].n].data /\ g.sts \in {"clean", "meta"}
      BY <1>1, <2>2, <2>4, CanFetchFacts, GotDataFacts
    <3>2. srv[op[u].n] # None
      BY <2>4 DEF CanFetch
    <3>3. file[op[u].f].sts \notin {"data", "del", "gone"}
      BY <1>3, <2>2, <2>4 DEF dataOk
    <3>4. g.mt = f.mt
      BY <2>2, <3>1, UserTimes
    <3> HIDE DEF g
    <3>5. LeavesTimes(u, g, Idle)
      BY <2>2, <3>1, <3>2, <3>3, <3>4 DEF LeavesTimes
    <3>6. op' = [Unhold(op[u].f) EXCEPT ![u] = Idle] /\ UNCHANGED <<srv, child, syn>>
          /\ file' = Collect([file EXCEPT ![op[u].f] = g], child, op', syn')
      BY <2>4 DEF Leave, g
    <3>7. OpStep(u, Idle)
      BY <3>6, UnholdFacts, IdleType
    <3> QED
      BY <1>1, <3>1, <3>5, <3>6, <3>7, IdleType, CallTimes
  <2> QED
    BY <2>1, <2>3, <2>4
<1> QED
  BY <1>5, <1>6, <1>7, <1>8

\* A put, when it starts and when it ends.
LEMMA PutTimes ==
    ASSUME TypeInv, Clocked, NEW u \in Users, Put(u) \/ PutEnd(u), NEW n \in Names, StrayInv(n)
    PROVE  StaleKept(n)
<1>1. clock \in Nat /\ clock' = clock + 1
  BY TypeFacts DEF Put, PutEnd
<1>2. NewTime(clock')
  BY <1>1 DEF NewTime
<1>3. CASE Put(u)
  <2>1. PICK g : PutLeaves(u, g)
    BY <1>3, PutLeft
  <2> DEFINE x == [op[u] EXCEPT !.pc = "recv", !.held = TRUE]
  <2>2. /\ g \in MFile /\ g.sts = "data" /\ op[u].pc = "file" /\ x \in OpType /\ OpStep(u, x)
        /\ g.mt = clock' \/ (op[u].made /\ g.mt = file[op[u].f].mt)
    BY <2>1 DEF PutLeaves
  <2>3. x.pc = "recv" /\ x.made = op[u].made /\ x.f = op[u].f
    BY TypeFacts DEF OpType
  <2> HIDE DEF x
  <2>4. LeavesTimes(u, g, x)
    BY <1>2, <2>2, <2>3 DEF LeavesTimes
  <2>5. UNCHANGED <<srv, child, syn>> /\ file' = Collect([file EXCEPT ![op[u].f] = g], child, op', syn')
    BY <2>1 DEF PutLeaves, Leave
  <2> QED
    BY <2>2, <2>3, <2>4, <2>5, CallTimes
<1>4. CASE PutEnd(u)
  <2> DEFINE g == putEnd(file[op[u].f], clock + 1)
  <2>1. op[u].pc = "recv" /\ op[u].f \in Objs /\ op' = Return(u)
    BY <1>4 DEF TypeInv, OpInv, PutEnd
  <2>2. clock + 1 \in Nat /\ file[op[u].f] \in MFile
    BY <1>1, <2>1, TypeFacts
  <2>3. g \in MFile /\ g.sts = "data" /\ g.mt = clock'
    BY <1>1, <2>2, PutEndFacts, UserTimes
  <2>4. [file EXCEPT ![op[u].f] = putEnd(@, clock + 1)] = [file EXCEPT ![op[u].f] = g]
    BY <2>1, TypeFacts
  <2> HIDE DEF g
  <2>5. UNCHANGED <<srv, child, syn>> /\ file' = Collect([file EXCEPT ![op[u].f] = g], child, op', syn')
    BY <1>4, <2>4 DEF PutEnd
  <2>6. LeavesTimes(u, g, Idle)
    BY <1>2, <2>3 DEF LeavesTimes
  <2>7. OpStep(u, Idle)
    BY <2>1, ReturnStep
  <2> QED
    BY <2>1, <2>3, <2>5, <2>6, <2>7, IdleType, CallTimes
<1> QED
  BY <1>3, <1>4

\* A message, which changes only what is in a buffer.
LEMMA RecvTimes ==
    ASSUME TypeInv, NEW u \in Users, Recv(u), NEW n \in Names
    PROVE  StaleKept(n)
<1>1. op[u].pc = "recv" /\ op[u].f \in Objs /\ op[u] \in OpType /\ UNCHANGED <<srv, child, syn>>
  BY TypeFacts DEF TypeInv, OpInv, Recv
<1>2. \A v \in Users : /\ op'[v].pc = op[v].pc /\ op'[v].f = op[v].f /\ op'[v].ents = op[v].ents
                       /\ op'[v].made = op[v].made
  BY <1>1, TypeFacts DEF Recv, OpType
<1>3. \A o \in Objs : file'[o].sts = file[o].sts /\ file'[o].mt = file[o].mt
  BY TypeFacts DEF Recv, MFile
<1>4. \A o \in Objs : o # op[u].f => file'[o] = file[o]
  BY TypeFacts DEF Recv
<1>5. CopiesTimes(n)
  BY <1>1, <1>2, <1>3 DEF CopiesTimes, ServerTime
<1>6. StraysKept(n)
  <2>1. \A o : Making(o) => Making(o)'
    BY <1>2 DEF Making
  <2> QED
    BY <1>1, <1>3, <2>1, TypeFacts DEF StraysKept
<1>7. CleanKept(n)
  <2>1. ~Putting(child[n])' => ~Putting(child[n]) /\ child[n] # op[u].f
    BY <1>1, <1>2 DEF Putting
  <2>2. child[n] # None => child[n] \in Objs
    BY TypeFacts
  <2> QED
    BY <1>1, <1>4, <2>1, <2>2 DEF CleanKept
<1> QED
  BY <1>5, <1>6, <1>7 DEF StaleKept

\* What a walk makes of the children c and the files fs of its directory: it
\* keeps them, but for files that it makes and those that were removed.
Walks(c, fs) ==
    /\ clock <= clock'
    /\ \A o \in Objs : file'[o].mt \in {0, fs[o].mt} \/ NewTime(file'[o].mt)
    /\ \A o \in syn.todo : file'[o] = fs[o]
    /\ \A n \in Names : child'[n] = c[n] \/ c[n] = None \/ isDel(fs[c[n]])
    /\ \A n \in Names : child'[n] # None =>
        \/ child'[n] = c[n] /\ file'[child'[n]] = fs[c[n]]
        \/ file'[child'[n]].sts = "data"

LEMMA FindTimes ==
    ASSUME TypeInv, NEW u \in Users, NEW kind \in Kinds, NEW m \in Names,
           NEW c \in [Names -> Objs \cup {None}], NEW fs \in [Objs -> MFile],
           Find(u, kind, m, c, fs), syn' = syn
    PROVE  Walks(c, fs)
<1>1. clock \in Nat /\ syn.todo \subseteq Objs /\ Unused.mt = 0
  BY TypeFacts DEF Unused
<1>2. CASE walk1(u, kind, m, c, fs)
  <2>1. child' = Forget(m, c, fs) /\ clock' = clock /\ file' = Collect(fs, child', op', syn')
    BY <1>2 DEF walk1
  <2>2. /\ \A o \in Objs : file'[o].mt \in {0, fs[o].mt}
        /\ \A o \in syn.todo : file'[o] = fs[o]
        /\ \A n \in Names : child'[n] \in Objs => file'[child'[n]] = fs[child'[n]]
    BY <1>1, <2>1, CollectFacts
  <2>3. \A n \in Names : child'[n] = c[n] \/ (child'[n] = None /\ isDel(fs[c[n]]))
    BY <2>1 DEF Forget, isDel
  <2>4. \A n \in Names : child'[n] # None => child'[n] = c[n] /\ file'[child'[n]] = fs[c[n]]
    BY <2>2, <2>3
  <2> QED
    BY <1>1, <2>1, <2>2, <2>3, <2>4 DEF Walks
<1>3. CASE newFile(u, m, c, fs) /\ Missing(m, c, fs)
  <2> DEFINE new == NewFile("data", clock + 1, 0, 0)
             gs == [fs EXCEPT ![New(m)] = new]
  <2>1. /\ Fresh(m) # {} /\ child' = [c EXCEPT ![m] = New(m)] /\ clock' = clock + 1
        /\ file' = Collect(gs, child', op', syn')
    BY <1>3 DEF newFile
  <2>2. New(m) \in Objs /\ New(m) \notin syn.todo
    BY <2>1, NewFacts
  <2>3. new \in MFile /\ new.sts = "data" /\ new.mt = clock'
    BY <1>1, <2>1 DEF NewFile, MFile, Status, Contents
  <2> HIDE DEF new
  <2>4. gs \in [Objs -> MFile] /\ gs[New(m)] = new /\ \A o \in Objs : o # New(m) => gs[o] = fs[o]
    BY <2>2, <2>3
  <2> HIDE DEF gs
  <2>5. /\ \A o \in Objs : file'[o].mt \in {0, gs[o].mt}
        /\ \A o \in syn.todo : file'[o] = gs[o]
        /\ \A n \in Names : child'[n] \in Objs => file'[child'[n]] = gs[child'[n]]
    <3>1. file' = Collect(gs, child', op', syn') /\ gs \in [Objs -> MFile] /\ syn'.todo = syn.todo
      BY <2>1, <2>4
    <3> HIDE <2>1, <2>4
    <3> QED
      BY <1>1, <3>1, CollectFacts
  <2>6. NewTime(new.mt)
    BY <1>1, <2>1, <2>3 DEF NewTime
  <2>7. \A o \in Objs : file'[o].mt \in {0, fs[o].mt} \/ NewTime(file'[o].mt)
    BY <2>3, <2>4, <2>5, <2>6, <1>1, <2>1 DEF NewTime
  <2>8. \A o \in syn.todo : file'[o] = fs[o]
    BY <1>1, <2>2, <2>4, <2>5
  <2>9. \A n \in Names : child'[n] = c[n] \/ c[n] = None \/ isDel(fs[c[n]])
    BY <1>3, <2>1 DEF Missing
  <2>10. ASSUME NEW n \in Names, child'[n] # None
         PROVE  \/ child'[n] = c[n] /\ file'[child'[n]] = fs[c[n]]
                \/ file'[child'[n]].sts = "data"
    <3>1. CASE child'[n] = New(m)
      BY <2>2, <2>3, <2>4, <2>5, <3>1
    <3>2. CASE child'[n] # New(m)
      BY <2>1, <2>4, <2>5, <2>10, <3>2
    <3> QED
      BY <3>1, <3>2
  <2>11. clock <= clock'
    BY <1>1, <2>1
  <2> QED
    BY <2>7, <2>8, <2>9, <2>10, <2>11 DEF Walks
<1>4. walk1(u, kind, m, c, fs) \/ (newFile(u, m, c, fs) /\ Missing(m, c, fs))
  BY DEF Find
<1> QED
  BY <1>2, <1>3, <1>4

\* With c and fs as children and files: they have mtimes that they, or the
\* server, had; what was dropped had no data; what is clean was.
Entered(n, c, fs) ==
    /\ \A o \in Objs : o[1] = n => fs[o].mt = file[o].mt \/ ServerTime(n, fs[o].mt)
    /\ \A o \in syn.todo : o[1] = n /\ c[n] # o =>
            fs[o].sts = "gone" \/ (child[n] # o /\ fs[o] = file[o])
    /\ c[n] # None /\ fs[c[n]].sts = "clean" =>
            LET f == file[c[n]] IN
            /\ c[n] = child[n] /\ f.sts = "clean"
            /\ fs[c[n]].data = f.data /\ fs[c[n]].mt = f.mt /\ fs[c[n]].size = f.size

\* The entries that the server sent.
LEMMA GotDirTimes ==
    ASSUME TypeInv, NEW u \in Users, op[u].pc = "dir",
           \A m \in Names : Found(op[u].ents, m) => Fresh(m) # {},
           NEW n \in Names
    PROVE  Entered(n, gotDir(op[u].ents), gotDirFiles(op[u].ents))
<1> DEFINE ents == op[u].ents
           c == gotDir(ents)
           fs == gotDirFiles(ents)
<1>1. ents \in [Names -> Entry] /\ (ents[n] # None => ents[n] \in Stored /\ ServerTime(n, ents[n].mt))
  BY DEF TypeInv, OpInv, Entry, ServerTime
<1>2. /\ c[n] = IF Dropped(ents, n) THEN None ELSE IF Found(ents, n) THEN New(n) ELSE child[n]
      /\ child[n] # None => child[n] \in Objs /\ child[n][1] = n
  BY TypeFacts DEF gotDir
<1>3. Found(ents, n) => New(n) \in Objs /\ New(n)[1] = n /\ New(n) \notin syn.todo /\ New(n) # None
  BY NewFacts, NoneFacts
<1>4. \A o \in Objs : o[1] = n =>
        fs[o] = IF Found(ents, n) /\ o = New(n)
                THEN NewFile("new", ents[n].mt, Len(ents[n].data), ents[n].mode)
                ELSE IF o # child[n] THEN file[o]
                ELSE IF ents[n] # None THEN gotMeta(file[o], ents[n])
                ELSE IF Dropped(ents, n) THEN gone(file[o]) ELSE file[o]
  BY DEF gotDirFiles
<1>5. NewFile("new", ents[n].mt, Len(ents[n].data), ents[n].mode).mt = ents[n].mt
      /\ NewFile("new", ents[n].mt, Len(ents[n].data), ents[n].mode).sts = "new"
  BY DEF NewFile
<1>6. \A f \in MFile : gone(f).sts = "gone" /\ gone(f).mt = f.mt
  BY StatusFacts DEF gone, MFile
<1>7. \A f \in MFile : ents[n] # None =>
        /\ gotMeta(f, ents[n]).mt \in {f.mt, ents[n].mt}
        /\ gotMeta(f, ents[n]).sts = "clean" =>
            /\ f.sts = "clean" /\ gotMeta(f, ents[n]).data = f.data
            /\ gotMeta(f, ents[n]).mt = f.mt /\ gotMeta(f, ents[n]).size = f.size
  BY <1>1, GotMetaFacts, GotMetaTimes
<1>8. syn.todo \subseteq Objs /\ \A o \in Objs : file[o] \in MFile
  BY TypeFacts
<1>9. ASSUME NEW o \in Objs, o[1] = n PROVE fs[o].mt = file[o].mt \/ ServerTime(n, fs[o].mt)
  <2>1. file[o] \in MFile
    BY <1>8
  <2> HIDE DEF fs, ents
  <2> QED
    BY <1>1, <1>4, <1>5, <1>6, <1>7, <1>9, <2>1 DEF Found
<1>10. ASSUME NEW o \in syn.todo, o[1] = n, c[n] # o
       PROVE  fs[o].sts = "gone" \/ (child[n] # o /\ fs[o] = file[o])
  <2>1. o \in Objs /\ file[o] \in MFile
    BY <1>8
  <2> HIDE DEF fs, c, ents
  <2>2. CASE child[n] # o
    BY <1>3, <1>4, <1>10, <2>1, <2>2
  <2>3. CASE child[n] = o
    <3>1. o # None
      BY <2>1, NoneFacts
    <3>2. Dropped(ents, n)
      BY <1>2, <1>10, <2>3, <3>1 DEF Found
    <3> QED
      BY <1>4, <1>6, <1>10, <2>1, <2>3, <3>1, <3>2 DEF Found, Dropped
  <2> QED
    BY <2>2, <2>3
<1>11. ASSUME c[n] # None, fs[c[n]].sts = "clean"
       PROVE  /\ c[n] = child[n] /\ file[c[n]].sts = "clean"
              /\ fs[c[n]].data = file[c[n]].data
              /\ fs[c[n]].mt = file[c[n]].mt /\ fs[c[n]].size = file[c[n]].size
  <2> HIDE DEF fs, c, ents
  <2>1. CASE Found(ents, n)
    BY <1>2, <1>3, <1>4, <1>5, <1>11, <2>1
  <2>2. CASE ~Found(ents, n)
    <3>1. c[n] = child[n] /\ child[n] \in Objs /\ child[n][1] = n /\ file[child[n]] \in MFile
          /\ ~Dropped(ents, n)
      BY <1>2, <1>8, <1>11, <2>2
    <3>2. fs[c[n]] = IF ents[n] # None THEN gotMeta(file[c[n]], ents[n]) ELSE file[c[n]]
      BY <1>4, <2>2, <3>1
    <3> QED
      BY <1>7, <1>11, <3>1, <3>2
  <2> QED
    BY <2>1, <2>2
<1> QED
  BY <1>9, <1>10, <1>11 DEF Entered

\* A walk to a file that is there, or to one that it makes.
LEMMA WalkTo ==
    ASSUME TypeInv, NEW u \in Users, op[u].pc \in {"idle", "dir"},
           NEW x, OpStep(u, x), x.pc # "dir", x.pc # "recv",
           NEW c \in [Names -> Objs \cup {None}], NEW fs, Walks(c, fs),
           UNCHANGED <<srv, syn>>,
           NEW n \in Names, StrayInv(n), Entered(n, c, fs)
    PROVE  StaleKept(n)
<1>1. \A v \in Users \ {u} :
        /\ op'[v].pc = op[v].pc /\ op'[v].f = op[v].f /\ op'[v].ents = op[v].ents
        /\ op'[v].made = op[v].made
  <2>1. \A v \in Users : op[v] \in OpType
    BY TypeFacts
  <2> QED
    BY <2>1 DEF OpStep, OpType
<1>2. op'[u].pc # "dir" /\ op'[u].pc # "recv"
  BY DEF OpStep
<1>3. \A o : (Making(o) => Making(o)') /\ (Putting(o) => Putting(o)')
  BY <1>1 DEF Making, Putting
<1>4. CopiesTimes(n)
  <2>1. \A v \in Users : op'[v].pc = "dir" /\ op'[v].ents[n] # None => ServerTime(n, op'[v].ents[n].mt)
    BY <1>1, <1>2 DEF ServerTime
  <2>2. srv'[n] # None => ServerTime(n, srv'[n].mt)
    BY DEF ServerTime
  <2>3. \A o \in Objs : o[1] = n =>
            \/ file'[o].mt \in {0, file[o].mt}
            \/ ServerTime(n, file'[o].mt) \/ NewTime(file'[o].mt)
    BY DEF Walks, Entered
  <2> QED
    BY <2>1, <2>2, <2>3 DEF CopiesTimes
<1>5. StraysKept(n)
  <2> SUFFICES ASSUME NEW o \in syn.todo, o[1] = n, child'[n] # o
               PROVE  \/ file'[o].sts \in {"del", "gone"}
                      \/ /\ child[n] # o
                         /\ file'[o].sts = file[o].sts /\ file'[o].mt = file[o].mt
                         /\ Making(o) => Making(o)'
    BY DEF StraysKept
  <2>1. file'[o] = fs[o] /\ o # None
    BY NoneFacts, TypeFacts DEF Walks
  <2>2. CASE c[n] = o
    BY <2>1, <2>2 DEF Walks, isDel
  <2>3. CASE c[n] # o
    BY <1>3, <2>1, <2>3 DEF Entered
  <2> QED
    BY <2>2, <2>3
<1>6. CleanKept(n)
  <2> SUFFICES ASSUME child'[n] # None, file'[child'[n]].sts = "clean", ~Putting(child[n])'
               PROVE  /\ child[n] = child'[n]
                      /\ file[child[n]].sts = "clean" /\ ~Putting(child[n])
                      /\ file'[child[n]].data = file[child[n]].data
                      /\ file'[child[n]].mt = file[child[n]].mt
                      /\ file'[child[n]].size = file[child[n]].size
    BY DEF CleanKept
  <2>1. child'[n] = c[n] /\ file'[child'[n]] = fs[c[n]]
    BY DEF Walks
  <2>2. child'[n] = child[n]
    BY <2>1 DEF Entered
  <2>3. ~Putting(child[n])
    BY <1>1, <1>2, <2>2 DEF Putting
  <2> QED
    BY <2>1, <2>2, <2>3 DEF Entered
<1> QED
  BY <1>4, <1>5, <1>6 DEF StaleKept

\* Calls that walk nowhere yet, with or without the server's entries.
LEMMA CallWaits ==
    ASSUME TypeInv, NEW u \in Users, op[u].pc \in {"idle", "dir"},
           NEW x, op' = [op EXCEPT ![u] = x], x.pc # "recv",
           x.pc = "dir" => x.ents = srv,
           UNCHANGED <<srv, child, file, syn>>, NEW n \in Names
    PROVE  StaleKept(n)
<1>1. op'[u] = x /\ \A v \in Users \ {u} : op'[v] = op[v]
  BY TypeFacts
<1>2. \A o : Making(o)' = Making(o) /\ Putting(o)' = Putting(o)
  BY <1>1 DEF Making, Putting
<1>3. \A v \in Users : op'[v].pc = "dir" /\ op'[v].ents[n] # None => ServerTime(n, op'[v].ents[n].mt)
  BY <1>1 DEF ServerTime
<1>4. CopiesTimes(n)
  BY <1>3 DEF CopiesTimes, ServerTime
<1>5. StraysKept(n)
  BY <1>2 DEF StraysKept
<1>6. CleanKept(n)
  BY <1>2 DEF CleanKept
<1> QED
  BY <1>4, <1>5, <1>6 DEF StaleKept

\* Every walk.
LEMMA WalksTimes ==
    ASSUME TypeInv, NEW u \in Users,
           \/ \E kind \in Kinds, m \in Names : WalkDir(u, kind, m) \/ GetDir(u, kind, m)
           \/ GotDir(u) \/ NoDir(u) \/ NotCalled(u),
           NEW n \in Names, StrayInv(n)
    PROVE  StaleKept(n) /\ clock <= clock'
<1>1. clock \in Nat
  BY TypeFacts
<1>2. ASSUME NEW kind \in Kinds, NEW m \in Names, WalkDir(u, kind, m)
      PROVE  StaleKept(n) /\ clock <= clock'
  <2>1. /\ Find(u, kind, m, child, file) /\ op[u].pc = "idle" /\ UNCHANGED <<srv, syn>>
    BY <1>2 DEF WalkDir, Call
  <2>2. /\ child \in [Names -> Objs \cup {None}] /\ file \in [Objs -> MFile]
        /\ \A i \in Names : child[i] # None => child[i][1] = i
    BY TypeFacts
  <2>3. Walks(child, file)
    BY <2>1, <2>2, FindTimes
  <2>4. PICK x \in OpType : OpStep(u, x) /\ x.pc # "dir" /\ x.pc # "recv"
    BY <2>1, <2>2, FindType
  <2>5. Entered(n, child, file)
    BY DEF Entered
  <2>6. StaleKept(n)
    BY <2>1, <2>2, <2>3, <2>4, <2>5, WalkTo
  <2> QED
    BY <2>3, <2>6 DEF Walks
<1>3. ASSUME NEW kind \in Kinds, NEW m \in Names, GetDir(u, kind, m)
      PROVE  StaleKept(n) /\ clock <= clock'
  <2> DEFINE x == [Idle EXCEPT !.pc = "dir", !.kind = kind, !.n = m, !.ents = srv]
  <2>1. /\ op[u].pc = "idle" /\ UNCHANGED <<srv, child, file, syn, clock>>
        /\ op' = [op EXCEPT ![u] = x]
    BY <1>3 DEF GetDir, Call
  <2>2. x.pc = "dir" /\ x.ents = srv
    BY DEF Idle
  <2> HIDE DEF x
  <2>3. x.pc # "recv"
    BY <2>2
  <2>4. StaleKept(n)
    BY <2>1, <2>2, <2>3, CallWaits
  <2> QED
    BY <1>1, <2>1, <2>4
<1>4. CASE GotDir(u)
  <2> DEFINE c == gotDir(op[u].ents)
             fs == gotDirFiles(op[u].ents)
  <2>1. /\ op[u].n \in Names /\ op[u].kind \in Kinds /\ op[u].ents \in [Names -> Entry]
        /\ op[u].pc = "dir" /\ UNCHANGED <<srv, syn>>
        /\ \A i \in Names : Found(op[u].ents, i) => Fresh(i) # {}
        /\ Find(u, op[u].kind, op[u].n, c, fs)
    BY <1>4 DEF GotDir, TypeInv, OpInv
  <2>2. /\ c \in [Names -> Objs \cup {None}] /\ fs \in [Objs -> MFile]
        /\ \A i \in Names : c[i] # None => c[i][1] = i
    BY <2>1, GotDirType
  <2>3. Entered(n, c, fs)
    BY <2>1, GotDirTimes
  <2> HIDE DEF c, fs
  <2>4. Walks(c, fs)
    BY <2>1, <2>2, FindTimes
  <2>5. PICK x \in OpType : OpStep(u, x) /\ x.pc # "dir" /\ x.pc # "recv"
    BY <2>1, <2>2, FindType
  <2>6. StaleKept(n)
    BY <2>1, <2>2, <2>3, <2>4, <2>5, WalkTo
  <2> QED
    BY <2>4, <2>6 DEF Walks
<1>5. CASE NoDir(u)
  <2>1. /\ op[u].pc = "dir" /\ UNCHANGED <<srv, child, file, syn, clock>>
        /\ op' = [op EXCEPT ![u] = Idle]
    BY <1>5 DEF NoDir
  <2>2. Idle.pc # "recv" /\ Idle.pc # "dir"
    BY IdleType
  <2>3. StaleKept(n)
    BY <2>1, <2>2, CallWaits
  <2> QED
    BY <1>1, <2>1, <2>3
<1>6. CASE NotCalled(u)
  <2>1. op[u].pc = "idle" /\ op' = [op EXCEPT ![u] = op[u]] /\ UNCHANGED <<srv, child, file, syn, clock>>
    BY <1>6, TypeFacts DEF NotCalled, Call
  <2>2. op[u].pc # "recv" /\ op[u].pc # "dir"
    BY <2>1
  <2>3. StaleKept(n)
    BY <2>1, <2>2, CallWaits
  <2> QED
    BY <1>1, <2>1, <2>3
<1> QED
  BY <1>2, <1>3, <1>4, <1>5, <1>6

\* What is sent to the server has the mtime of the file, or the one it had.
LEMMA SentTimes ==
    ASSUME NEW f \in MFile, NEW d \in Entry
    PROVE  /\ Synced(f, d).mt = f.mt
           /\ Sent(f, d) # None => Sent(f, d).mt = f.mt \/ (d # None /\ Sent(f, d).mt = d.mt)
           /\ f.sts = "del" => Sent(f, d) = None
           /\ f.sts = "gone" => Sent(f, d) = d
           /\ f.sts = "data" => Sent(f, d).mt = f.mt
<1>1. Synced(f, d).mt = f.mt
  BY DEF Synced, MFile
<1>2. /\ f.sts = "del" => Sent(f, d) = None
      /\ f.sts = "gone" => Sent(f, d) = d
      /\ f.sts = "data" => Sent(f, d).mt = f.mt
  BY DEF Sent
<1>3. ASSUME Sent(f, d) # None
      PROVE  Sent(f, d).mt = f.mt \/ (d # None /\ Sent(f, d).mt = d.mt)
  <2>1. CASE f.sts \in {"newmeta", "meta"} /\ d # None
    <3>1. d \in Stored
      BY <2>1 DEF Entry
    <3>2. Sent(f, d).mt = IF "mtime" \in f.wd THEN f.mt ELSE d.mt
      BY <2>1, <3>1 DEF Sent, Stored
    <3> QED
      BY <2>1, <3>2
  <2>2. CASE f.sts \in {"del", "data"}
    BY <1>2, <1>3, <2>2
  <2>3. CASE f.sts \notin {"del", "data"} /\ ~(f.sts \in {"newmeta", "meta"} /\ d # None)
    <3>1. Sent(f, d) = d
      BY <2>3 DEF Sent
    <3> QED
      BY <1>3, <3>1
  <2> QED
    BY <2>1, <2>2, <2>3
<1> QED
  BY <1>1, <1>2, <1>3

\* What sync does with a file.
LEMMA SyncTimes ==
    ASSUME TypeInv, NEW x \in Objs, SyncFile(x) \/ SyncFails(x) \/ ReplyLost(x),
           NEW n \in Names, StrayInv(n)
    PROVE  /\ CopiesTimes(n) /\ StraysKept(n)
           /\ CleanKept(n) \/ (x \in syn.todo \ syn'.todo /\ x[1] = n /\ x # child[n] /\ Making(x))
<1>1. /\ UNCHANGED <<child, op>>
      /\ x \in syn.todo /\ syn'.todo = syn.todo \ {x}
  <2>1. UNCHANGED <<child, op>> /\ x \in syn.todo
    BY DEF SyncFile, SyncFails, ReplyLost
  <2>2. syn' = Took(x) \/ syn' = [Took(x) EXCEPT !.pc = "idle"]
    BY DEF SyncFile, SyncFails, ReplyLost, Failed
  <2>3. Took(x).todo = syn.todo \ {x} /\ [Took(x) EXCEPT !.pc = "idle"].todo = syn.todo \ {x}
    BY DEF Took
  <2> QED
    BY <2>1, <2>2, <2>3
<1>2. \/ SyncFails(x) /\ srv'[n] = srv[n]
      \/ ~SyncFails(x) /\ srv'[n] = IF n = x[1] THEN Sent(file[x], srv[n]) ELSE srv[n]
  <2>1. SyncFails(x) => srv' = srv
    BY DEF SyncFails
  <2>2. ~SyncFails(x) => srv' = [srv EXCEPT ![x[1]] = Sent(file[x], srv[x[1]])]
    BY DEF SyncFile, ReplyLost
  <2> QED
    BY <2>1, <2>2, TypeFacts
<1>3. file[x] \in MFile /\ x[1] \in Names /\ srv[x[1]] \in Entry /\ srv[n] \in Entry
  BY ObjsFacts, TypeFacts
<1> DEFINE s == Synced(file[x], srv[x[1]])
           fs == IF SyncFile(x) THEN [file EXCEPT ![x] = s] ELSE file
<1>4. s \in MFile /\ s.mt = file[x].mt
  BY <1>3, SyncFacts, SentTimes
<1> HIDE DEF s
<1>5. /\ fs \in [Objs -> MFile] /\ fs[x] = IF SyncFile(x) THEN s ELSE file[x]
      /\ \A o \in Objs \ {x} : fs[o] = file[o]
  BY <1>4, TypeFacts
<1>6. file' = Collect(fs, child, op, syn')
  <2>1. SyncFile(x) => file' = Collect([file EXCEPT ![x] = Synced(@, srv[x[1]])], child, op, syn')
    BY DEF SyncFile
  <2>2. [file EXCEPT ![x] = Synced(@, srv[x[1]])] = [file EXCEPT ![x] = s]
    BY TypeFacts DEF s
  <2>3. ~SyncFile(x) => file' = Collect(file, child, op, syn')
    BY DEF SyncFails, ReplyLost, Failed
  <2> QED
    BY <2>1, <2>2, <2>3
<1> HIDE DEF fs
<1>7. /\ \A o \in Objs : file'[o].mt \in {0, file[o].mt}
      /\ \A o \in syn'.todo : o \in Objs /\ o # x /\ file'[o] = file[o]
      /\ child[n] # None => child[n] \in Objs /\ child[n][1] = n /\ file'[child[n]] = fs[child[n]]
  <2>1. Unused.mt = 0
    BY DEF Unused
  <2>2. syn.todo \subseteq Objs /\ child[n] \in Objs \cup {None} /\ (child[n] # None => child[n][1] = n)
    BY TypeFacts
  <2>3. \A o \in Objs : fs[o].mt = file[o].mt
    BY <1>4, <1>5
  <2>4. /\ \A o \in Objs : file'[o].mt \in {0, fs[o].mt}
        /\ \A o \in syn'.todo : o \in Objs => file'[o] = fs[o]
        /\ child[n] \in Objs => file'[child[n]] = fs[child[n]]
    BY <1>5, <1>6, <2>1, CollectFacts
  <2> QED
    BY <1>1, <1>5, <2>2, <2>3, <2>4
<1>8. CopiesTimes(n)
  <2>1. ASSUME srv'[n] # None
        PROVE  \/ ServerTime(n, srv'[n].mt)
               \/ \E y \in syn.todo \ syn'.todo : y[1] = n /\ srv'[n].mt = file[y].mt
    <3>1. CASE srv'[n] = srv[n]
      BY <2>1, <3>1 DEF ServerTime
    <3>2. CASE n = x[1] /\ srv'[n] = Sent(file[x], srv[n])
      <4>1. srv'[n].mt = file[x].mt \/ (srv[n] # None /\ srv'[n].mt = srv[n].mt)
        BY <1>3, <2>1, <3>2, SentTimes
      <4> QED
        BY <1>1, <3>2, <4>1 DEF ServerTime
    <3> QED
      BY <1>2, <3>1, <3>2
  <2>2. \A v \in Users : op'[v].pc = "dir" /\ op'[v].ents[n] # None => ServerTime(n, op'[v].ents[n].mt)
    BY <1>1 DEF ServerTime
  <2> QED
    BY <1>7, <2>1, <2>2 DEF CopiesTimes
<1>9. StraysKept(n)
  <2>1. \A o : Making(o)' = Making(o)
    BY <1>1 DEF Making
  <2> QED
    BY <1>1, <1>7, <2>1 DEF StraysKept
<1>10. ASSUME ~(x[1] = n /\ x # child[n] /\ Making(x)) PROVE CleanKept(n)
  <2> DEFINE o == child[n]
  <2> SUFFICES ASSUME o # None, file'[o].sts = "clean", ~Putting(o)', srv'[n] # None
               PROVE  \/ srv'[n].data = file'[o].data
                      \/ srv'[n].mt # file'[o].mt
                      \/ srv'[n] = srv[n] /\ file'[o] = file[o] /\ ~Putting(o)
    BY <1>1 DEF CleanKept
  <2>1. o \in Objs /\ o[1] = n /\ file'[o] = fs[o] /\ ~Putting(o)
    BY <1>1, <1>7 DEF Putting
  <2> HIDE DEF o
  <2>2. CASE x[1] # n
    BY <1>2, <1>5, <2>1, <2>2
  <2>3. CASE x = o
    <3>1. CASE SyncFile(x)
      <4>1. ~SyncFails(x)
        <5>1. SyncFile(x) /\ SyncFails(x) => FALSE
          BY DEF SyncFile, SyncFails
        <5> QED
          BY <3>1, <5>1
      <4>2. srv'[n] = Sent(file[x], srv[n]) /\ file'[o] = Synced(file[x], srv[n])
        BY <1>2, <1>5, <2>1, <2>3, <3>1, <4>1 DEF s
      <4>3. \/ Sent(file[x], srv[n]) = srv[n] /\ Synced(file[x], srv[n]) = file[x]
            \/ Sent(file[x], srv[n]).data = Synced(file[x], srv[n]).data
        BY <1>3, <4>2, SyncFacts
      <4> QED
        BY <2>1, <2>3, <4>2, <4>3
    <3>2. CASE ~SyncFile(x)
      <4>1. file'[o] = file[x] /\ file[x].sts \in Dirty
        BY <1>5, <2>1, <2>3, <3>2 DEF SyncFails, ReplyLost
      <4> QED
        BY <4>1 DEF Dirty
    <3> QED
      BY <3>1, <3>2
  <2>4. CASE x[1] = n /\ x # o
    <3>1. file'[o] = file[o]
      BY <1>5, <2>1, <2>4
    <3>2. /\ file[x].sts \in {"data", "del", "gone"}
          /\ file[x].sts = "data" => Own(x)
      BY <1>1, <1>10, <2>4 DEF StrayInv, o
    <3>3. CASE srv'[n] = srv[n]
      BY <2>1, <3>1, <3>3
    <3>4. CASE srv'[n] = Sent(file[x], srv[n]) /\ srv'[n] # srv[n]
      <4>1. file[x].sts = "data" /\ srv'[n].mt = file[x].mt
        BY <1>3, <3>2, <3>4, SentTimes
      <4>2. file[o].mt # file[x].mt
        BY <2>1, <2>4, <3>2, <4>1 DEF Own
      <4> QED
        BY <3>1, <4>1, <4>2
    <3> QED
      BY <1>2, <2>4, <3>3, <3>4
  <2> QED
    BY <2>2, <2>3, <2>4
<1> QED
  BY <1>1, <1>8, <1>9, <1>10

\* And what happens to the rest.
LEMMA WorldTimes ==
    ASSUME TypeInv, Clocked, SyncDir \/ Inval \/ Redial \/ Break \/ \E m \in Names : Other(m),
           NEW n \in Names
    PROVE  StaleKept(n) /\ clock <= clock'
<1>1. clock \in Nat /\ op' = op /\ child' = child
  BY TypeFacts DEF SyncDir, Inval, Redial, Break, Other
<1>2. \A o : Making(o)' = Making(o) /\ Putting(o)' = Putting(o)
  BY <1>1 DEF Making, Putting
<1>3. \A v \in Users : op'[v].pc = "dir" /\ op'[v].ents[n] # None => ServerTime(n, op'[v].ents[n].mt)
  BY <1>1 DEF ServerTime
<1>4. child[n] # None => child[n] \in Objs /\ child[child[n][1]] = child[n] /\ file[child[n]] \in MFile
  BY TypeFacts
<1>5. CASE SyncDir
  <2>1. UNCHANGED <<srv, file, clock>> /\ syn'.todo = children
    BY <1>5 DEF SyncDir
  <2>2. \A o \in children : o = child[o[1]]
    BY TypeFacts DEF children
  <2>3. CopiesTimes(n)
    BY <1>3, <2>1 DEF CopiesTimes, ServerTime
  <2>4. StraysKept(n)
    BY <1>1, <2>1, <2>2 DEF StraysKept
  <2>5. CleanKept(n)
    BY <1>1, <1>2, <2>1 DEF CleanKept
  <2> QED
    BY <1>1, <2>1, <2>3, <2>4, <2>5 DEF StaleKept
<1>6. CASE Inval
  <2>1. /\ UNCHANGED <<srv, syn, clock>>
        /\ file' = [o \in Objs |-> IF o = child[o[1]] THEN inval(file[o]) ELSE file[o]]
    BY <1>6 DEF Inval
  <2>2. \A f \in MFile : inval(f).mt = f.mt /\ inval(f).sts # "clean"
    <3>1. \A f \in MFile : inval(f).mt = f.mt
      BY DEF inval, MFile
    <3> QED
      BY <3>1, StatusFacts
  <2>3. \A o \in Objs : file'[o].mt = file[o].mt /\ (o # child[o[1]] => file'[o] = file[o])
    BY <2>1, <2>2, TypeFacts
  <2>4. child[n] # None => file'[child[n]].sts # "clean"
    BY <1>4, <2>1, <2>2
  <2>5. CopiesTimes(n)
    BY <1>3, <2>1, <2>3 DEF CopiesTimes, ServerTime
  <2>6. StraysKept(n)
    <3>1. syn.todo \subseteq Objs
      BY TypeFacts
    <3> QED
      BY <1>1, <1>2, <2>1, <2>3, <3>1 DEF StraysKept
  <2>7. CleanKept(n)
    BY <1>1, <2>4 DEF CleanKept
  <2> QED
    BY <1>1, <2>1, <2>5, <2>6, <2>7 DEF StaleKept
<1>7. CASE Redial \/ Break
  <2>1. UNCHANGED <<srv, file, syn, clock>>
    BY <1>7 DEF Redial, Break
  <2>2. CopiesTimes(n)
    BY <1>3, <2>1 DEF CopiesTimes, ServerTime
  <2>3. StraysKept(n) /\ CleanKept(n)
    BY <1>1, <1>2, <2>1 DEF StraysKept, CleanKept
  <2> QED
    BY <1>1, <2>1, <2>2, <2>3 DEF StaleKept
<1>8. ASSUME NEW m \in Names, Other(m) PROVE StaleKept(n) /\ clock <= clock'
  <2>1. UNCHANGED <<file, syn>> /\ clock' = clock + 1
    BY <1>8 DEF Other
  <2>2. srv'[n] = srv[n] \/ srv'[n] = None \/ srv'[n].mt = clock'
    BY <1>8, <2>1, TypeFacts DEF Other
  <2>3. NewTime(clock') /\ \A o \in Objs : file[o].mt # clock'
    <3>1. \A o \in Objs : file[o].mt \in Nat /\ file[o].mt <= clock
      BY TypeFacts DEF MFile, Clocked
    <3> QED
      BY <1>1, <2>1, <3>1 DEF NewTime
  <2>4. CopiesTimes(n)
    BY <1>3, <2>1, <2>2, <2>3 DEF CopiesTimes, ServerTime
  <2>5. StraysKept(n) /\ CleanKept(n)
    BY <1>1, <1>2, <1>4, <2>1, <2>2, <2>3 DEF StraysKept, CleanKept
  <2> QED
    BY <1>1, <2>1, <2>4, <2>5 DEF StaleKept
<1> QED
  BY <1>5, <1>6, <1>7, <1>8

\* Every step keeps the invariant, and makes nothing clean and stale unnoticed
\* but by sending what there is of a file that is being made.
Unnoticed(n) == \E o \in syn.todo \ syn'.todo : o[1] = n /\ o # child[n] /\ Making(o)
LEMMA StaleStep ==
    ASSUME StaleInv, [Next]_vars, NEW n \in Names
    PROVE  /\ CopiesTimes(n) /\ StraysKept(n) /\ clock <= clock'
           /\ CleanKept(n) \/ Unnoticed(n)
<1>1. TypeInv /\ Clocked /\ StrayInv(n) /\ clock \in Nat
  BY TypeFacts DEF StaleInv
<1>2. CASE UNCHANGED vars
  <2>1. \A o : Making(o)' = Making(o) /\ Putting(o)' = Putting(o)
    BY <1>2 DEF vars, Making, Putting
  <2>2. CopiesTimes(n)
    BY <1>2 DEF vars, CopiesTimes, ServerTime
  <2>3. StraysKept(n) /\ CleanKept(n)
    BY <1>2, <2>1 DEF vars, StraysKept, CleanKept
  <2> QED
    BY <1>1, <1>2, <2>2, <2>3 DEF vars
<1>3. ASSUME StaleKept(n), clock <= clock'
      PROVE  /\ CopiesTimes(n) /\ StraysKept(n) /\ clock <= clock'
             /\ CleanKept(n) \/ Unnoticed(n)
  BY <1>3 DEF StaleKept
<1>4. ASSUME NEW u \in Users,
             \/ Start(u) \/ GotDir(u) \/ NoDir(u)
             \/ Fail(u) \/ Stat(u) \/ Wstat(u) \/ Remove(u) \/ Get(u) \/ Put(u) \/ PutEnd(u) \/ Recv(u)
      PROVE  StaleKept(n) /\ clock <= clock'
  <2>1. CASE Start(u) \/ GotDir(u) \/ NoDir(u)
    BY <1>1, <2>1, WalksTimes DEF Start
  <2>2. CASE Fail(u) \/ Stat(u) \/ Wstat(u) \/ Remove(u) \/ Get(u)
    <3>1. clock' = clock
      BY <2>2 DEF Fail, Stat, Wstat, Remove, Get
    <3> QED
      BY <1>1, <2>2, <3>1, WalkedTimes
  <2>3. CASE Put(u) \/ PutEnd(u)
    <3>1. clock' = clock + 1
      BY <2>3 DEF Put, PutEnd
    <3> QED
      BY <1>1, <2>3, <3>1, PutTimes
  <2>4. CASE Recv(u)
    <3>1. clock' = clock
      BY <2>4 DEF Recv
    <3> QED
      BY <1>1, <2>4, <3>1, RecvTimes
  <2> QED
    BY <1>4, <2>1, <2>2, <2>3, <2>4
<1>5. ASSUME NEW o \in Objs, SyncFile(o) \/ SyncFails(o) \/ ReplyLost(o)
      PROVE  /\ CopiesTimes(n) /\ StraysKept(n) /\ clock <= clock'
             /\ CleanKept(n) \/ Unnoticed(n)
  <2>1. clock' = clock
    BY <1>5 DEF SyncFile, SyncFails, ReplyLost
  <2>2. CopiesTimes(n) /\ StraysKept(n)
    BY <1>1, <1>5, SyncTimes
  <2>3. CleanKept(n) \/ (o \in syn.todo \ syn'.todo /\ o[1] = n /\ o # child[n] /\ Making(o))
    BY <1>1, <1>5, SyncTimes
  <2> QED
    BY <1>1, <2>1, <2>2, <2>3 DEF Unnoticed
<1>6. CASE SyncDir \/ Inval \/ Redial \/ Break \/ \E m \in Names : Other(m)
  BY <1>1, <1>3, <1>6, WorldTimes
<1> QED
  BY <1>2, <1>3, <1>4, <1>5, <1>6 DEF Next, Step, Sync

LEMMA StaleInvInductive == StaleInv /\ [Next]_vars => StaleInv'
<1> SUFFICES ASSUME StaleInv, [Next]_vars PROVE StaleInv'
  OBVIOUS
<1>1. TypeInv /\ TypeInv' /\ Clocked
  BY TypeInvInductive DEF StaleInv
<1>2. \A n \in Names : CopiesTimes(n) /\ StraysKept(n) /\ clock <= clock'
  BY StaleStep
<1>3. Clocked'
  <2>1. CASE Names = {}
    BY <2>1 DEF Clocked, Objs
  <2>2. CASE Names # {}
    BY <1>1, <1>2, <2>2, ClockedStep
  <2> QED
    BY <2>1, <2>2
<1>4. \A n \in Names : StrayInv(n)'
  BY <1>1, <1>2, StrayStep DEF StaleInv
<1> QED
  BY <1>1, <1>3, <1>4 DEF StaleInv

LEMMA InitStaleInv == Init => StaleInv
<1> SUFFICES ASSUME Init PROVE StaleInv
  OBVIOUS
<1>1. TypeInv
  BY InitTypeInv
<1>2. clock = 0 /\ syn.todo = {} /\ (\A u \in Users : op[u].pc # "dir")
  BY IdleType DEF Init
<1>3. \A o \in Objs : file[o].mt = 0
  BY DEF Init, Unused
<1>4. \A n \in Names : srv[n] # None => srv[n].mt = 0
  BY DEF Init
<1> QED
  BY <1>1, <1>2, <1>3, <1>4 DEF StaleInv, Clocked, StrayInv, ServerTime

\* What is clean and has other contents than the server's has another mtime or
\* size, but when sync sends what there is of a file that is being made and was
\* dropped: every other way of changing either side comes with an mtime that
\* nothing else of the name has.
THEOREM StaleAreDetected == Spec => StaleIsDetected
<1>1. ASSUME StaleInv, [Next]_vars, NEW n \in Names, Detected(n)
      PROVE  Detected(n)' \/ Unnoticed(n)
  <2>1. CleanKept(n) \/ Unnoticed(n)
    BY <1>1, StaleStep
  <2>2. ASSUME CleanKept(n) PROVE Detected(n)'
    BY <1>1, <2>2 DEF CleanKept, Detected
  <2> QED
    BY <2>1, <2>2
<1>2. StaleInv /\ [Next]_vars =>
        [\A n \in Names :
            Detected(n) =>
                \/ Detected(n)'
                \/ \E o \in syn.todo \ syn'.todo : o[1] = n /\ o # child[n] /\ Making(o)]_vars
  BY <1>1 DEF Unnoticed
<1> QED
  BY <1>2, InitStaleInv, StaleInvInductive, PTL DEF Spec, StaleIsDetected
=============================================================================
