-------------------------------- MODULE Zxc --------------------------------
(***************************************************************************)
(* zx/zxc: the caching file system, for the files of one directory, "/".   *)
(* Users put, get, stat, wstat and remove files; the syncer sends what is  *)
(* dirty to the server and redials when the connection fails; other        *)
(* clients change files of the server.  Nobody else calls Sync.            *)
(*                                                                         *)
(* What runs with a file locked is one step, but for the data that getData *)
(* and putData move after they unlock it.  The lock of "/" is kept while   *)
(* its entries are fetched.  A message of a put is the user that sent it.  *)
(***************************************************************************)
EXTENDS Naturals, Sequences, FiniteSets

CONSTANTS
    Names,      \* names of files in "/"
    NObj,       \* bound: cached files (mFile) that may exist for one name
    Users,      \* who calls the file system
    Kinds,      \* what they may call
    MaxOps,     \* bound: calls made, in all
    MaxMsgs,    \* bound: messages of a put
    MaxExt,     \* bound: changes made by other clients
    MaxInval,   \* bound: times the cache is invalidated
    MaxBreaks,  \* bound: times the connection breaks
    None        \* no file

Objs == Names \X (1..NObj)

\* What the server says of a file: contents, mtime and mode.
Contents == Seq(Users \cup {None})
Stored == [data: Contents, mt: Nat, mode: Nat]

ASSUME ZxcAssumption ==
    /\ Kinds \subseteq {"create", "put", "get", "stat", "wstat", "remove"}
    /\ {NObj, MaxOps, MaxMsgs, MaxExt, MaxInval, MaxBreaks} \subseteq Nat
    /\ None \notin Names \cup Objs \cup Users \cup Stored

VARIABLES
    srv,        \* the files of the server
    up,         \* the connection to it works
    dsts,       \* status of "/"
    child,      \* its child map
    file,       \* the cached files, those nobody can reach being Unused
    rlock,      \* who keeps the lock of "/"
    op,         \* the call each user is making
    syn,        \* the syncer, and the files it has yet to sync
    redialing,  \* it must redial
    clock,      \* the time, for mtimes
    ext,        \* names changed by other clients
    used        \* how much of the bounds is used

vars == <<srv, up, dsts, child, file, rlock, op, syn, redialing, clock, ext, used>>

Status == {"new", "newmeta", "clean", "meta", "data", "del", "gone"}
Dirty == {"newmeta", "meta", "data", "del"}

\* mFile: sts, data, what is used of d, and the names of attributes in wd.
\* Attributes in wd have the value they have in d.
MFile == [sts: Status, data: Contents, mt: Nat, size: Nat, mode: Nat,
          wd: SUBSET {"mtime", "mode"}]
Unused == [sts |-> "gone", data |-> <<>>, mt |-> 0, size |-> 0, mode |-> 0, wd |-> {}]

\* mCache.newFile
NewFile(sts, mt, size, mode) ==
    [sts |-> sts, data |-> <<>>, mt |-> mt, size |-> size, mode |-> mode, wd |-> {}]

\* A call: the file it works on once "/" was walked, whether walk or newFile
\* returned it, the messages received, and whether the buffer they go to is
\* still that of the file.  While "/" is locked, the entries the server sent.
Idle == [pc |-> "idle", kind |-> "stat", n |-> None, f |-> None,
         made |-> FALSE, k |-> 0, held |-> FALSE, ents |-> <<>>]

\* Every variable keeps to its type, and "/" is locked by who is fetching it.
TypeOK ==
    /\ srv \in [Names -> Stored \cup {None}]
    /\ up \in BOOLEAN /\ redialing \in BOOLEAN
    /\ dsts \in {"new", "clean"}
    /\ child \in [Names -> Objs \cup {None}]
    /\ \A n \in Names : child[n] # None => child[n][1] = n
    /\ file \in [Objs -> MFile]
    /\ rlock \in Users \cup {None}
    /\ \A u \in Users : rlock = u <=> op[u].pc = "dir"
    /\ op \in [Users -> [pc: {"idle", "dir", "file", "recv"}, kind: Kinds \cup {"stat"},
                         n: Names \cup {None}, f: Objs \cup {None},
                         made: BOOLEAN, k: 0..MaxMsgs, held: BOOLEAN,
                         ents: [Names -> Stored \cup {None}] \cup {<<>>}]]
    /\ syn \in [pc: {"idle", "files"}, todo: SUBSET Objs]
    /\ clock \in Nat
    /\ ext \subseteq Names
    /\ used \in [{"ops", "ext", "inval", "breaks"} -> Nat]

\* New: only the root is known.  The server has some of the files.
Init ==
    /\ srv \in [Names -> {None, [data |-> <<None>>, mt |-> 0, mode |-> 0]}]
    /\ up = TRUE /\ redialing = FALSE
    /\ dsts = "new"
    /\ child = [n \in Names |-> None]
    /\ file = [o \in Objs |-> Unused]
    /\ rlock = None
    /\ op = [u \in Users |-> Idle]
    /\ syn = [pc |-> "idle", todo |-> {}]
    /\ clock = 0
    /\ ext = {}
    /\ used = [x \in {"ops", "ext", "inval", "breaks"} |-> 0]

Use(x) == used' = [used EXCEPT ![x] = @ + 1]

-----------------------------------------------------------------------------
(* Cached files.                                                           *)

\* Files that nobody has a pointer to are collected.
Live(c, ops, sy) ==
    {c[n] : n \in Names} \cup {ops[u].f : u \in Users} \cup sy.todo
Collect(fs, c, ops, sy) == [o \in Objs |-> IF o \in Live(c, ops, sy) THEN fs[o] ELSE Unused]
Fresh(n) == {o \in Objs \ Live(child, op, syn) : o[1] = n}
New(n) == CHOOSE o \in Fresh(n) : TRUE

inval(f) ==
    CASE f.sts = "clean" -> [f EXCEPT !.sts = "new", !.data = <<>>]
      [] f.sts = "meta"  -> [f EXCEPT !.sts = "newmeta", !.data = <<>>]
      [] OTHER           -> f

dirtyMeta(f) ==
    CASE f.sts = "new"   -> [f EXCEPT !.sts = "newmeta"]
      [] f.sts = "clean" -> [f EXCEPT !.sts = "meta"]
      [] OTHER           -> f

dirtyData(f) == [f EXCEPT !.sts = "data"]
gone(f) == [f EXCEPT !.sts = "gone", !.data = <<>>]
del(f) == [f EXCEPT !.sts = "del", !.data = <<>>, !.wd = {}]
isDel(f) == f.sts \in {"del", "gone"}
dataOk(f) == f.sts \notin {"new", "newmeta"}

gotMetaKept(f, d) == [f EXCEPT !.size = Len(d.data), !.mt = d.mt, !.mode = d.mode]
gotMeta(f, d) ==
    LET g == IF f.sts = "gone" THEN [f EXCEPT !.sts = "new"] ELSE f
        changed == g.mt # d.mt \/ g.size # Len(d.data)
        h == IF g.sts # "data" /\ changed THEN inval(g) ELSE g
    IN  [h EXCEPT !.size = Len(d.data),
                  !.mt = IF "mtime" \in f.wd THEN @ ELSE d.mt,
                  !.mode = IF "mode" \in f.wd THEN @ ELSE d.mode]

gotData(f, d) ==
    [f EXCEPT !.sts = IF @ = "newmeta" THEN "meta" ELSE "clean",
              !.data = d.data, !.size = Len(d.data)]

\* wstat of the mtime and of the mode; a wstat of size 0 truncates.
wstat(f, attr, v) ==
    LET g == IF attr = "mode" THEN [f EXCEPT !.mode = v] ELSE [f EXCEPT !.mt = v]
    IN  IF g = f THEN f ELSE dirtyMeta([g EXCEPT !.wd = @ \cup {attr}])
trunc(f) == dirtyData([f EXCEPT !.data = <<>>, !.size = 0])

\* BufferFd.Write of message m at position k: holes are filled with zeros.
WriteAt(data, k, m) ==
    [i \in 1..(IF k > Len(data) THEN k ELSE Len(data)) |->
        IF i = k THEN m ELSE IF i <= Len(data) THEN data[i] ELSE None]

\* gotData makes a new buffer: whoever uses the old one has lost the file's.
Unhold(o) == [u \in Users |-> IF op[u].f = o THEN [op[u] EXCEPT !.held = FALSE] ELSE op[u]]

\* needRedial: heard only if the syncer waits for requests.
needRedial == redialing' \in {redialing, redialing \/ syn.pc = "idle"}

-----------------------------------------------------------------------------
(* walk, in "/".                                                           *)

\* gotDir: entries of the server refresh or make children; children that are
\* not there are dropped unless they have data to be sent.
Dropped(ents, n) ==
    child[n] # None /\ ents[n] = None /\ file[child[n]].sts \notin {"data", "gone"}
Found(ents, n) == child[n] = None /\ ents[n] # None
gotDir(ents) ==
    [n \in Names |-> IF Dropped(ents, n) THEN None
                     ELSE IF Found(ents, n) THEN New(n) ELSE child[n]]
gotDirFiles(ents) ==
    [o \in Objs |->
        LET n == o[1] IN
        IF Found(ents, n) /\ o = New(n)
        THEN NewFile("new", ents[n].mt, Len(ents[n].data), ents[n].mode)
        ELSE IF o # child[n] THEN file[o]
        ELSE IF ents[n] # None THEN gotMeta(file[o], ents[n])
        ELSE IF Dropped(ents, n) THEN gone(file[o]) ELSE file[o]]

\* walk1, and newFile when there is no file and the call creates it; c and fs
\* are the child map and the files.
Missing(n, c, fs) == c[n] = None \/ isDel(fs[c[n]])
Forget(n, c, fs) == IF c[n] # None /\ fs[c[n]].sts = "gone" THEN [c EXCEPT ![n] = None] ELSE c
Walked(kind, n, f, made) ==
    [Idle EXCEPT !.pc = "file", !.kind = kind, !.n = n, !.f = f, !.made = made]
walk1(u, kind, n, c, fs) ==
    /\ UNCHANGED clock
    /\ child' = Forget(n, c, fs)
    /\ op' = [op EXCEPT ![u] = IF Missing(n, c, fs) THEN Idle ELSE Walked(kind, n, c[n], FALSE)]
    /\ file' = Collect(fs, child', op', syn)
newFile(u, n, c, fs) ==
    /\ Fresh(n) # {}
    /\ clock' = clock + 1
    /\ child' = [c EXCEPT ![n] = New(n)]
    /\ op' = [op EXCEPT ![u] = Walked("create", n, New(n), TRUE)]
    /\ file' = Collect([fs EXCEPT ![New(n)] = NewFile("data", clock + 1, 0, 0)],
                        child', op', syn)
Find(u, kind, n, c, fs) ==
    IF kind = "create" /\ Missing(n, c, fs) THEN newFile(u, n, c, fs)
    ELSE walk1(u, kind, n, c, fs)

Call(u) ==
    /\ op[u].pc = "idle" /\ rlock = None
    /\ used["ops"] < MaxOps /\ Use("ops")

\* The metadata of "/" is good, or can't be refreshed, and so are its entries.
WalkDir(u, kind, n) ==
    /\ Call(u)
    /\ dsts = "clean"
    /\ Find(u, kind, n, child, file)
    /\ IF up THEN UNCHANGED redialing ELSE needRedial
    /\ UNCHANGED <<srv, up, dsts, rlock, syn, ext>>

\* The entries are not good, perhaps because the metadata timed out and the
\* server says that "/" changed: they are fetched with "/" locked.
GetDir(u, kind, n) ==
    /\ Call(u)
    /\ up
    /\ dsts' = "new" /\ rlock' = u
    /\ op' = [op EXCEPT ![u] = [Idle EXCEPT !.pc = "dir", !.kind = kind, !.n = n, !.ents = srv]]
    /\ UNCHANGED <<srv, up, child, file, syn, redialing, clock, ext>>

\* They come, and the walk goes on; or they do not, perhaps because they can't
\* be asked for, and there are no old ones.
GotDir(u) ==
    /\ op[u].pc = "dir"
    /\ \A n \in Names : Found(op[u].ents, n) => Fresh(n) # {}
    /\ dsts' = "clean" /\ rlock' = None
    /\ Find(u, op[u].kind, op[u].n, gotDir(op[u].ents), gotDirFiles(op[u].ents))
    /\ UNCHANGED <<srv, up, syn, redialing, ext, used>>

NoDirLocked(u) ==
    /\ op[u].pc = "dir" /\ ~up
    /\ op' = [op EXCEPT ![u] = Idle]
    /\ UNCHANGED <<srv, up, dsts, child, file, rlock, syn, redialing, clock, ext, used>>
NoDir(u) ==
    /\ op[u].pc = "dir" /\ ~up
    /\ op' = [op EXCEPT ![u] = Idle] /\ rlock' = None
    /\ UNCHANGED <<srv, up, dsts, child, file, syn, redialing, clock, ext, used>>

NotCalled(u) ==
    /\ Call(u)
    /\ ~up /\ dsts = "new"
    /\ needRedial
    /\ UNCHANGED <<srv, up, dsts, child, file, rlock, op, syn, clock, ext>>

-----------------------------------------------------------------------------
(* walk, in the file, and what the call does with it.                      *)

\* Metadata may have timed out; if the server can't be asked the old is used.
\* A file that newFile made is not walked.
getMeta(f, d) == IF d = None THEN gone(f) ELSE gotMeta(f, d)
Walk(u) ==
    LET f == file[op[u].f] IN
    {f} \cup IF up /\ f.sts \in {"new", "clean"} /\ ~op[u].made
             THEN {getMeta(f, srv[op[u].n])} ELSE {}
WalkUnchecked(u) == Walk(u)
WalkOk(u) == {f \in Walk(u) : op[u].made \/ ~isDel(f)}

\* getData can fetch the contents; there are no old ones.
CanFetch(u) == up /\ srv[op[u].n] # None

\* The call returns, or goes on as c, and leaves its file as f.
Leave(u, ops, f) ==
    /\ op' = ops
    /\ file' = Collect([file EXCEPT ![op[u].f] = f], child, op', syn)
    /\ IF up THEN UNCHANGED redialing ELSE needRedial
    /\ UNCHANGED <<srv, up, dsts, child, rlock, syn, ext, used>>
Return(u) == [op EXCEPT ![u] = Idle]

Fail(u) ==
    /\ op[u].pc = "file"
    /\ \E f \in Walk(u) :
        /\ \/ isDel(f) /\ ~op[u].made
           \/ op[u].kind \in {"get", "put"} /\ ~dataOk(f) /\ ~CanFetch(u)
        /\ Leave(u, Return(u), f)
    /\ UNCHANGED clock

Stat(u) ==
    /\ op[u].pc = "file" /\ op[u].kind = "stat"
    /\ \E f \in WalkOk(u) : Leave(u, Return(u), f)
    /\ UNCHANGED clock

Wstat(u) ==
    /\ op[u].pc = "file" /\ op[u].kind = "wstat"
    /\ \E f \in WalkOk(u) : Leave(u, Return(u), wstat(f, "mode", 1))
    /\ UNCHANGED clock

Remove(u) ==
    /\ op[u].pc = "file" /\ op[u].kind = "remove"
    /\ \E f \in WalkOk(u) : Leave(u, Return(u), del(f))
    /\ UNCHANGED clock

Get(u) ==
    /\ op[u].pc = "file" /\ op[u].kind = "get"
    /\ \E f \in WalkOk(u) :
        \/ dataOk(f) /\ Leave(u, Return(u), f)
        \/ /\ ~dataOk(f) /\ CanFetch(u)
           /\ Leave(u, [Unhold(op[u].f) EXCEPT ![u] = Idle], gotData(f, srv[op[u].n]))
    /\ UNCHANGED clock

\* put, up to the point where putData unlocks the file: the mtime is set and
\* the data is dirty; a put that creates a file truncates the one there is.
put(f, made, kind, now) ==
    IF made THEN dirtyData(f)
    ELSE dirtyData(wstat(IF kind = "create" THEN trunc(f) ELSE f, "mtime", now))
Receiving(ops, u) == [ops EXCEPT ![u].pc = "recv", ![u].held = TRUE]

Put(u) ==
    /\ op[u].pc = "file" /\ op[u].kind \in {"create", "put"}
    /\ clock' = clock + 1
    /\ \E f \in WalkOk(u) :
        \/ /\ op[u].kind = "create" \/ dataOk(f)
           /\ Leave(u, Receiving(op, u), put(f, op[u].made, op[u].kind, clock + 1))
        \/ /\ op[u].kind = "put" /\ ~dataOk(f) /\ CanFetch(u)
           /\ Leave(u, Receiving(Unhold(op[u].f), u),
                    put(gotData(f, srv[op[u].n]), FALSE, "put", clock + 1))

\* putData, with the file unlocked: a message goes to the buffer it had.
Recv(u) ==
    LET o == op[u].f
        k == op[u].k + 1
    IN  /\ op[u].pc = "recv" /\ k <= MaxMsgs
        /\ op' = [op EXCEPT ![u].k = k]
        /\ file' = IF op[u].held THEN [file EXCEPT ![o].data = WriteAt(@, k, u)] ELSE file
        /\ UNCHANGED <<srv, up, dsts, child, rlock, syn, redialing, clock, ext, used>>

\* No more messages: the file is locked again and is dirty whatever it was.
putEndClean(f, now) == [f EXCEPT !.mt = now, !.size = Len(f.data), !.wd = @ \cup {"mtime"}]
putEnd(f, now) ==
    dirtyData([f EXCEPT !.mt = now, !.size = Len(f.data), !.wd = @ \cup {"mtime"}])
PutEnd(u) ==
    /\ op[u].pc = "recv"
    /\ clock' = clock + 1
    /\ op' = Return(u)
    /\ file' = Collect([file EXCEPT ![op[u].f] = putEnd(@, clock + 1)], child, op', syn)
    /\ UNCHANGED <<srv, up, dsts, child, rlock, syn, redialing, ext, used>>

\* The inval request of Ctl: invalAll.
Inval ==
    /\ used["inval"] < MaxInval /\ Use("inval")
    /\ rlock = None
    /\ dsts' = "new"
    /\ file' = [o \in Objs |-> IF o = child[o[1]] THEN inval(file[o]) ELSE file[o]]
    /\ UNCHANGED <<srv, up, child, rlock, op, syn, redialing, clock, ext>>

-----------------------------------------------------------------------------
(* Sync, and the syncer.                                                   *)

\* Redial, which the syncer tries until it works.
Redial ==
    /\ redialing /\ syn.pc = "idle"
    /\ redialing' = FALSE /\ up' = TRUE
    /\ UNCHANGED <<srv, dsts, child, file, rlock, op, syn, clock, ext, used>>

\* The root is locked, and its children taken.
childrenNotDel == {child[n] : n \in {m \in Names : child[m] # None /\ ~isDel(file[child[m]])}}
children == {child[n] : n \in {m \in Names : child[m] # None /\ file[child[m]].sts # "gone"}}
SyncDir ==
    /\ syn = [pc |-> "idle", todo |-> {}] /\ ~redialing
    /\ rlock = None /\ children # {}
    /\ syn' = [pc |-> "files", todo |-> children]
    /\ UNCHANGED <<srv, up, dsts, child, file, rlock, op, redialing, clock, ext, used>>

\* What sync sends to the server for a file, and the file when it replies.
\* Without a file there a Wstat fails.
Sent(f, d) ==
    CASE f.sts = "del" -> None
      [] f.sts = "data" -> [data |-> f.data, mt |-> f.mt, mode |-> f.mode]
      [] f.sts \in {"newmeta", "meta"} /\ d # None ->
            [d EXCEPT !.mt = IF "mtime" \in f.wd THEN f.mt ELSE @,
                      !.mode = IF "mode" \in f.wd THEN f.mode ELSE @]
      [] OTHER -> d
Synced(f, d) ==
    CASE f.sts = "del" -> [f EXCEPT !.sts = "gone"]
      [] f.sts = "data" -> [f EXCEPT !.sts = "clean", !.wd = {}, !.size = Len(f.data)]
      [] f.sts \in {"newmeta", "meta"} /\ d # None -> [f EXCEPT !.sts = "new", !.wd = {}]
      [] OTHER -> f

\* One of the files, each with its goroutine: the file is locked all along.
Took(o) ==
    LET left == syn.todo \ {o} IN
    [pc |-> IF left = {} THEN "idle" ELSE syn.pc, todo |-> left]
SyncFile(o) ==
    /\ o \in syn.todo
    /\ up \/ file[o].sts \notin Dirty
    /\ srv' = [srv EXCEPT ![o[1]] = Sent(file[o], @)]
    /\ syn' = Took(o)
    /\ file' = Collect([file EXCEPT ![o] = Synced(@, srv[o[1]])], child, op, syn')
    /\ UNCHANGED <<up, dsts, child, rlock, op, redialing, clock, ext, used>>

\* The server can't be reached, or it was and its reply is lost: sync returns,
\* and leaves the other goroutines.
Failed(o) ==
    /\ syn' = [Took(o) EXCEPT !.pc = "idle"]
    /\ file' = Collect(file, child, op, syn')
    /\ redialing' = (redialing \/ syn.pc = "files")
SyncFails(o) ==
    /\ o \in syn.todo /\ file[o].sts \in Dirty
    /\ ~up
    /\ Failed(o)
    /\ UNCHANGED <<srv, up, dsts, child, rlock, op, clock, ext, used>>
ReplyLost(o) ==
    /\ o \in syn.todo /\ file[o].sts \in Dirty
    /\ up /\ used["breaks"] < MaxBreaks /\ Use("breaks")
    /\ up' = FALSE
    /\ srv' = [srv EXCEPT ![o[1]] = Sent(file[o], @)]
    /\ Failed(o)
    /\ UNCHANGED <<dsts, child, rlock, op, clock, ext>>

-----------------------------------------------------------------------------
(* The rest of the world.                                                  *)

Break ==
    /\ up /\ used["breaks"] < MaxBreaks /\ Use("breaks")
    /\ up' = FALSE
    /\ UNCHANGED <<srv, dsts, child, file, rlock, op, syn, redialing, clock, ext>>

\* Another client puts or removes a file.
Other(n) ==
    /\ used["ext"] < MaxExt /\ Use("ext")
    /\ ext' = ext \cup {n}
    /\ clock' = clock + 1
    /\ \/ srv[n] # None /\ srv' = [srv EXCEPT ![n] = None]
       \/ srv' = [srv EXCEPT ![n] = [data |-> <<None>>, mt |-> clock + 1, mode |-> 0]]
    /\ UNCHANGED <<up, dsts, child, file, rlock, op, syn, redialing>>

Start(u) ==
    \/ \E kind \in Kinds, n \in Names : WalkDir(u, kind, n) \/ GetDir(u, kind, n)
    \/ NotCalled(u)
Step(u) ==
    \/ GotDir(u) \/ NoDir(u)
    \/ Fail(u) \/ Stat(u) \/ Wstat(u) \/ Remove(u) \/ Get(u) \/ Put(u) \/ PutEnd(u)
Sync == \E o \in Objs : SyncFile(o) \/ SyncFails(o)
Next ==
    \/ \E u \in Users : Start(u) \/ Step(u) \/ Recv(u)
    \/ SyncDir \/ Sync \/ \E o \in Objs : ReplyLost(o)
    \/ Inval \/ Redial \/ Break
    \/ \E n \in Names : Other(n)

\* Goroutines run, the data of a put ends, the timer of the syncer expires, and
\* a server that is redialed for ever answers.
Fairness ==
    /\ \A u \in Users : WF_vars(Step(u))
    /\ WF_vars(Sync) /\ WF_vars(SyncDir) /\ WF_vars(Redial)

Spec == Init /\ [][Next]_vars /\ Fairness

-----------------------------------------------------------------------------
(* Properties.                                                             *)

Putting(o) == \E u \in Users : op[u].pc = "recv" /\ op[u].f = o
Creating(o) == \E u \in Users : op[u].made /\ op[u].f = o

\* A clean file that nobody is writing is what the server has, unless other
\* clients changed it: cClean is set by sync after the data it had was sent, by
\* gotData, and never while there is something else to send.
CleanIsSynced ==
    \A n \in Names \ ext :
        LET o == child[n] IN
        (o # None /\ file[o].sts = "clean" /\ ~Putting(o)) =>
            srv[n] # None /\ srv[n].data = file[o].data

\* A clean file with contents other than the server's has another mtime or
\* size, so that gotMeta notices when the metadata times out.
Detected(n) ==
    LET o == child[n] IN
    (o # None /\ file[o].sts = "clean" /\ ~Putting(o) /\ srv[n] # None) =>
        \/ srv[n].data = file[o].data
        \/ srv[n].mt # file[o].mt \/ Len(srv[n].data) # file[o].size

\* The data of a file that a call made is coming: its mtime is not set before
\* all of it came (putData), and gotMeta may have given it the server's.
Making(o) == \E u \in Users : op[u].pc = "recv" /\ op[u].made /\ op[u].f = o

\* What is clean and stale is noticed, unless sync sends what it has of a file
\* that is being made and was dropped since sync took it: gotData, gotMeta and
\* sync leave a clean file with the mtime and the size of what it holds, and
\* every change of the server's contents comes with an mtime of its own.
StaleIsDetected ==
    [][\A n \in Names :
        Detected(n) =>
            \/ Detected(n)'
            \/ \E o \in syn.todo \ syn'.todo : o[1] = n /\ o # child[n] /\ Making(o)]_vars

\* A call that found a file that is then removed does nothing to it: a removed
\* file goes away, unless a put had started (putData does not look again).
RemovedIsLeft ==
    [][\A n \in Names :
        LET o == child[n] IN
        (o # None /\ child'[n] = o /\ file[o].sts = "del" /\ ~Putting(o) /\ ~Creating(o)) =>
            file'[o].sts \in {"del", "gone"}]_vars

\* Whatever breaks, what is dirty is sent in the end, and nothing stays dirty
\* but the attributes of a file that another client removed.
EventuallySynced ==
    <>[](\A n \in Names :
            (child[n] # None /\ file[child[n]].sts \in Dirty) =>
                file[child[n]].sts \in {"newmeta", "meta"} /\ srv[n] = None)
=============================================================================
